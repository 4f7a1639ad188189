-------------------------- MODULE MetadataParseProofs -------------------------
(***************************************************************************)
(* Proofs about try_from for every blob: it returns a Metadata exactly for *)
(* a valid blob, and otherwise the error the contract names, in the order *)
(* prefix, version, first bad pallet.  The one non-obvious step is that   *)
(* the first bad pallet exists: the pallets' positions are naturals, so   *)
(* a non-empty set of them has a least element.                            *)
(***************************************************************************)
EXTENDS MetadataParse, WellFoundedInduction, TLAPS

(* A non-empty set of naturals has a least element.                        *)
LEMMA LeastNat ==
    ASSUME NEW T, T \subseteq Nat, T # {}
    PROVE  \E i \in T : \A j \in T : i <= j
<1>1. \E x \in T : \A y \in T : ~(<<y, x>> \in OpToRel(<, Nat))
    BY NatLessThanWellFounded, WFMin, Zenon
<1>2. \A x, y \in Nat : <<y, x>> \in OpToRel(<, Nat) <=> y < x
    BY DEF OpToRel
<1>3. \E x \in T : \A y \in T : ~(y < x)
    BY <1>1, <1>2, Zenon
<1>4. QED
    BY <1>3

(* get_type_def_variant accepts a pallet's event type exactly when it is   *)
(* present and an enum.                                                     *)
LEMMA EventTypeAccepted ==
    ASSUME NEW m, NEW id
    PROVE  EventTypeError(m, id) = <<"none">>
               <=> m.types[id] # Absent /\ m.types[id].kind = "Variant"
BY DEF EventTypeError

(* The early return of the pallet loop names a pallet with a bad event     *)
(* type, when there is one.                                                *)
LEMMA FirstBadPallet ==
    ASSUME NEW m, \E n \in Nat : DOMAIN m.pallets = 1..n, BadPallets(m) # {}
    PROVE  LET i == CHOOSE i \in BadPallets(m) : \A j \in BadPallets(m) : i <= j
           IN  i \in BadPallets(m)
<1>1. BadPallets(m) \subseteq Nat
    BY DEF BadPallets
<1>2. \E i \in BadPallets(m) : \A j \in BadPallets(m) : i <= j
    BY <1>1, LeastNat
<1>3. QED
    BY <1>2

(* try_from on one blob meets the contract.                                *)
LEMMA TryFromContract ==
    ASSUME NEW m, \E n \in Nat : DOMAIN m.pallets = 1..n
    PROVE  LET r == TryFrom(m) IN
           /\ r.ok <=> Valid(m)
           /\ m.prefix # MetaReserved => r.val = <<"InvalidPrefix">>
           /\ m.prefix = MetaReserved /\ m.version # "V14" => r.val = <<"InvalidVersion">>
           /\ Valid(m) \/ m.prefix # MetaReserved \/ m.version # "V14"
              \/ \E i \in DOMAIN m.pallets :
                     /\ m.pallets[i].event # NoEvent
                     /\ r.val = EventTypeError(m, m.pallets[i].event)
<1>1. BadPallets(m) = {} <=>
        \A i \in DOMAIN m.pallets :
            m.pallets[i].event # NoEvent =>
                m.types[m.pallets[i].event] # Absent
                /\ m.types[m.pallets[i].event].kind = "Variant"
    BY EventTypeAccepted DEF BadPallets
<1>2. Valid(m) <=> m.prefix = MetaReserved /\ m.version = "V14" /\ BadPallets(m) = {}
    BY <1>1 DEF Valid
<1>3. CASE m.prefix # MetaReserved
    BY <1>2, <1>3 DEF TryFrom
<1>4. CASE m.prefix = MetaReserved /\ m.version # "V14"
    BY <1>2, <1>4 DEF TryFrom
<1>5. CASE m.prefix = MetaReserved /\ m.version = "V14" /\ BadPallets(m) = {}
    BY <1>2, <1>5 DEF TryFrom
<1>6. CASE m.prefix = MetaReserved /\ m.version = "V14" /\ BadPallets(m) # {}
    <2> DEFINE i == CHOOSE i \in BadPallets(m) : \A j \in BadPallets(m) : i <= j
    <2>1. i \in BadPallets(m)
        BY <1>6, FirstBadPallet
    <2>2. i \in DOMAIN m.pallets /\ m.pallets[i].event # NoEvent
        BY <2>1 DEF BadPallets
    <2>3. TryFrom(m) = [ok |-> FALSE, val |-> EventTypeError(m, m.pallets[i].event)]
        BY <1>6 DEF TryFrom
    <2>4. ~Valid(m)
        BY <1>2, <1>6
    <2>5. TryFrom(m).val = EventTypeError(m, m.pallets[i].event)
        BY <2>3
    <2>6. \E j \in DOMAIN m.pallets :
              /\ m.pallets[j].event # NoEvent
              /\ TryFrom(m).val = EventTypeError(m, m.pallets[j].event)
        BY <2>2, <2>5, Zenon
    <2>7. TryFrom(m).ok = FALSE
        BY <2>3
    <2>8. QED
        BY <1>6, <2>4, <2>6, <2>7
<1>7. QED
    BY <1>3, <1>4, <1>5, <1>6

-----------------------------------------------------------------------------
(* The entry one variant of one pallet leaves in that pallet's inserts:    *)
(* when variant indices are unique, the last variant with an index is the *)
(* only one, so the entry under the variant's key is its own.              *)
LEMMA PalletEntry ==
    ASSUME NEW pallet, NEW vs, \E n \in 0..Len(vs) : DOMAIN vs = 1..n,
           \A i, j \in DOMAIN vs : vs[i].index = vs[j].index => i = j,
           NEW j \in DOMAIN vs
    PROVE  /\ EventKey(pallet, vs[j]) \in DOMAIN PalletEvents(pallet, vs)
           /\ PalletEvents(pallet, vs)[EventKey(pallet, vs[j])] = EventMeta(pallet, vs[j])
<1>1. j \in Nat
    OBVIOUS
<1>2. (CHOOSE k \in DOMAIN vs : vs[k].index = vs[j].index
                  /\ \A l \in DOMAIN vs : vs[l].index = vs[j].index => l <= k) = j
    <2>1. vs[j].index = vs[j].index /\ \A l \in DOMAIN vs : vs[l].index = vs[j].index => l <= j
        BY <1>1
    <2>2. \A k \in DOMAIN vs : vs[k].index = vs[j].index => k = j
        OBVIOUS
    <2>3. QED
        BY <2>1, <2>2
<1>3. EventKey(pallet, vs[j])[2] = vs[j].index
    BY DEF EventKey
<1>4. QED
    BY <1>2, <1>3 DEF PalletEvents

(* The keys a pallet inserts are its index paired with its variants' ones. *)
LEMMA PalletKeys ==
    ASSUME NEW pallet, NEW vs
    PROVE  DOMAIN PalletEvents(pallet, vs) = {<<pallet.index, vs[j].index>> : j \in DOMAIN vs}
BY DEF PalletEvents, EventKey

(* The specified event when exactly one (pallet, variant) pair declares it. *)
LEMMA SpecEventFound ==
    ASSUME NEW m, NEW pi, NEW vi, NEW i, NEW j, SpecPairs(m, pi, vi) = {<<i, j>>}
    PROVE  SpecEvent(m, pi, vi) =
               [ok |-> TRUE, val |-> [pallet |-> m.pallets[i].name,
                                      event |-> SpecVariants(m, i)[j].name]]
<1> DEFINE ij == CHOOSE ij \in SpecPairs(m, pi, vi) : TRUE
<1>1. ij = <<i, j>>
    OBVIOUS
<1>2. ij[1] = i /\ ij[2] = j
    BY <1>1
<1>3. SpecPairs(m, pi, vi) # {}
    OBVIOUS
<1>4. QED
    BY <1>2, <1>3 DEF SpecEvent

(* On a valid, well-formed blob, Metadata::event on the map try_from      *)
(* builds answers exactly what the blob declares: the one pallet with the *)
(* index and the one variant of its enum with the index, or EventNotFound. *)
LEMMA EventLookup ==
    ASSUME NEW m, WellFormedBlob(m), Valid(m), NEW pi, NEW vi
    PROVE  Event(EventsAfter(m), pi, vi) = SpecEvent(m, pi, vi)
<1> DEFINE ps == m.pallets
           Vs(i) == SpecVariants(m, i)
           With == {i \in DOMAIN ps : ps[i].event # NoEvent}
           Evs(i) == PalletEvents(ps[i], Vs(i))
           key == <<pi, vi>>
           Pairs == SpecPairs(m, pi, vi)
<1>1. ASSUME NEW i \in With
      PROVE  /\ \E n \in 0..Len(Vs(i)) : DOMAIN Vs(i) = 1..n
             /\ \A a, b \in DOMAIN Vs(i) : Vs(i)[a].index = Vs(i)[b].index => a = b
    <2>1. ps[i].event \in DOMAIN m.types /\ m.types[ps[i].event].kind = "Variant"
        BY DEF Valid, WellFormedBlob
    <2>2. QED
        BY <2>1 DEF WellFormedBlob, Vs, SpecVariants
<1>2. EventsAfter(m) =
        [k \in UNION {DOMAIN Evs(i) : i \in With} |->
            Evs(CHOOSE i \in With : /\ k \in DOMAIN Evs(i)
                                    /\ \A j \in With : k \in DOMAIN Evs(j) => j <= i)[k]]
    BY DEF EventsAfter, Evs, Vs, SpecVariants, With, ps
<1>3. ASSUME NEW i \in With
      PROVE  key \in DOMAIN Evs(i) <=> \E j \in DOMAIN Vs(i) : ps[i].index = pi /\ Vs(i)[j].index = vi
    <2>1. DOMAIN Evs(i) = {<<ps[i].index, Vs(i)[j].index>> : j \in DOMAIN Vs(i)}
        BY PalletKeys DEF Evs
    <2>2. QED
        BY <2>1 DEF key
<1>4. DOMAIN ps \subseteq Nat
    BY DEF WellFormedBlob
<1>5. CASE Pairs = {}
    <2>1. key \notin UNION {DOMAIN Evs(i) : i \in With}
        <3>1. SUFFICES ASSUME NEW i \in With, key \in DOMAIN Evs(i) PROVE FALSE
            OBVIOUS
        <3>2. PICK j \in DOMAIN Vs(i) : ps[i].index = pi /\ Vs(i)[j].index = vi
            BY <1>3, <3>1
        <3>3. <<i, j>> \in Pairs
            BY <3>2 DEF Pairs, SpecPairs, With, Vs, ps
        <3>4. QED
            BY <1>5, <3>3
    <2>2. Event(EventsAfter(m), pi, vi) = [ok |-> FALSE, val |-> <<"EventNotFound", pi, vi>>]
        BY <1>2, <2>1 DEF Event
    <2>3. SpecEvent(m, pi, vi) = [ok |-> FALSE, val |-> <<"EventNotFound", pi, vi>>]
        BY <1>5 DEF SpecEvent, Pairs
    <2>4. QED
        BY <2>2, <2>3
<1>6. CASE Pairs # {}
    <2>1. PICK i \in With : \E j \in DOMAIN Vs(i) : ps[i].index = pi /\ Vs(i)[j].index = vi
        BY <1>6 DEF Pairs, SpecPairs, Vs, With, ps
    <2>2. PICK j \in DOMAIN Vs(i) : ps[i].index = pi /\ Vs(i)[j].index = vi
        BY <2>1
    <2>3. \A i2 \in DOMAIN ps : ps[i2].index = pi => i2 = i
        BY <2>2 DEF WellFormedBlob
    <2>4. \A j2 \in DOMAIN Vs(i) : Vs(i)[j2].index = vi => j2 = j
        BY <1>1, <2>2
    <2>5. Pairs = {<<i, j>>}
        BY <2>2, <2>3, <2>4 DEF Pairs, SpecPairs, Vs, With, ps
    <2>6. SpecEvent(m, pi, vi) = [ok |-> TRUE, val |-> [pallet |-> ps[i].name, event |-> Vs(i)[j].name]]
        <3>1. SpecEvent(m, pi, vi) =
                [ok |-> TRUE, val |-> [pallet |-> m.pallets[i].name,
                                       event |-> SpecVariants(m, i)[j].name]]
            BY <2>5, SpecEventFound DEF Pairs
        <3>2. QED
            BY <3>1 DEF Vs, ps
    <2>7. key \in DOMAIN Evs(i)
        BY <1>3, <2>2
    <2>8. (CHOOSE i2 \in With : /\ key \in DOMAIN Evs(i2)
                                /\ \A j2 \in With : key \in DOMAIN Evs(j2) => j2 <= i2) = i
        <3>1. \A i2 \in With : key \in DOMAIN Evs(i2) => i2 = i
            BY <1>3, <2>3
        <3>2. i \in Nat
            BY <1>4
        <3>3. QED
            BY <2>7, <3>1, <3>2
    <2>9. key = EventKey(ps[i], Vs(i)[j])
        BY <2>2 DEF EventKey
    <2>10. Evs(i)[key] = EventMeta(ps[i], Vs(i)[j])
        BY <1>1, <2>2, <2>9, PalletEntry DEF Evs
    <2>11. Event(EventsAfter(m), pi, vi) = [ok |-> TRUE, val |-> EventMeta(ps[i], Vs(i)[j])]
        BY <1>2, <2>7, <2>8, <2>10 DEF Event
    <2>12. QED
        BY <2>6, <2>11 DEF EventMeta
<1>7. QED
    BY <1>5, <1>6

(* The inductive invariant: the blob is one of the inputs, and the result *)
(* is either not there yet or try_from's.                                  *)
IInv ==
    /\ md \in Blobs
    /\ parsed = NotParsed \/ parsed = TryFrom(md)

LEMMA IInvInit == Init => IInv
BY DEF Init, IInv

LEMMA IInvStep == IInv /\ [Next]_vars => IInv'
<1> SUFFICES ASSUME IInv, [Next]_vars PROVE IInv'
    OBVIOUS
<1>1. CASE Parse
    BY <1>1 DEF Parse, IInv
<1>2. ASSUME NEW pi \in Index, NEW vi \in Index, LookupEvent(pi, vi)
      PROVE  IInv'
    BY <1>2 DEF LookupEvent, IInv
<1>3. CASE UNCHANGED vars
    BY <1>3 DEF vars, IInv
<1>4. QED
    BY <1>1, <1>2, <1>3 DEF Next

LEMMA IInvContract == IInv => ParseMeetsContract
<1> SUFFICES ASSUME IInv, parsed # NotParsed PROVE ParseMeetsContract
    BY DEF ParseMeetsContract
<1>1. parsed = TryFrom(md)
    BY DEF IInv
<1>2. \E n \in Nat : DOMAIN md.pallets = 1..n
    <2>1. PICK n \in 0..Len(md.pallets) : DOMAIN md.pallets = 1..n
        BY BlobsAssumption DEF IInv, WellFormedBlob
    <2>2. n \in Nat
        OBVIOUS
    <2>3. QED
        BY <2>1, <2>2
<1>3. QED
    BY <1>1, <1>2, TryFromContract DEF ParseMeetsContract

(* Design 4.1 and 9, for every blob: try_from builds a Metadata exactly    *)
(* from a valid blob, answers InvalidPrefix for every malformed prefix     *)
(* and InvalidVersion for every other version, and otherwise names the     *)
(* event type of a pallet whose type is missing or not an enum.            *)
THEOREM ParseCorrect == Spec => []ParseMeetsContract
BY IInvInit, IInvStep, IInvContract, PTL DEF Spec
-----------------------------------------------------------------------------
(* A lookup has been made only on a Metadata try_from built, and its     *)
(* answer is Metadata::event on that map.                                  *)
LookupInv ==
    looked = NoLookup
    \/ /\ parsed = TryFrom(md) /\ parsed.ok
       /\ looked.res = Event(parsed.val, looked.pi, looked.vi)

LEMMA LookupInit == Init => LookupInv
BY DEF Init, LookupInv

LEMMA LookupStep == IInv /\ LookupInv /\ [Next]_vars => LookupInv'
<1> SUFFICES ASSUME IInv, LookupInv, [Next]_vars PROVE LookupInv'
    OBVIOUS
<1>1. CASE Parse
    <2>1. looked = NoLookup
        BY <1>1 DEF Parse, LookupInv, NotParsed
    <2>2. QED
        BY <1>1, <2>1 DEF Parse, LookupInv
<1>2. ASSUME NEW pi \in Index, NEW vi \in Index, LookupEvent(pi, vi)
      PROVE  LookupInv'
    BY <1>2 DEF LookupEvent, LookupInv, IInv
<1>3. CASE UNCHANGED vars
    BY <1>3 DEF vars, LookupInv
<1>4. QED
    BY <1>1, <1>2, <1>3 DEF Next

LEMMA LookupCorrectFromInv == IInv /\ LookupInv => EventLookupCorrect
<1> SUFFICES ASSUME IInv, LookupInv, looked # NoLookup
             PROVE  looked.res = SpecEvent(md, looked.pi, looked.vi)
    BY DEF EventLookupCorrect
<1>1. parsed = TryFrom(md) /\ parsed.ok /\ looked.res = Event(parsed.val, looked.pi, looked.vi)
    BY DEF LookupInv
<1>2. WellFormedBlob(md)
    BY BlobsAssumption DEF IInv
<1>3. \E n \in Nat : DOMAIN md.pallets = 1..n
    <2>1. PICK n \in 0..Len(md.pallets) : DOMAIN md.pallets = 1..n
        BY <1>2 DEF WellFormedBlob
    <2>2. QED
        BY <2>1
<1>4. Valid(md)
    BY <1>1, <1>3, TryFromContract
<1>5. parsed.val = EventsAfter(md)
    BY <1>1, <1>4 DEF TryFrom, Valid, BadPallets, EventTypeError
<1>6. QED
    BY <1>1, <1>2, <1>4, <1>5, EventLookup

(* Design 9, for every well-formed blob: after try_from succeeds, every    *)
(* Metadata::event call finds exactly the event the blob declares under   *)
(* its (pallet index, variant index), with the pallet's and the variant's *)
(* names, and EventNotFound for every other pair, however the variants'   *)
(* indices differ from their positions and whatever the pallets' order.   *)
THEOREM EventLookupCorrectness == Spec => []EventLookupCorrect
<1>1. Init => IInv /\ LookupInv
    BY IInvInit, LookupInit
<1>2. IInv /\ LookupInv /\ [Next]_vars => (IInv /\ LookupInv)'
    BY IInvStep, LookupStep
<1>3. QED
    BY <1>1, <1>2, LookupCorrectFromInv, PTL DEF Spec
=============================================================================
