---------------------------- MODULE MetadataParse ----------------------------
(***************************************************************************)
(* Building a Metadata from a decoded RuntimeMetadataPrefixed              *)
(* (TryFrom<RuntimeMetadataPrefixed> for Metadata, metadata_type.rs) and   *)
(* the event lookup Metadata::event on the result.                         *)
(*                                                                         *)
(* The input is what the SCALE decoder hands to try_from: the magic        *)
(* prefix, the version tag, the type registry as far as resolve reads it   *)
(* (an id is absent, a variant type with its variants in order, or some    *)
(* other type), and the pallets in order with their index and the type id *)
(* of their event enum, if any.  Names are model values.                   *)
(***************************************************************************)
EXTENDS Naturals, Sequences, TLC

CONSTANTS
    MetaReserved,  \* META_RESERVED, the magic number every blob starts with
    Prefix,        \* the u32 prefixes a blob can carry (MetaReserved among them)
    Version,       \* the RuntimeMetadata variants ("V14" among them)
    TypeId,        \* type ids a pallet's event may name
    Blobs,         \* the decoded inputs try_from is called on
    Index,         \* the u8 pallet and variant indices callers look up
    NoEvent        \* pallet.event = None

(* What every decoded blob satisfies.  pallets and an enum's variants are *)
(* Vecs, so their positions are 1..n; construct_runtime! rejects two       *)
(* pallets with one index, and the codec derive of a pallet's event enum   *)
(* rejects two variants with one index; a pallet's event type id is one    *)
(* the registry is asked about (resolve answers Absent for a missing one). *)
WellFormedBlob(b) ==
    /\ \E n \in 0..Len(b.pallets) : DOMAIN b.pallets = 1..n
    /\ \A i, j \in DOMAIN b.pallets : b.pallets[i].index = b.pallets[j].index => i = j
    /\ \A i \in DOMAIN b.pallets : b.pallets[i].event \in DOMAIN b.types \cup {NoEvent}
    /\ \A id \in DOMAIN b.types :
          b.types[id].kind = "Variant" =>
              LET vs == b.types[id].variants IN
              /\ \E n \in 0..Len(vs) : DOMAIN vs = 1..n
              /\ \A i, j \in DOMAIN vs : vs[i].index = vs[j].index => i = j

ASSUME BlobsAssumption == \A b \in Blobs : WellFormedBlob(b)

VARIABLES
    md,       \* the RuntimeMetadataPrefixed handed to try_from
    parsed,   \* its result, or NotParsed before the call
    looked    \* the last Metadata::event call and its answer, or NoLookup

vars == <<md, parsed, looked>>

(* Before try_from has returned, and before any event lookup.  No result  *)
(* of try_from or of event is this: an error is never <<>>, and the empty  *)
(* map of a blob without events comes with ok = TRUE.                      *)
NotParsed == [ok |-> FALSE, val |-> <<>>]
NoLookup == [pi |-> 256, vi |-> 256, res |-> NotParsed]  \* 256 is no u8

(* A type id the registry does not resolve.                                *)
Absent == [kind |-> "Absent"]

(* The events HashMap as a function from (pallet index, variant index).    *)
EventKey(pallet, variant) == <<pallet.index, variant.index>>

(* The EventMetadata try_from builds for one variant of one pallet; the    *)
(* fields and docs are copied from the variant with the name.              *)
EventMeta(pallet, variant) == [pallet |-> pallet.name, event |-> variant.name]

(* Mutant: a variant keyed by its position in the enum, not its index.     *)
PalletEventsByPosition(pallet, vs) ==
    [key \in {<<pallet.index, j>> : j \in DOMAIN vs} |-> EventMeta(pallet, vs[key[2]])]

(* The inner loop over event_variant.variants(): one insert per variant,   *)
(* in order, so of two variants with one index the later one stays.        *)
PalletEvents(pallet, vs) ==
    LET Last(i) == CHOOSE j \in DOMAIN vs :
                       vs[j].index = i /\ \A k \in DOMAIN vs : vs[k].index = i => k <= j
    IN [key \in {EventKey(pallet, vs[j]) : j \in DOMAIN vs} |->
            EventMeta(pallet, vs[Last(key[2])])]

(* get_type_def_variant's verdict on a pallet's event type id.             *)
EventTypeError(m, id) ==
    IF m.types[id] = Absent THEN <<"MissingType", id>>
    ELSE IF m.types[id].kind # "Variant" THEN <<"TypeDefNotVariant", id>>
    ELSE <<"none">>

(* The pallets, in order, whose event type get_type_def_variant rejects.   *)
BadPallets(m) ==
    {i \in DOMAIN m.pallets :
        m.pallets[i].event # NoEvent /\ EventTypeError(m, m.pallets[i].event) # <<"none">>}

(* Mutant: the map created afresh for each pallet, so that only the last  *)
(* pallet with an event type keeps its entries.                            *)
EventsAfterPerPallet(m) ==
    LET ps == m.pallets
        With == {i \in DOMAIN ps : ps[i].event # NoEvent}
        LastPallet == CHOOSE i \in With : \A j \in With : j <= i
    IN IF With = {} THEN <<>>
       ELSE PalletEvents(ps[LastPallet], m.types[ps[LastPallet].event].variants)

(* The outer loop over metadata.pallets: each pallet with an event type   *)
(* inserts its variants in turn, a later insert overwriting an earlier one *)
(* with the same key, so the finished map holds for each key the entry of *)
(* the last pallet that inserts it.                                        *)
EventsAfter(m) ==
    LET ps == m.pallets
        With == {i \in DOMAIN ps : ps[i].event # NoEvent}
        Evs(i) == PalletEvents(ps[i], m.types[ps[i].event].variants)
        LastWith(key) == CHOOSE i \in With :
                             /\ key \in DOMAIN Evs(i)
                             /\ \A j \in With : key \in DOMAIN Evs(j) => j <= i
    IN [key \in UNION {DOMAIN Evs(i) : i \in With} |-> Evs(LastWith(key))[key]]

(* Mutant: the version checked before the prefix.                         *)
TryFromVersionFirst(m) ==
    IF m.version # "V14" THEN [ok |-> FALSE, val |-> <<"InvalidVersion">>]
    ELSE IF m.prefix # MetaReserved THEN [ok |-> FALSE, val |-> <<"InvalidPrefix">>]
    ELSE IF BadPallets(m) # {} THEN
        LET i == CHOOSE i \in BadPallets(m) : \A j \in BadPallets(m) : i <= j IN
        [ok |-> FALSE, val |-> EventTypeError(m, m.pallets[i].event)]
    ELSE [ok |-> TRUE, val |-> EventsAfter(m)]

(* try_from: the prefix, then the version, then the pallets in order; the  *)
(* first pallet whose event type is missing or not an enum is an early     *)
(* return with its error, before any Metadata exists.                      *)
TryFrom(m) ==
    IF m.prefix # MetaReserved THEN [ok |-> FALSE, val |-> <<"InvalidPrefix">>]
    ELSE IF m.version # "V14" THEN [ok |-> FALSE, val |-> <<"InvalidVersion">>]
    ELSE IF BadPallets(m) # {} THEN
        LET i == CHOOSE i \in BadPallets(m) : \A j \in BadPallets(m) : i <= j IN
        [ok |-> FALSE, val |-> EventTypeError(m, m.pallets[i].event)]
    ELSE [ok |-> TRUE, val |-> EventsAfter(m)]

(* Metadata::event: the map entry, or EventNotFound.                       *)
Event(events, pi, vi) ==
    IF <<pi, vi>> \in DOMAIN events THEN [ok |-> TRUE, val |-> events[<<pi, vi>>]]
    ELSE [ok |-> FALSE, val |-> <<"EventNotFound", pi, vi>>]

Init ==
    /\ md \in Blobs
    /\ parsed = NotParsed
    /\ looked = NoLookup

(* Metadata::try_from(md).                                                 *)
Parse ==
    /\ parsed = NotParsed
    /\ parsed' = TryFrom(md)
    /\ UNCHANGED <<md, looked>>

(* A caller of metadata.event(pallet_index, event_index) on the Metadata.  *)
LookupEvent(pi, vi) ==
    /\ parsed # NotParsed
    /\ parsed.ok
    /\ looked' = [pi |-> pi, vi |-> vi, res |-> Event(parsed.val, pi, vi)]
    /\ UNCHANGED <<md, parsed>>

Next ==
    \/ Parse
    \/ \E pi, vi \in Index : LookupEvent(pi, vi)

Spec == Init /\ [][Next]_vars

-----------------------------------------------------------------------------
(* A blob is valid when its prefix is META_RESERVED, it is V14, and the    *)
(* event type of every pallet that has one resolves to an enum.            *)
Valid(m) ==
    /\ m.prefix = MetaReserved
    /\ m.version = "V14"
    /\ \A i \in DOMAIN m.pallets :
           m.pallets[i].event # NoEvent =>
               /\ m.types[m.pallets[i].event] # Absent
               /\ m.types[m.pallets[i].event].kind = "Variant"

(* What try_from promises (design 4.1 and 9): a Metadata exactly for a     *)
(* valid blob; InvalidPrefix for every malformed prefix, whatever follows  *)
(* it; InvalidVersion for a good prefix and any version but V14; and a     *)
(* type error naming the event type of a pallet that has a bad one.        *)
ParseMeetsContract ==
    parsed # NotParsed =>
        /\ parsed.ok <=> Valid(md)
        /\ md.prefix # MetaReserved => parsed.val = <<"InvalidPrefix">>
        /\ md.prefix = MetaReserved /\ md.version # "V14"
               => parsed.val = <<"InvalidVersion">>
        /\ Valid(md) \/ md.prefix # MetaReserved \/ md.version # "V14"
           \/ \E i \in DOMAIN md.pallets :
                  /\ md.pallets[i].event # NoEvent
                  /\ parsed.val = EventTypeError(md, md.pallets[i].event)

(* The event a pallet declares under (pi, vi): the pallet with index pi,   *)
(* its event enum, and the variant with index vi in it.                    *)
SpecVariants(m, i) == m.types[m.pallets[i].event].variants

SpecPairs(m, pi, vi) ==
    UNION {{<<i, j>> : j \in {j \in DOMAIN SpecVariants(m, i) : SpecVariants(m, i)[j].index = vi}}
           : i \in {i \in DOMAIN m.pallets : m.pallets[i].event # NoEvent /\ m.pallets[i].index = pi}}

SpecEvent(m, pi, vi) ==
    IF SpecPairs(m, pi, vi) = {} THEN [ok |-> FALSE, val |-> <<"EventNotFound", pi, vi>>]
    ELSE LET ij == CHOOSE ij \in SpecPairs(m, pi, vi) : TRUE IN
         [ok |-> TRUE,
          val |-> [pallet |-> m.pallets[ij[1]].name, event |-> SpecVariants(m, ij[1])[ij[2]].name]]

(* Design 9: once try_from succeeds, every event a pallet declares is     *)
(* found by Metadata::event under its (pallet index, variant index), with  *)
(* that pallet's and that variant's names, and every other pair is         *)
(* EventNotFound.  Variant indices need not be positions, and several      *)
(* pallets insert into the one map, so a wrong key or a lost insert shows  *)
(* up only for some blobs and some lookups.                                *)
EventLookupCorrect ==
    looked # NoLookup => looked.res = SpecEvent(md, looked.pi, looked.vi)

=============================================================================
