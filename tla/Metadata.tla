------------------------------ MODULE Metadata ------------------------------
(***************************************************************************)
(* The lookups of src/event-listener/src/metadata that read the parsed     *)
(* RuntimeMetadataV14 held by a Metadata snapshot: get_storage_hash        *)
(* (metadata_utils.rs) and the closure storage_hash hands to the hash      *)
(* cache (metadata_type.rs).  The snapshot is immutable (it sits behind an *)
(* Arc), so every operator here is a pure function of it.                  *)
(*                                                                         *)
(* The hash of a found storage entry (get_storage_entry_hash, the          *)
(* type-hash engine) is the constant operator EntryHash: this module only  *)
(* uses that it is a function of the entry.  TypeHash.tla models the       *)
(* engine itself.                                                          *)
(***************************************************************************)
EXTENDS Naturals, Sequences

CONSTANTS
    PalletName,   \* pallet names a caller may ask for (present or not)
    ItemName,     \* storage entry names a caller may ask for
    EntryShape,   \* what, besides its name, a storage entry's hash reads
    EntryHash(_)  \* get_storage_entry_hash(types, entry), per entry

(* A caller can always name some pallet and some entry.                    *)
ASSUME NamesAssumption == PalletName # {} /\ ItemName # {}

(* A StorageEntryMetadata: its name and the rest of its shape (modifier,   *)
(* type, hashers, default bytes) as one abstract value.                    *)
Entry == [name : ItemName, shape : EntryShape]

(* A PalletMetadata as far as storage lookups read it: the name, whether   *)
(* `storage` is Some, and the entries of PalletStorageMetadata in order.   *)
Pallet == [name : PalletName, hasStorage : BOOLEAN, entries : Seq(Entry)]

(* Names are unique among the pallets of a runtime, and among the entries  *)
(* of one pallet's storage: construct_runtime and decl_storage reject      *)
(* duplicates, so every metadata a node serves has this shape.             *)
UniqueNames(s) ==
    \A i, j \in DOMAIN s : s[i].name = s[j].name => i = j

WellFormed(pallets) ==
    /\ pallets \in Seq(Pallet)
    /\ UniqueNames(pallets)
    /\ \A i \in DOMAIN pallets : UniqueNames(pallets[i].entries)

(* Index of the first element of s named n, 0 when none is: the           *)
(* `.iter().find(|x| x.name == n)` both lookups of get_storage_hash do.    *)
FindByName(s, n) ==
    IF \E i \in DOMAIN s : s[i].name = n
    THEN CHOOSE i \in DOMAIN s :
             /\ s[i].name = n
             /\ \A j \in 1..(i - 1) : s[j].name # n
    ELSE 0

(* Results, as Result<[u8; 32], E>.                                        *)
Ok(h) == [ok |-> TRUE, val |-> h]
Err(e) == [ok |-> FALSE, val |-> e]

(* Mutant: a pallet without storage reported as a missing pallet.         *)
GetStorageHashNoStorageAsPallet(pallets, p, s) ==
    LET pi == FindByName(pallets, p) IN
    IF pi = 0 \/ ~pallets[pi].hasStorage THEN Err("NotFoundPallet")
    ELSE LET ei == FindByName(pallets[pi].entries, s) IN
         IF ei = 0 THEN Err("NotFoundItem")
         ELSE Ok(EntryHash(pallets[pi].entries[ei]))

(* get_storage_hash: find the pallet by name, then its storage, then the   *)
(* entry by name; each miss is an early return with NotFound.              *)
GetStorageHash(pallets, p, s) ==
    LET pi == FindByName(pallets, p) IN
    IF pi = 0 THEN Err("NotFoundPallet")
    ELSE IF ~pallets[pi].hasStorage THEN Err("NotFoundItem")
    ELSE LET ei == FindByName(pallets[pi].entries, s) IN
         IF ei = 0 THEN Err("NotFoundItem")
         ELSE Ok(EntryHash(pallets[pi].entries[ei]))

(* NotFound::Pallet and NotFound::Item mapped into MetadataError.          *)
MapNotFound(e) ==
    IF e = "NotFoundPallet" THEN "PalletNotFound" ELSE "StorageNotFound"

(* The closure Metadata::storage_hash passes to get_or_insert: the hash,   *)
(* or the NotFound mapped to PalletNotFound / StorageNotFound.             *)
StorageHashOf(pallets, p, s) ==
    LET r == GetStorageHash(pallets, p, s) IN
    IF r.ok THEN r ELSE Err(MapNotFound(r.val))

=============================================================================
