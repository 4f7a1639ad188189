------------------------------ MODULE TypeHash ------------------------------
(***************************************************************************)
(* The type-hash engine of src/event-listener/src/metadata/               *)
(* metadata_utils.rs: get_type_hash and the helpers it recurses through,   *)
(* and get_storage_entry_hash.                                             *)
(*                                                                         *)
(* A 32-byte hash is modelled by what the algebra of the code can tell     *)
(* apart, with twox_256 taken as an ideal hash: a value is a set of        *)
(* "atoms", each the ideal hash of one input, and the value is the XOR of  *)
(* its atoms.  So xor is symmetric difference (x ^ x = 0 cancels), hash of *)
(* bytes is a single atom, and hash_hashes(a, b) = hash(a ++ b) is a fresh *)
(* atom of the pair.  Two modelled values are equal exactly when the code's *)
(* values are equal for an ideal hash.                                     *)
(*                                                                         *)
(* The visited set is one HashSet threaded by &mut through the whole       *)
(* top-level call, so every function returns its hash together with the   *)
(* visited set after it.  The recursion is written with RECURSIVE          *)
(* operators: this module is model-checked only.                           *)
(***************************************************************************)
EXTENDS Naturals, Sequences, FiniteSets, TLC

CONSTANTS
    TypeId,       \* the ids of the PortableRegistry
    Registries    \* the registries (TypeId -> type definition) to check

VARIABLE reg      \* the registry under examination

-----------------------------------------------------------------------------
(* hash(bytes): one atom.  Inputs are byte sequences.                     *)
Hash(bytes) == {<<"twox", bytes>>}

(* xor(a, b), byte by byte: the atoms in exactly one of a and b.           *)
Xor(a, b) == (a \ b) \cup (b \ a)

(* hash_hashes(a, b): hash of the 64 bytes a ++ b.                         *)
HashHashes(a, b) == {<<"twox64", a, b>>}

(* The 32 bytes [k; 32] merged for a storage hasher of discriminant k.     *)
Bytes32(k) == {<<"repeat32", k>>}

(* TypeBeingHashed discriminants, in declaration order.                    *)
TagComposite == 0
TagVariant == 1
TagSequence == 2
TagArray == 3
TagTuple == 4
TagPrimitive == 5
TagCompact == 6
TagBitSequence == 7

(* u32::to_be_bytes.                                                       *)
BigEndian4(n) == << (n \div 16777216) % 256, (n \div 65536) % 256,
                    (n \div 256) % 256, n % 256 >>

(* The sentinel get_type_hash returns for an id already visited.           *)
RevisitHash == Hash(<<123>>)

Res(h, v) == [h |-> h, v |-> v]

-----------------------------------------------------------------------------
RECURSIVE GetTypeHash(_, _, _), GetTypeDefHash(_, _, _),
          FoldFields(_, _, _, _), FoldVariants(_, _, _, _), FoldTypes(_, _, _, _)

(* get_field_hash: the field type's hash, xor the hash of its name if it  *)
(* has one.  A field name is Option<String>: <<>> or <<bytes>>.            *)
GetFieldHash(r, f, v) ==
    LET t == GetTypeHash(r, f.ty, v) IN
    IF f.name = <<>> THEN t ELSE Res(Xor(t.h, Hash(f.name[1])), t.v)

(* acc merged with hash_hashes, in order, with the hash of each field.    *)
FoldFields(r, acc, fs, v) ==
    IF fs = <<>> THEN Res(acc, v)
    ELSE LET x == GetFieldHash(r, Head(fs), v) IN
         FoldFields(r, HashHashes(acc, x.h), Tail(fs), x.v)

(* get_variant_hash: hash of the name merged in order with each field.     *)
GetVariantHash(r, var, v) == FoldFields(r, Hash(var.name), var.fields, v)

FoldVariants(r, acc, vs, v) ==
    IF vs = <<>> THEN Res(acc, v)
    ELSE LET x == GetVariantHash(r, Head(vs), v) IN
         FoldVariants(r, HashHashes(acc, x.h), Tail(vs), x.v)

(* The members of a tuple: bare type ids.                                  *)
FoldTypes(r, acc, ids, v) ==
    IF ids = <<>> THEN Res(acc, v)
    ELSE LET x == GetTypeHash(r, Head(ids), v) IN
         FoldTypes(r, HashHashes(acc, x.h), Tail(ids), x.v)

(* A tag hash xor the hash of one type parameter.                          *)
XorParam(r, tagHash, id, v) ==
    LET x == GetTypeHash(r, id, v) IN Res(Xor(tagHash, x.h), x.v)

(* get_type_def_hash, one arm per TypeDef variant.                         *)
GetTypeDefHash(r, d, v) ==
    CASE d.kind = "Composite" -> FoldFields(r, Hash(<<TagComposite>>), d.fields, v)
      [] d.kind = "Variant" -> FoldVariants(r, Hash(<<TagVariant>>), d.variants, v)
      [] d.kind = "Sequence" -> XorParam(r, Hash(<<TagSequence>>), d.param, v)
      [] d.kind = "Array" ->
             XorParam(r, Hash(<<TagArray>> \o BigEndian4(d.len)), d.param, v)
      [] d.kind = "Tuple" -> FoldTypes(r, Hash(<<TagTuple>>), d.fields, v)
      [] d.kind = "Primitive" -> Res(Hash(<<TagPrimitive, d.prim>>), v)
      [] d.kind = "Compact" -> XorParam(r, Hash(<<TagCompact>>), d.param, v)
      [] d.kind = "BitSequence" ->
             LET o == XorParam(r, Hash(<<TagBitSequence>>), d.order, v) IN
             XorParam(r, o.h, d.store, o.v)

(* Mutant: the revisit sentinel hashes the id it met again.                *)
GetTypeHashIdSentinel(r, id, v) ==
    IF id \in v THEN Res(Hash(<<123>> \o BigEndian4(id)), v)
    ELSE GetTypeDefHash(r, r[id], v \cup {id})

(* get_type_hash: the recursion guard, then resolve and hash the def.      *)
(* resolve(id).unwrap(): every id a registry refers to is in it.           *)
GetTypeHash(r, id, v) ==
    IF id \in v THEN Res(RevisitHash, v)
    ELSE GetTypeDefHash(r, r[id], v \cup {id})

(* The hash a top-level call computes, with a fresh visited set.           *)
TypeHashOf(r, id) == GetTypeHash(r, id, {}).h

(* The storage hashers, each merged in order as [hasher as u8; 32].       *)
RECURSIVE MergeHashers(_, _)
MergeHashers(acc, hashers) ==
    IF hashers = <<>> THEN acc
    ELSE MergeHashers(HashHashes(acc, Bytes32(Head(hashers))), Tail(hashers))

(* get_storage_entry_hash: name, modifier and default folded in with xor; *)
(* then the plain type, or the hashers followed by the key and the value  *)
(* types with xor, the two sharing one visited set.                        *)
GetStorageEntryHash(r, e) ==
    LET base == Xor(Xor(Hash(e.name), Hash(<<e.modifier>>)), Hash(e.default)) IN
    IF e.ty.kind = "Plain" THEN XorParam(r, base, e.ty.id, {}).h
    ELSE LET k == XorParam(r, MergeHashers(base, e.ty.hashers), e.ty.key, {}) IN
         XorParam(r, k.h, e.ty.value, k.v).h

-----------------------------------------------------------------------------
(***************************************************************************)
(* Reference: the structure of a type, the tree of definitions reached     *)
(* from its id with every id replaced by that tree.  It is finite exactly  *)
(* when no cycle is reachable, and it is what "structurally identical"     *)
(* means for such types.                                                   *)
(***************************************************************************)
(* The ids a definition refers to directly.                                *)
Children(d) ==
    CASE d.kind = "Composite" -> {d.fields[i].ty : i \in DOMAIN d.fields}
      [] d.kind = "Variant" ->
             UNION {{d.variants[i].fields[j].ty : j \in DOMAIN d.variants[i].fields}
                    : i \in DOMAIN d.variants}
      [] d.kind \in {"Sequence", "Array", "Compact"} -> {d.param}
      [] d.kind = "Tuple" -> {d.fields[i] : i \in DOMAIN d.fields}
      [] d.kind = "Primitive" -> {}
      [] d.kind = "BitSequence" -> {d.order, d.store}

(* The ids reachable from id in one or more steps.                         *)
RECURSIVE ReachableFrom(_, _, _)
ReachableFrom(r, frontier, seen) ==
    LET next == UNION {Children(r[x]) : x \in frontier} \ seen IN
    IF next = {} THEN seen ELSE ReachableFrom(r, next, seen \cup next)

Reach(r, id) == ReachableFrom(r, Children(r[id]), Children(r[id]))

Acyclic(r, id) == \A x \in Reach(r, id) \cup {id} : x \notin Reach(r, x)

RECURSIVE Tree(_, _)
Tree(r, id) ==
    LET d == r[id]
        Fld(f) == [name |-> f.name, ty |-> Tree(r, f.ty)]
    IN
    CASE d.kind = "Composite" ->
             [kind |-> d.kind, fields |-> [i \in DOMAIN d.fields |-> Fld(d.fields[i])]]
      [] d.kind = "Variant" ->
             [kind |-> d.kind,
              variants |-> [i \in DOMAIN d.variants |->
                  [name |-> d.variants[i].name,
                   fields |-> [j \in DOMAIN d.variants[i].fields |->
                                  Fld(d.variants[i].fields[j])]]]]
      [] d.kind \in {"Sequence", "Compact"} -> [kind |-> d.kind, param |-> Tree(r, d.param)]
      [] d.kind = "Array" -> [kind |-> d.kind, len |-> d.len, param |-> Tree(r, d.param)]
      [] d.kind = "Tuple" ->
             [kind |-> d.kind, fields |-> [i \in DOMAIN d.fields |-> Tree(r, d.fields[i])]]
      [] d.kind = "Primitive" -> d
      [] d.kind = "BitSequence" ->
             [kind |-> d.kind, order |-> Tree(r, d.order), store |-> Tree(r, d.store)]

(* A registry with its ids renamed by the permutation f: what the same    *)
(* types look like when another build of the runtime interns them in      *)
(* another order.                                                          *)
RelabelDef(d, f) ==
    LET Fld(x) == [x EXCEPT !.ty = f[x.ty]] IN
    CASE d.kind = "Composite" -> [d EXCEPT !.fields = [i \in DOMAIN d.fields |-> Fld(d.fields[i])]]
      [] d.kind = "Variant" ->
             [d EXCEPT !.variants = [i \in DOMAIN d.variants |->
                 [d.variants[i] EXCEPT !.fields =
                     [j \in DOMAIN d.variants[i].fields |-> Fld(d.variants[i].fields[j])]]]]
      [] d.kind \in {"Sequence", "Array", "Compact"} -> [d EXCEPT !.param = f[d.param]]
      [] d.kind = "Tuple" -> [d EXCEPT !.fields = [i \in DOMAIN d.fields |-> f[d.fields[i]]]]
      [] d.kind = "Primitive" -> d
      [] d.kind = "BitSequence" -> [d EXCEPT !.order = f[d.order], !.store = f[d.store]]

Renamed(r, f) == [j \in TypeId |-> RelabelDef(r[CHOOSE i \in TypeId : f[i] = j], f)]

(* A map storage entry over the given key and value types.                 *)
MapEntry(k, v) ==
    [name |-> <<65>>, modifier |-> 0, default |-> <<0>>,
     ty |-> [kind |-> "Map", hashers |-> <<0>>, key |-> k, value |-> v]]

-----------------------------------------------------------------------------
(* The hash depends on the registry only up to the numbering of its ids:  *)
(* the same types interned in another order hash the same, cycles and     *)
(* repeated types included (the visited set and its sentinel are keyed on *)
(* ids, so this is what makes the hash portable between builds).          *)
RenamingInvariant ==
    \A f \in Permutations(TypeId), t \in TypeId :
        TypeHashOf(Renamed(reg, f), f[t]) = TypeHashOf(reg, t)

(* The design's claim for type_hash: two types without cycles that differ *)
(* in structure (a field's name, order or type) hash differently.          *)
TypeHashInjective ==
    \A a, b \in TypeId :
        (Acyclic(reg, a) /\ Acyclic(reg, b) /\ Tree(reg, a) # Tree(reg, b))
            => TypeHashOf(reg, a) # TypeHashOf(reg, b)

(* A storage map keyed by a and valued by b hashes differently from one   *)
(* keyed by b and valued by a, when a and b differ in structure.           *)
StorageKeyValueDistinct ==
    \A a, b \in TypeId :
        (Acyclic(reg, a) /\ Acyclic(reg, b) /\ Tree(reg, a) # Tree(reg, b))
            => GetStorageEntryHash(reg, MapEntry(a, b))
                   # GetStorageEntryHash(reg, MapEntry(b, a))

-----------------------------------------------------------------------------
Init == reg \in Registries

(* The registry of a snapshot never changes.                               *)
Next == UNCHANGED reg

Spec == Init /\ [][Next]_reg

=============================================================================
