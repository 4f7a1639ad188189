-------------------------- MODULE MC_MetadataParse --------------------------
(***************************************************************************)
(* try_from on every blob built from: a good and a bad prefix, V14 and an  *)
(* older version, two type ids each absent, a non-enum, a one-variant enum *)
(* or a two-variant enum whose variant indices are not their positions,    *)
(* and up to two pallets (indices 0 and 1, in either order) each with or  *)
(* without an event type.  Lookups cover indices 0..2, so keys present,   *)
(* keys absent and keys that only a position would give all occur.        *)
(***************************************************************************)
EXTENDS MetadataParse

CONSTANTS System, Balances, Transfer, Deposit, None

MCPrefix == {1635018093, 0}
MCVersion == {"V14", "V13"}
MCTypeId == {10, 11}
MCIndex == {0, 1, 2}

MCDefs ==
    {Absent, [kind |-> "Other"],
     [kind |-> "Variant", variants |-> <<[index |-> 0, name |-> Transfer]>>],
     [kind |-> "Variant",
      variants |-> <<[index |-> 2, name |-> Deposit], [index |-> 0, name |-> Transfer]>>]}

MCPallet(name, idx) == {[name |-> name, index |-> idx, event |-> e] : e \in MCTypeId \cup {None}}

MCPallets ==
    {<<>>}
    \cup {<<p>> : p \in MCPallet(System, 0) \cup MCPallet(Balances, 1)}
    \cup {<<p, q>> : p \in MCPallet(System, 0), q \in MCPallet(Balances, 1)}
    \cup {<<q, p>> : p \in MCPallet(System, 0), q \in MCPallet(Balances, 1)}

MCBlobs ==
    [prefix : MCPrefix, version : MCVersion, types : [MCTypeId -> MCDefs], pallets : MCPallets]

-----------------------------------------------------------------------------
(* The two loops of try_from written as they run, one step per iteration (metadata_type.rs        *)
(* 175-197): for each pallet in order, and for each variant of its event   *)
(* enum in order, events.insert((pallet.index, variant.index()), ..), an  *)
(* insert replacing the value an earlier one left under the same key.      *)
Insert(map, key, val) ==
    [k \in DOMAIN map \cup {key} |-> IF k = key THEN val ELSE map[k]]

InsertVariants(map, pallet, vs) ==
    LET upto[n \in 0..Len(vs)] ==
            IF n = 0 THEN map
            ELSE Insert(upto[n - 1], EventKey(pallet, vs[n]), EventMeta(pallet, vs[n]))
    IN upto[Len(vs)]

InsertLoop(m) ==
    LET ps == m.pallets
        upto[n \in 0..Len(ps)] ==
            IF n = 0 THEN <<>>
            ELSE IF ps[n].event = NoEvent THEN upto[n - 1]
            ELSE InsertVariants(upto[n - 1], ps[n], m.types[ps[n].event].variants)
    IN upto[Len(ps)]

(* The map a successful try_from hands to Metadata is the one the two      *)
(* nested insert loops build, for every blob: the closed form EventsAfter  *)
(* that the proofs reason about is the code's loop, pallet order and       *)
(* variant order included.                                                 *)
EventsAfterIsInsertLoop ==
    parsed.ok => parsed.val = InsertLoop(md)
=============================================================================
