------------------------- MODULE MC_StorageHashCache -------------------------
(***************************************************************************)
(* A snapshot with a pallet that has storage (System, one entry Account), *)
(* a pallet without storage (Balances), and a name no pallet has (Assets); *)
(* callers ask for Account and for Number, which System does not have.    *)
(* That reaches every return of get_storage_hash, and two distinct results *)
(* under each pallet name.                                                 *)
(***************************************************************************)
EXTENDS StorageHashCache, TLC

CONSTANTS c1, c2, c3, System, Balances, Assets, Account, Number

MCCallers == {c1, c2, c3}
MCPalletName == {System, Balances, Assets}
MCItemName == {Account, Number}
MCEntryShape == {"PlainU32"}

(* twox_256 of the entry's bytes, abstracted to an injective tag.          *)
MCEntryHash(e) == <<"twox256", e.name, e.shape>>

MCPallets ==
    << [name |-> System, hasStorage |-> TRUE,
        entries |-> << [name |-> Account, shape |-> "PlainU32"] >>],
       [name |-> Balances, hasStorage |-> FALSE, entries |-> << >>] >>

MCSymmetry == Permutations(MCCallers)
=============================================================================
