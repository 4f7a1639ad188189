------------------------- MODULE MC_EventListener ---------------------------
(***************************************************************************)
(* A client whose metadata declares one pallet, Balances at index 1, with *)
(* one event, Transfer at variant index 0.  Blocks carry that event and    *)
(* one the metadata does not declare, as after a runtime upgrade adds a    *)
(* pallet (index 2).  Up to three blocks of up to two events each.         *)
(***************************************************************************)
EXTENDS EventListener

CONSTANTS Balances, Transfer, None

MCBlob ==
    [prefix |-> 1635018093, version |-> "V14",
     types |-> [i \in {10} |-> [kind |-> "Variant",
                                variants |-> <<[index |-> 0, name |-> Transfer]>>]],
     pallets |-> <<[name |-> Balances, index |-> 1, event |-> 10]>>]

MCPrefix == {1635018093}
MCVersion == {"V14"}
MCTypeId == {10}

MCAllKeys == {<<1, 0>>, <<2, 0>>}
MCDeclaredKeys == {<<1, 0>>}
MCAllFaults == {"item_error", "stream_end"}
MCNoFaults == {}
MCStreamEnd == {"stream_end"}
=============================================================================
