-------------------------- MODULE MC_OnlineClient ---------------------------
(***************************************************************************)
(* Two tasks and a node that answers the metadata request with one of four *)
(* byte blobs: a valid V14 blob, one with a bad prefix, one whose pallet   *)
(* event type is not an enum, and bytes that do not decode.  Any request   *)
(* may also be answered with malformed JSON, time out, or fail once the   *)
(* connection has closed.                                                  *)
(***************************************************************************)
EXTENDS OnlineClient

CONSTANTS Balances, Transfer, None, T1, T2,
          Good, BadPrefix, BadEvent, Garbage, Rv, Data, Hash, Sub, Null

MCPrefix == {1635018093, 0}
MCVersion == {"V14"}
MCTypeId == {10}
MCIndex == {0, 1}

MCTasks == {T1, T2}


MCBlob(prefix, def) ==
    [prefix |-> prefix, version |-> "V14", types |-> [i \in MCTypeId |-> def],
     pallets |-> <<[name |-> Balances, index |-> 1, event |-> 10]>>]

MCEnum == [kind |-> "Variant", variants |-> <<[index |-> 0, name |-> Transfer]>>]

(* RuntimeMetadataPrefixed::decode of each byte blob the node may send.    *)
MCDecode(b) ==
    CASE b = Good      -> [ok |-> TRUE, val |-> MCBlob(1635018093, MCEnum)]
      [] b = BadPrefix -> [ok |-> TRUE, val |-> MCBlob(0, MCEnum)]
      [] b = BadEvent  -> [ok |-> TRUE, val |-> MCBlob(1635018093, [kind |-> "Other"])]
      [] OTHER         -> [ok |-> FALSE, val |-> <<"Codec">>]

(* The node's well-formed answers, per method.                              *)
MCAnswers(m) ==
    CASE m = "state_getRuntimeVersion" -> {Rv}
      [] m = "state_getMetadata"       -> {Good, BadPrefix, BadEvent, Garbage}
      [] m = "state_getStorage"        -> {Data, Null}
      [] m = "chain_getBlockHash"      -> {Hash, Null}
      [] OTHER                         -> {Sub}
=============================================================================
