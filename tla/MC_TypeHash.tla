---------------------------- MODULE MC_TypeHash ----------------------------
(***************************************************************************)
(* Every registry over three type ids whose definitions come from one     *)
(* instance of each TypeDef arm: two primitives (bool, u32), the wrappers *)
(* Sequence, Compact and Array over any id, pairs in Tuple, Composite and  *)
(* BitSequence, a named and an unnamed field, a one-variant enum.  That    *)
(* includes self-reference, two-type cycles, types reached twice, and     *)
(* wrappers nested in wrappers.                                            *)
(***************************************************************************)
EXTENDS TypeHash

MCTypeId == {0, 1, 2}

NameA == <<97>>
NameB == <<98>>

MCDefs ==
    {[kind |-> "Primitive", prim |-> k] : k \in {0, 5}}
    \cup {[kind |-> w, param |-> i] : w \in {"Sequence", "Compact"}, i \in MCTypeId}
    \cup {[kind |-> "Array", len |-> 2, param |-> i] : i \in MCTypeId}
    \cup {[kind |-> "Tuple", fields |-> <<i, j>>] : i, j \in MCTypeId}
    \cup {[kind |-> "Composite",
           fields |-> <<[name |-> <<NameA>>, ty |-> i], [name |-> <<NameB>>, ty |-> j]>>]
          : i, j \in MCTypeId}
    \cup {[kind |-> "Composite", fields |-> <<[name |-> <<>>, ty |-> i]>>] : i \in MCTypeId}
    \cup {[kind |-> "Variant",
           variants |-> <<[name |-> <<86>>, fields |-> <<[name |-> <<>>, ty |-> i]>>]>>]
          : i \in MCTypeId}
    \cup {[kind |-> "BitSequence", order |-> i, store |-> j] : i, j \in MCTypeId}

MCRegistries == [MCTypeId -> MCDefs]

(* Four ids, u32, sequences and pairs, with no sequence of a sequence: no *)
(* registry here can cancel a tag by xor, so a collision among its types  *)
(* comes from the visited set alone.                                       *)
MCVisitedTypeId == 0..3

MCVisitedDefs ==
    {[kind |-> "Primitive", prim |-> 5]}
    \cup {[kind |-> "Sequence", param |-> i] : i \in MCVisitedTypeId}
    \cup {[kind |-> "Tuple", fields |-> <<i, j>>] : i, j \in MCVisitedTypeId}

MCVisitedRegistries ==
    {r \in [MCVisitedTypeId -> MCVisitedDefs] :
        \A i \in MCVisitedTypeId :
            r[i].kind = "Sequence" => r[r[i].param].kind # "Sequence"}
=============================================================================
