--------------------------- MODULE MCEntityWrites ---------------------------
(***************************************************************************)
(* Instances of EntityWrites for TLC: two columns and one virtual field    *)
(* with values 0 and 1, the part of the doc_status table of                *)
(* packages/core/src/entity/field-utils.ts that starts at draft, and a     *)
(* leave request as the status machine.                                    *)
(***************************************************************************)
EXTENDS EntityWrites, TLC

MCDocStatuses == {"draft", "submitted", "approved", "cancelled", "confirmed"}

MCDocTable ==
    {<<"draft", "submitted">>, <<"draft", "cancelled">>, <<"submitted", "approved">>,
     <<"submitted", "cancelled">>, <<"approved", "cancelled">>, <<"cancelled", "draft">>}

MCStages == {"pending", "approved", "cancelled"}

MCStageTable == {<<"pending", "approved">>, <<"pending", "cancelled">>}

MCPatches ==
    [set : {"qty" :> 1}, stage : {None}, doc : {None}]
      \cup [set : {"rate" :> 1}, stage : {None}, doc : {None}]
      \cup [set : {"note" :> 1}, stage : {None}, doc : {None}]
      \cup [set : {<<>>}, stage : {"approved", "cancelled"}, doc : {None}]
      \cup [set : {<<>>}, stage : {None}, doc : {"submitted", "cancelled"}]

Symmetry == Permutations(Requests)

=============================================================================
