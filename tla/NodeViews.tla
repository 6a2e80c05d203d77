------------------------------- MODULE NodeViews -------------------------------
(***************************************************************************)
(* The read-only calls on a runtime directory: inspection and status       *)
(* (runtime.py).  Both read the files anew and report what is there,       *)
(* whether or not a start would accept it.                                 *)
(***************************************************************************)
EXTENDS NodeRuntime

(* Identity and manifest must be there, a missing config means the default *)
(* paths; otherwise the call raises.                                       *)
Readable == identity # None /\ manifest # None

(* The last artifact of a directory, by name. *)
Newest(records) == {r \in records : \A q \in records : Later(r.name, q.name)}

NewestNode(records) ==
    IF Newest(records) = {} THEN None ELSE (CHOOSE r \in Newest(records) : TRUE).node

(* inspect_local_node_runtime *)
Inspection ==
    [node |-> identity, matches |-> manifest.node = identity,
     receipts |-> {r.name : r \in receipts}, lineage |-> {l.name : l \in lineage}]

(* local_node_status: the last startup receipt and whom the last lineage   *)
(* record attributes its startup to.                                       *)
Status == [node |-> identity, validated |-> NewestNode(receipts), attributed |-> NewestNode(lineage)]
=============================================================================
