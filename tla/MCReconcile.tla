----------------------------- MODULE MCReconcile -----------------------------
(* Instances of Reconcile for TLC: a source, an operator and a sink. *)
EXTENDS Reconcile

CONSTANTS source, tracker, sink

Chain == {<<source, tracker>>, <<tracker, sink>>}
Connections == Chain \cup {<<source, sink>>}

Plan(nodes, edges, changed, edited) ==
    [nodes |-> nodes,
     edges |-> edges,
     config |-> [n \in Nodes |-> IF n \in changed THEN "new" ELSE "old"],
     policy |-> [e \in Edges |-> IF e \in edited THEN "new" ELSE "old"]]

All == {source, tracker, sink}
Original == Plan(All, Chain, {}, {})

\* An edit of the configuration of one operator, the removal of a consumer, and that of
\* the operator between the source and a consumer.
ConfigEdits ==
    {Original,
     Plan(All, Chain, {tracker}, {}),
     Plan({source, tracker}, {<<source, tracker>>}, {}, {}),
     Plan({source, sink}, {<<source, sink>>}, {}, {})}

\* Edits of the queue settings of one edge.
QueueEdits == {Original} \cup {Plan(All, Chain, {}, {e}) : e \in Chain}
=============================================================================
