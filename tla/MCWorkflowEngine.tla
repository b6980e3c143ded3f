-------------------------- MODULE MCWorkflowEngine --------------------------
(* Instances of WorkflowEngine for TLC: graphs on three nodes a, b, c. *)
EXTENDS WorkflowEngine, TLC

CONSTANTS a, b, c

Edges(f) == [n \in Nodes |-> IF n \in DOMAIN f THEN f[n] ELSE <<>>]
Errors(f) == [n \in Nodes |-> IF n \in DOMAIN f THEN f[n] ELSE NoNode]
None == [n \in {} |-> NoNode]

G(entry, next, onError, handled, nodes) ==
  [entry |-> entry, next |-> Edges(next), onError |-> Errors(onError),
   handled |-> handled, nodes |-> nodes]

Chain     == G(a, (a :> <<b>>) @@ (b :> <<c>>), None, Nodes, Nodes)
Fallback  == G(a, (a :> <<b>>), (a :> c) @@ (b :> c), Nodes, Nodes)
Fork      == G(a, (a :> <<b, c>>), (b :> c), Nodes, Nodes)
Unhandled == G(a, (a :> <<b>>) @@ (b :> <<c>>), (a :> b), {a, b}, Nodes)
Dangling  == G(a, (a :> <<b>>), (a :> c), Nodes, {a, c})
Empty     == G(NoNode, None, None, Nodes, Nodes)
Unwired   == G(a, (a :> <<b>>) @@ (b :> <<c>>), None, {}, Nodes)

Acyclic == {Chain, Fallback, Fork, Unhandled, Dangling, Empty, Unwired}
=============================================================================
