--------------------------- MODULE MCNodeRegistry ---------------------------
(* Instances of NodeRegistry for TLC: every process has an id of its own. *)
EXTENDS NodeRegistry

OwnIds == CHOOSE f \in [Nodes -> Ids] : \A m, n \in Nodes : f[m] = f[n] => m = n
=============================================================================
