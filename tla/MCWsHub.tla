------------------------------- MODULE MCWsHub -------------------------------
(* Instances of WsHub for TLC: all connections belong to one user. *)
EXTENDS WsHub

OneUser == [c \in Conns |-> CHOOSE u \in Users : TRUE]
=============================================================================
