-------------------------- MODULE MCValidateGraph --------------------------
(* All graphs of three resources with at most two parents each, for TLC.     *)
EXTENDS ValidateGraph

MCParentLists == UNION {[1 .. k -> Names] : k \in 0 .. 2}
=============================================================================
