------------------------------- MODULE MCMesh -------------------------------
(***************************************************************************)
(* One endpoint on one leaf, for TLC.                                      *)
(***************************************************************************)
EXTENDS MeshDirectory

\* The leaf is started last.
MCStartOrders == {[p \in Procs |-> CASE p = "n1" -> 1 [] p = "n2" -> 2 [] OTHER -> 3]}

MCOwner == [e \in Eps |-> CHOOSE l \in Leaves : TRUE]
=============================================================================
