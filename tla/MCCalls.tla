------------------------------ MODULE MCCalls ------------------------------
(* LeafCalls with one endpoint of this leaf and one of another. *)
EXTENDS LeafCalls

EndpointList == <<"e1", "e2">>

============================================================================
