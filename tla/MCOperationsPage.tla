-------------------------- MODULE MCOperationsPage --------------------------
(* Two devices of different vendors, one of them not collectable. *)
EXTENDS OperationsPage, TLC

MCPurposesOf == [arista |-> <<"baseline", "interfaces">>,
                 cisco  |-> <<"interfaces">>]
=============================================================================
