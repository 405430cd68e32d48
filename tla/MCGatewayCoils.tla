--------------------------- MODULE MCGatewayCoils ---------------------------
(***************************************************************************)
(* Gateway with three coils and one query: set them all.                   *)
(***************************************************************************)
EXTENDS Gateway

MCConfig ==
    [n \in 1 .. 3 |-> [type |-> "BOOL", access |-> TRUE, group |-> 0]]

MCGroups == MakeDataItemGroups(MCConfig)

MCDeviceValues == [i \in 0 .. 2 |-> {<<0>>}]

MCQueries ==
    {[fc |-> WRITE_MULTIPLE_COILS, address |-> 0, count |-> 3, data |-> <<7>>]}

\* What the handler makes of it.
MCRequests ==
    {[op |-> "writeBits", ids |-> <<0, 1>>, count |-> 3, data |-> <<7>>]}

=============================================================================
