--------------------------- MODULE MCGatewayWords ---------------------------
(***************************************************************************)
(* Gateway with two holding registers, one item of each size, and queries  *)
(* for both of them, for a register in the middle of the D_INT (and, from  *)
(* there, for more than a query may ask for), and for one of them whose    *)
(* size fits or not.                                                       *)
(***************************************************************************)
EXTENDS Gateway

MCConfig ==
    <<[type |-> "D_INT", access |-> TRUE, group |-> 3],
      [type |-> "INT",   access |-> TRUE, group |-> 3]>>

MCGroups == MakeDataItemGroups(MCConfig)

\* The controller's program stores what the clients write, so that the values do
\* not multiply the states.
MCDeviceValues == (0 :> {<<11, 12, 13, 14>>}) @@ (1 :> {<<15, 16>>})

Query(fc, address, count, data) ==
    [fc |-> fc, address |-> address, count |-> count, data |-> data]

Both == <<11, 12, 13, 14, 15, 16>>

MCQueries ==
    {Query(READ_HOLDING_REGISTERS, 0, 3, <<>>),
     Query(READ_HOLDING_REGISTERS, 1, 1, <<>>),
     Query(READ_HOLDING_REGISTERS, 1, 126, <<>>),
     Query(WRITE_MULTIPLE_REGISTERS, 0, 3, Both),
     Query(WRITE_SINGLE_REGISTER, 0, 1, <<17, 18>>),
     Query(WRITE_SINGLE_REGISTER, 2, 1, <<15, 16>>)}

MCRequests ==
    {[op |-> "readBytes", ids |-> <<0, 1>>, count |-> 3, data |-> <<>>],
     [op |-> "writeBytes", ids |-> <<0, 1>>, count |-> 3, data |-> Both],
     [op |-> "writeBytes", ids |-> <<0>>, count |-> 1, data |-> <<17, 18>>],
     [op |-> "writeBytes", ids |-> <<1>>, count |-> 1, data |-> <<15, 16>>]}

=============================================================================
