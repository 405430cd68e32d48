--------------------------- MODULE MCGatewayBits ---------------------------
(***************************************************************************)
(* Gateway with a coil and an input register item of two registers:        *)
(* queries for each, for the controller's status, for a coil past the end, *)
(* for both, for the second and for one half of the registers, for no coil *)
(* at all, to set the coil to what is no state of one, and with a function *)
(* code that the gateway does not know.                                    *)
(***************************************************************************)
EXTENDS Gateway

MCConfig ==
    <<[type |-> "BOOL", access |-> TRUE, group |-> 0],
      [type |-> "D_INT", access |-> FALSE, group |-> 0]>>

MCGroups == MakeDataItemGroups(MCConfig)

\* The controller's program stores what the clients write, so that the values do
\* not multiply the states.
MCDeviceValues == (0 :> {<<1>>}) @@ (1 :> {<<11, 12, 13, 14>>})

Query(fc, address, count, data) ==
    [fc |-> fc, address |-> address, count |-> count, data |-> data]

MCQueries ==
    {Query(READ_COILS, 0, 1, <<>>), Query(READ_COILS, 0, 2, <<>>),
     Query(READ_COILS, 0, 0, <<>>), Query(WRITE_SINGLE_COIL, 0, 1, <<0, 1>>),
     Query(READ_DISCRETE_INPUTS, 0, 1, <<>>),
     Query(WRITE_SINGLE_COIL, 0, 1, <<255, 0>>),
     Query(READ_INPUT_REGISTERS, 0, 2, <<>>), Query(READ_INPUT_REGISTERS, 0, 1, <<>>),
     Query(READ_INPUT_REGISTERS, 1, 1, <<>>), Query(7, 0, 1, <<>>)}

Call(op, ids, count, data) ==
    [op |-> op, ids |-> ids, count |-> count, data |-> data]

MCRequests ==
    {Call("readBits", <<0>>, 1, <<>>), Call("readBits", <<-1>>, 1, <<>>),
     Call("writeBits", <<0>>, 1, <<1>>), Call("readBytes", <<1>>, 2, <<>>),
     Call("readBytes", <<1>>, 1, <<>>)}

=============================================================================
