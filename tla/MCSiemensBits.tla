--------------------------- MODULE MCSiemensBits ---------------------------
(***************************************************************************)
(* SiemensPLC with Bool items: two coils in different poll groups and one  *)
(* input contact.                                                          *)
(***************************************************************************)
EXTENDS SiemensImage

MCConfig ==
    <<[type |-> "BOOL", access |-> TRUE,  group |-> 0],
      [type |-> "BOOL", access |-> TRUE,  group |-> 7],
      [type |-> "BOOL", access |-> FALSE, group |-> 7]>>

MCGroups == MakeDataItemGroups(MCConfig)

\* The controller holds a 1 in coil 0 until a client writes it; the other items
\* stay 0, so that the values do not multiply the states.
MCDeviceValues == (0 :> {<<1>>}) @@ (1 :> {<<0>>}) @@ (2 :> {<<0>>})

Read(ids) == [op |-> "readBits", ids |-> ids, count |-> Len(ids), data |-> <<>>]
Write(ids, count, data) ==
    [op |-> "writeBits", ids |-> ids, count |-> count, data |-> data]

\* FC2 on both input contacts, FC5 on coil 0, FC15 with count 1 and 3 (which
\* reach the object with no id and with two), and two writes of the input
\* contact, which only the object's own checks refuse.
MCRequests ==
    {Read(<<SIEMENS_STATUS, 2>>), Write(<<0>>, 1, <<1>>), Write(<<>>, 1, <<1>>),
     Write(<<0, 1>>, 3, <<7>>), Write(<<2>>, 1, <<1>>), Write(<<0, 2>>, 3, <<7>>)}

=============================================================================
