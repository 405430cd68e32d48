--------------------------- MODULE MCSiemensLive ---------------------------
(***************************************************************************)
(* SiemensPLC for the liveness properties: two coils in two poll groups, a *)
(* read of both, a write of one and a write of both.                       *)
(***************************************************************************)
EXTENDS SiemensPLC

MCConfig ==
    <<[type |-> "BOOL", access |-> TRUE, group |-> 0],
      [type |-> "BOOL", access |-> TRUE, group |-> 1]>>

MCGroups == MakeDataItemGroups(MCConfig)

\* What the controller's program stores is what the writes store, so that the
\* values do not multiply the states the threads can be in.
MCDeviceValues == [i \in 0 .. 1 |-> {<<0>>}]

Write(ids) ==
    [op |-> "writeBits", ids |-> ids, count |-> Len(ids), data |-> <<0>>]

MCRequests ==
    {[op |-> "readBits", ids |-> <<0, 1>>, count |-> 2, data |-> <<>>],
     Write(<<0>>), Write(<<0, 1>>)}

=============================================================================
