---------------------------- MODULE MCAddressMap ----------------------------
(***************************************************************************)
(* AddressMap over every configuration of at most MaxMixed items, one type *)
(* for each size and both kinds of access, and every one of more items, at *)
(* most MaxRegisters, that all go to the same table of registers.          *)
(***************************************************************************)
EXTENDS AddressMap

CONSTANTS Types, MaxMixed, MaxRegisters

Mixed(n) == [1 .. n -> [type : Types, access : BOOLEAN]]
SameTable(n) ==
    UNION {[1 .. n -> [type : Types \ {"BOOL"}, access : {rw}]] : rw \in BOOLEAN}

MCConfigs ==
    UNION {Mixed(n) : n \in 1 .. MaxMixed}
      \cup UNION {SameTable(n) : n \in MaxMixed + 1 .. MaxRegisters}

=============================================================================
