------------------------------ MODULE DataItems ------------------------------
(***************************************************************************)
(* The data of one configured item (dataItem.cpp, dataItem.h) and the      *)
(* partition of the items into poll groups (PLC.cpp, MakeDataItemGroups).  *)
(*                                                                         *)
(* A value of an item is its bytes in the order they lie in memory, a      *)
(* sequence of size 1, 2 or 4.  The S7 controller stores words high byte   *)
(* first; the gateway runs on a little-endian CPU (Raspberry Pi).          *)
(***************************************************************************)
EXTENDS Naturals, Sequences, SequencesExt

\* The types determineType can return (WORD and DWORD are never produced).
SIEMENSDATATYPES ==
    {"BOOL", "BYTE", "INT", "D_INT", "REAL", "COUNTER", "TIME", "CHAR"}

\* The configuration's name of a type -> the type.
determineType(name) ==
    CASE name = "Bool"                -> "BOOL"
      [] name = "Unsigned char"       -> "BYTE"
      [] name \in {"Int", "timeofDay"} -> "D_INT"
      [] name = "Float"               -> "REAL"
      [] name = "counter"             -> "COUNTER"
      [] name = "time"                -> "TIME"
      [] name = "char"                -> "CHAR"
      [] OTHER                        -> "INT"

\* The number of bytes the constructor allocates for an item of a type.
SizeOf(type) ==
    CASE type \in {"BOOL", "BYTE", "CHAR"} -> 1
      [] type \in {"D_INT", "REAL"}        -> 4
      [] OTHER                             -> 2

\* Mutation of DetermineModbusRegType: words go by the opposite access.
DetermineModbusRegTypeSwapped(item) ==
    CASE item.type = "BOOL" /\ item.access  -> "S7COIL"
      [] item.type = "BOOL" /\ ~item.access -> "S7INCONT"
      [] item.type # "BOOL" /\ item.access  -> "S7INPUTREG"
      [] OTHER                              -> "S7HOLDREG"

\* The Modbus table an item belongs to.
DetermineModbusRegType(item) ==
    CASE item.type = "BOOL" /\ item.access  -> "S7COIL"
      [] item.type = "BOOL" /\ ~item.access -> "S7INCONT"
      [] item.type # "BOOL" /\ item.access  -> "S7HOLDREG"
      [] OTHER                              -> "S7INPUTREG"

Byte == 0 .. 255
Value == Seq(Byte)

\* The n-th bit of a query's data: eight to a byte, the lowest first.
Bit(bytes, n) == (bytes[(n - 1) \div 8 + 1] \div 2 ^ ((n - 1) % 8)) % 2

\* memset(localCopy, 0, size).
Zeros(size) == [k \in 1 .. size |-> 0]

\* htobe16 and htobe32 reverse the bytes of a word on a little-endian CPU;
\* any other size is copied as it is.
GetData(localCopy) ==
    IF Len(localCopy) \in {2, 4} THEN Reverse(localCopy) ELSE localCopy

\* htole16 and htole32 leave a word as it is on a little-endian CPU, so each
\* branch copies its input: what reaches the controller is the wire's order.
ConvertForWrite(data) == SubSeq(data, 1, Len(data))

\* `new' replaces the elements of `seq' from the given place on.
Overwrite(seq, place, new) ==
    [k \in DOMAIN seq |->
       IF k - place \in DOMAIN new THEN new[k - place] ELSE seq[k]]

\* The bytes of each register in the other order.
SwapPairs(bytes) ==
    [k \in DOMAIN bytes |-> bytes[IF k % 2 = 1 THEN k + 1 ELSE k - 1]]

\* The groups in the order std::map iterates over them: ascending group id,
\* and within a group the items in the order of the configuration.
MakeDataItemGroups(config) ==
    LET GroupIds == {config[n].group : n \in DOMAIN config}
        Keys     == SetToSortSeq(GroupIds, <)
        Ids      == [n \in DOMAIN config |-> n - 1]
    IN  [g \in DOMAIN Keys |->
            SelectSeq(Ids, LAMBDA id : config[id + 1].group = Keys[g])]

=============================================================================
