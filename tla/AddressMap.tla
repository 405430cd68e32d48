----------------------------- MODULE AddressMap -----------------------------
(***************************************************************************)
(* The Modbus addresses of the items (ModbusServer.cpp).  StartRunThread   *)
(* walks over the list of items once and gives every item a place in one   *)
(* of four tables: two sequences, indexed by the bit address, and two maps *)
(* from the first register of an item.  Then it allocates the register     *)
(* image.  The request handlers translate an address and a count into      *)
(* resource ids through these tables; their lookups are the operators at   *)
(* the end.                                                                *)
(***************************************************************************)
EXTENDS DataItems, Integers

CONSTANT Configs  \* the configurations the gateway may be given

ASSUME ConfigsAssumption ==
    Configs \subseteq Seq([type : SIEMENSDATATYPES, access : BOOLEAN])

SIEMENS_STATUS == -1
NoMemory == [bits |-> -1, input_bits |-> -1, registers |-> -1,
             input_registers |-> -1]

VARIABLES
    config,                    \* PLC->ListOfDataItems
    ResourceId,                \* the loop's counter, the current item's id
    Coils, InputContacts,      \* sequences of ids; address a is entry a + 1
    HoldingRegs, InputRegs,    \* functions from register addresses to ids
    CurrentHoldingAddress, CurrentInpuutRegsAddress,
    DeviceMemory               \* the sizes of the register image

vars == <<config, ResourceId, Coils, InputContacts, HoldingRegs, InputRegs,
          CurrentHoldingAddress, CurrentInpuutRegsAddress, DeviceMemory>>

Items == 0 .. Len(config) - 1
Item(id) == config[id + 1]
size(id) == SizeOf(Item(id).type)

\* ceil of an integer quotient: the division has already rounded down.
Registers(id) == size(id) \div 2

-----------------------------------------------------------------------------
Init ==
    /\ config \in Configs
    /\ ResourceId = 0
    /\ Coils = <<>> /\ InputContacts = <<SIEMENS_STATUS>>
    /\ HoldingRegs = <<>> /\ InputRegs = <<>>
    /\ CurrentHoldingAddress = 0 /\ CurrentInpuutRegsAddress = 0
    /\ DeviceMemory = NoMemory

\* Mutation of Insert: every register of a long item gets an entry.
InsertTwice(table, address, id) ==
    [a \in DOMAIN table \cup {address, address + 1} |->
        IF a \in DOMAIN table THEN table[a] ELSE id]

\* map::insert keeps the entry that is already there.
Insert(table, address, id) ==
    [a \in DOMAIN table \cup {address} |->
        IF a \in DOMAIN table THEN table[a] ELSE id]

\* The loop has an item of this kind at hand and goes on to the next one.
NextResource(kind) ==
    /\ ResourceId < Len(config)
    /\ DetermineModbusRegType(Item(ResourceId)) = kind
    /\ ResourceId' = ResourceId + 1
    /\ UNCHANGED <<config, DeviceMemory>>

PushCoil ==
    /\ NextResource("S7COIL")
    /\ Coils' = Append(Coils, ResourceId)
    /\ UNCHANGED <<InputContacts, HoldingRegs, InputRegs,
                   CurrentHoldingAddress, CurrentInpuutRegsAddress>>

PushInputContact ==
    /\ NextResource("S7INCONT")
    /\ InputContacts' = Append(InputContacts, ResourceId)
    /\ UNCHANGED <<Coils, HoldingRegs, InputRegs, CurrentHoldingAddress,
                   CurrentInpuutRegsAddress>>

\* Mutations of InsertHoldingReg: the id is taken after the increment; every
\* item advances the address by one register.
InsertHoldingRegLate ==
    /\ NextResource("S7HOLDREG")
    /\ HoldingRegs' = Insert(HoldingRegs, CurrentHoldingAddress, ResourceId + 1)
    /\ CurrentHoldingAddress' = CurrentHoldingAddress + Registers(ResourceId)
    /\ UNCHANGED <<Coils, InputContacts, InputRegs, CurrentInpuutRegsAddress>>
InsertHoldingRegByOne ==
    /\ NextResource("S7HOLDREG")
    /\ HoldingRegs' = Insert(HoldingRegs, CurrentHoldingAddress, ResourceId)
    /\ CurrentHoldingAddress' = CurrentHoldingAddress + 1
    /\ UNCHANGED <<Coils, InputContacts, InputRegs, CurrentInpuutRegsAddress>>

InsertHoldingReg ==
    /\ NextResource("S7HOLDREG")
    /\ HoldingRegs' = Insert(HoldingRegs, CurrentHoldingAddress, ResourceId)
    /\ CurrentHoldingAddress' = CurrentHoldingAddress + Registers(ResourceId)
    /\ UNCHANGED <<Coils, InputContacts, InputRegs, CurrentInpuutRegsAddress>>

InsertInputReg ==
    /\ NextResource("S7INPUTREG")
    /\ InputRegs' = Insert(InputRegs, CurrentInpuutRegsAddress, ResourceId)
    /\ CurrentInpuutRegsAddress' =
         CurrentInpuutRegsAddress + Registers(ResourceId)
    /\ UNCHANGED <<Coils, InputContacts, HoldingRegs, CurrentHoldingAddress>>

\* Mutation of NewMapping: the two register counts are swapped.
NewMappingSwapped ==
    /\ ResourceId = Len(config)
    /\ DeviceMemory = NoMemory
    /\ DeviceMemory' = [bits            |-> Len(Coils),
                        input_bits      |-> Len(InputContacts),
                        registers       |-> CurrentInpuutRegsAddress,
                        input_registers |-> CurrentHoldingAddress]
    /\ UNCHANGED <<config, ResourceId, Coils, InputContacts, HoldingRegs,
                   InputRegs, CurrentHoldingAddress, CurrentInpuutRegsAddress>>

\* modbus_mapping_new, after the last item.
NewMapping ==
    /\ ResourceId = Len(config)
    /\ DeviceMemory = NoMemory
    /\ DeviceMemory' = [bits            |-> Len(Coils),
                        input_bits      |-> Len(InputContacts),
                        registers       |-> CurrentHoldingAddress,
                        input_registers |-> CurrentInpuutRegsAddress]
    /\ UNCHANGED <<config, ResourceId, Coils, InputContacts, HoldingRegs,
                   InputRegs, CurrentHoldingAddress, CurrentInpuutRegsAddress>>

Next ==
    \/ PushCoil \/ PushInputContact \/ InsertHoldingReg \/ InsertInputReg
    \/ NewMapping

Spec == Init /\ [][Next]_vars

Started == DeviceMemory # NoMemory

-----------------------------------------------------------------------------
(* The lookups of the request handlers.                                    *)

\* Mutation of Found: the loop over the window stops one short.
FoundShort(table, address, count) ==
    LET found[k \in Nat] ==
          IF k = 0 THEN <<>>
          ELSE IF address + k - 1 \in DOMAIN table /\ k < count
               THEN Append(found[k - 1], address + k - 1) ELSE found[k - 1]
    IN  found[count]

\* The addressed registers at which an item begins, in the order of the loop.
Found(table, address, count) ==
    LET found[k \in Nat] ==
          IF k = 0 THEN <<>>
          ELSE IF address + k - 1 \in DOMAIN table
               THEN Append(found[k - 1], address + k - 1) ELSE found[k - 1]
    IN  found[count]

\* The handlers of registers require an item at the first address and collect
\* those whose first register is among the addressed ones.
RegisterIds(table, address, count) ==
    LET found == Found(table, address, count)
    IN  [n \in DOMAIN found |-> table[found[n]]]

\* The bytes of the first n of some items.
Bytes(ids, n) ==
    LET sum[k \in Nat] == IF k = 0 THEN 0 ELSE sum[k - 1] + size(ids[k])
    IN  sum[n]

\* Mutation of ReadOffset: every item takes two bytes.
ReadOffsetByTwo(ids, n) == 2 * (n - 1)

\* Where ReadBytesFromModbus puts the n-th item: an item of one byte takes two.
ReadOffset(ids, n) ==
    LET pos[k \in Nat] ==
          IF k <= 1 THEN 0
          ELSE pos[k - 1] + (IF size(ids[k - 1]) = 1 THEN 2 ELSE size(ids[k - 1]))
    IN  pos[n]

\* Where WriteBytesFromModbus takes it from: the bytes before it.
WriteOffset(ids, n) == Bytes(ids, n - 1)

\* Mutation of Accepted: the sizes are not compared.
AcceptedUnsized(table, address, count) == address \in DOMAIN table

\* A window of registers the handlers and the size checks let through.
Accepted(table, address, count) ==
    /\ address \in DOMAIN table
    /\ LET ids == RegisterIds(table, address, count)
       IN  Bytes(ids, Len(ids)) = 2 * count

-----------------------------------------------------------------------------
(* Properties.                                                             *)

\* Every variable has its type.
TypeOK ==
    /\ config \in Configs
    /\ ResourceId \in 0 .. Len(config)
    /\ Coils \in Seq(Items)
    /\ InputContacts \in Seq(Items \cup {SIEMENS_STATUS})
    /\ DOMAIN HoldingRegs \subseteq Nat
    /\ \A a \in DOMAIN HoldingRegs : HoldingRegs[a] \in Items
    /\ DOMAIN InputRegs \subseteq Nat
    /\ \A a \in DOMAIN InputRegs : InputRegs[a] \in Items
    /\ CurrentHoldingAddress \in Nat /\ CurrentInpuutRegsAddress \in Nat
    /\ \A f \in DOMAIN NoMemory : DeviceMemory[f] \in Nat \cup {-1}

\* Two items of a table never share a register, also when an insert was ignored
\* because its address was taken.
RegistersDisjoint(table) ==
    \A a, b \in DOMAIN table : a < b => a + Registers(table[a]) <= b
NoSharedRegister ==
    RegistersDisjoint(HoldingRegs) /\ RegistersDisjoint(InputRegs)

\* The register image has room for every item a handler can copy into it.
FitsMemory ==
    Started =>
      /\ \A a \in DOMAIN HoldingRegs :
           a + Registers(HoldingRegs[a]) <= DeviceMemory.registers
      /\ \A a \in DOMAIN InputRegs :
           a + Registers(InputRegs[a]) <= DeviceMemory.input_registers
      /\ Len(Coils) = DeviceMemory.bits
      /\ Len(InputContacts) = DeviceMemory.input_bits

\* No item has two addresses in a table, so that no request names it twice.
OneAddress ==
    /\ \A m, n \in DOMAIN Coils : Coils[m] = Coils[n] => m = n
    /\ \A m, n \in DOMAIN InputContacts :
         InputContacts[m] = InputContacts[n] => m = n
    /\ \A a, b \in DOMAIN HoldingRegs : HoldingRegs[a] = HoldingRegs[b] => a = b
    /\ \A a, b \in DOMAIN InputRegs : InputRegs[a] = InputRegs[b] => a = b

\* The function code decides access: what the codes that write can address is
\* an item with write access, and the tables that are only read hold the rest.
\* Bits and words do not mix.
RightTable ==
    /\ \A n \in DOMAIN Coils :
         Item(Coils[n]).type = "BOOL" /\ Item(Coils[n]).access
    /\ \A n \in DOMAIN InputContacts :
         InputContacts[n] # SIEMENS_STATUS =>
           /\ Item(InputContacts[n]).type = "BOOL"
           /\ ~Item(InputContacts[n]).access
    /\ \A a \in DOMAIN HoldingRegs :
         Item(HoldingRegs[a]).type # "BOOL" /\ Item(HoldingRegs[a]).access
    /\ \A a \in DOMAIN InputRegs :
         Item(InputRegs[a]).type # "BOOL" /\ ~Item(InputRegs[a]).access

Windows(registers) == (0 .. registers) \X (1 .. registers + 1)

\* In a window each item's bytes lie at the item's own registers, in the answer of
\* a read and in the data of a write, and the last item is whole.
WindowAligned(table, address, count) ==
    LET ids == RegisterIds(table, address, count)
    IN  \A n \in DOMAIN ids : \A a \in DOMAIN table :
          table[a] = ids[n] =>
            /\ ReadOffset(ids, n) = 2 * (a - address)
            /\ WriteOffset(ids, n) = 2 * (a - address)
            /\ ReadOffset(ids, n) + size(ids[n]) <= 2 * count

NoByteRegisters == \A id \in Items : Item(id).type = "BOOL" \/ size(id) # 1

\* An accepted window of registers stays inside the image it is copied into,
\* although the handlers never compare the two; and it is aligned, as long as no
\* register item has one byte only.
WindowsFit(table, registers) ==
    \A w \in Windows(registers) :
      Accepted(table, w[1], w[2]) =>
        /\ w[1] + w[2] <= registers
        /\ NoByteRegisters => WindowAligned(table, w[1], w[2])
AcceptedWindowsFit ==
    Started =>
      /\ WindowsFit(HoldingRegs, DeviceMemory.registers)
      /\ WindowsFit(InputRegs, DeviceMemory.input_registers)

\* An item can be read: its bit has an address, or some window of registers
\* that holds it is accepted.
RegisterReadable(table, id, registers) ==
    \E w \in Windows(registers) :
      /\ Accepted(table, w[1], w[2])
      /\ LET ids == RegisterIds(table, w[1], w[2])
         IN  \E n \in DOMAIN ids : ids[n] = id
Readable(id) ==
    \/ \E n \in DOMAIN Coils : Coils[n] = id
    \/ \E n \in DOMAIN InputContacts : InputContacts[n] = id
    \/ RegisterReadable(HoldingRegs, id, DeviceMemory.registers)
    \/ RegisterReadable(InputRegs, id, DeviceMemory.input_registers)

\* Without items of one byte, the tables make every item readable.
EveryItemReadable == Started /\ NoByteRegisters => \A id \in Items : Readable(id)

=============================================================================
