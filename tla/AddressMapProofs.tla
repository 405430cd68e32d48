-------------------------- MODULE AddressMapProofs --------------------------
(***************************************************************************)
(* Proofs about AddressMap, for every set of configurations.               *)
(***************************************************************************)
EXTENDS AddressMap, DataItemsProofs

-----------------------------------------------------------------------------
(* The items.                                                              *)

\* An item takes a natural number of registers and has one kind.
LEMMA ItemType ==
    ASSUME config \in Configs, NEW id \in Items
    PROVE  /\ Registers(id) \in Nat
           /\ DetermineModbusRegType(Item(id)) \in
                {"S7COIL", "S7INCONT", "S7HOLDREG", "S7INPUTREG"}
<1>1. size(id) \in {1, 2, 4}
  BY DEF size, SizeOf
<1>2. QED
  BY <1>1 DEF Registers, DetermineModbusRegType

\* The item the loop has at hand is an item, and no earlier one.
LEMMA CurrentItemType ==
    ASSUME TypeOK, ResourceId < Len(config)
    PROVE  ResourceId \in Items /\ SIEMENS_STATUS \notin Items
<1>1. Len(config) \in Nat
  BY ConfigsAssumption DEF TypeOK
<1>2. QED
  BY <1>1 DEF TypeOK, Items, SIEMENS_STATUS

-----------------------------------------------------------------------------
(* The two maps of registers.                                              *)

\* What holds of a map while it is filled up to register `current' with items
\* of a kind whose ids are below `id': it is stated for both maps at once.
MapInv(table, current, id, kind) ==
    /\ DOMAIN table \subseteq Nat
    /\ \A a \in DOMAIN table :
         /\ table[a] \in Items /\ table[a] < id
         /\ DetermineModbusRegType(Item(table[a])) = kind
         /\ a + Registers(table[a]) <= current
    /\ RegistersDisjoint(table)
    /\ \A a, b \in DOMAIN table : table[a] = table[b] => a = b

\* Inserting the current item and advancing by its registers preserves it,
\* whether the insert is ignored or not.
LEMMA InsertPreserves ==
    ASSUME config \in Configs, NEW id \in Items, id \in Nat,
           NEW table, NEW current \in Nat, NEW kind,
           MapInv(table, current, id, kind),
           DetermineModbusRegType(Item(id)) = kind
    PROVE  MapInv(Insert(table, current, id), current + Registers(id), id + 1, kind)
<1> DEFINE new == Insert(table, current, id)
<1>1. Registers(id) \in Nat
  BY ItemType
<1>2. \A a \in DOMAIN table :
        /\ a \in Nat /\ table[a] \in Items /\ table[a] \in Int
        /\ Registers(table[a]) \in Nat
        /\ a + Registers(table[a]) <= current
        /\ table[a] < id
        /\ DetermineModbusRegType(Item(table[a])) = kind
  BY ItemType DEF MapInv, Items
<1>3. CASE current \in DOMAIN table
  <2>1. DOMAIN new = DOMAIN table /\ \A a \in DOMAIN table : new[a] = table[a]
    BY <1>3 DEF Insert
  <2>2. QED
    BY <1>1, <1>2, <2>1 DEF MapInv, RegistersDisjoint
<1>4. CASE current \notin DOMAIN table
  <2>1. DOMAIN new = DOMAIN table \cup {current}
        /\ new[current] = id /\ \A a \in DOMAIN table : new[a] = table[a]
    BY <1>4 DEF Insert
  <2>2. \A a \in DOMAIN table : a < current
    BY <1>2, <1>4
  <2>3. \A a \in DOMAIN new :
          /\ a \in Nat /\ new[a] \in Items /\ new[a] < id + 1
          /\ DetermineModbusRegType(Item(new[a])) = kind
          /\ a + Registers(new[a]) <= current + Registers(id)
    BY <1>1, <1>2, <2>1
  <2>4. RegistersDisjoint(new)
    <3>1. SUFFICES ASSUME NEW a \in DOMAIN new, NEW b \in DOMAIN new, a < b
                   PROVE  a + Registers(new[a]) <= b
      BY DEF RegistersDisjoint
    <3>2. a \in DOMAIN table
      BY <2>1, <2>2, <2>3, <3>1
    <3>3. QED
      BY <1>2, <2>1, <3>1, <3>2 DEF MapInv, RegistersDisjoint
  <2>5. \A a, b \in DOMAIN new : new[a] = new[b] => a = b
    BY <1>2, <2>1 DEF MapInv
  <2>6. QED
    BY <2>3, <2>4, <2>5 DEF MapInv
<1>5. QED
  BY <1>3, <1>4

\* Going on to the next item without an insert preserves it too.
LEMMA SkipPreserves ==
    ASSUME NEW id \in Nat, NEW table, NEW current, NEW kind,
           MapInv(table, current, id, kind)
    PROVE  MapInv(table, current, id + 1, kind)
<1>1. \A a \in DOMAIN table : table[a] \in Int /\ table[a] < id + 1
  BY DEF MapInv, Items
<1>2. QED
  BY <1>1 DEF MapInv

-----------------------------------------------------------------------------
(* The two sequences of bits.                                              *)

\* What holds of a sequence of ids below `id' of a kind; the pseudo item may be
\* at its head.
SeqInv(table, id, kind) ==
    /\ table \in Seq(Items \cup {SIEMENS_STATUS})
    /\ \A n \in DOMAIN table :
         \/ table[n] = SIEMENS_STATUS /\ n = 1
         \/ /\ table[n] \in Items /\ table[n] < id
            /\ DetermineModbusRegType(Item(table[n])) = kind
    /\ \A m, n \in DOMAIN table : table[m] = table[n] => m = n

\* Pushing the current item back preserves it.
LEMMA PushPreserves ==
    ASSUME NEW id \in Items, id \in Nat, SIEMENS_STATUS \notin Items,
           NEW table, NEW kind, SeqInv(table, id, kind),
           DetermineModbusRegType(Item(id)) = kind
    PROVE  SeqInv(Append(table, id), id + 1, kind)
<1>1. /\ table \in Seq(Items \cup {SIEMENS_STATUS})
      /\ Len(table) \in Nat /\ DOMAIN table = 1 .. Len(table)
  BY DEF SeqInv
<1> DEFINE new == Append(table, id)
<1>2. /\ new \in Seq(Items \cup {SIEMENS_STATUS})
      /\ DOMAIN new = 1 .. Len(table) + 1
      /\ new[Len(table) + 1] = id
      /\ \A n \in DOMAIN table : new[n] = table[n]
  BY <1>1
<1>3. \A n \in DOMAIN table :
        \/ table[n] = SIEMENS_STATUS /\ n = 1
        \/ /\ table[n] \in Items /\ table[n] \in Int /\ table[n] < id
           /\ DetermineModbusRegType(Item(table[n])) = kind
  BY DEF SeqInv, Items
<1>4. \A n \in DOMAIN table : table[n] # id
  BY <1>3
<1>5. \A m, n \in DOMAIN new : new[m] = new[n] => m = n
  BY <1>1, <1>2, <1>4 DEF SeqInv
<1>6. \A n \in DOMAIN new :
        \/ new[n] = SIEMENS_STATUS /\ n = 1
        \/ /\ new[n] \in Items /\ new[n] < id + 1
           /\ DetermineModbusRegType(Item(new[n])) = kind
  BY <1>1, <1>2, <1>3
<1>7. QED
  BY <1>2, <1>5, <1>6 DEF SeqInv

\* Going on without pushing preserves it.
LEMMA SkipSeqPreserves ==
    ASSUME NEW id \in Nat, NEW table, NEW kind, SeqInv(table, id, kind)
    PROVE  SeqInv(table, id + 1, kind)
<1>1. \A n \in DOMAIN table : table[n] \in Items => table[n] \in Int
  BY DEF Items
<1>2. QED
  BY <1>1 DEF SeqInv

-----------------------------------------------------------------------------
(* The invariant.                                                          *)

\* The tables after the first ResourceId items.
TablesInv ==
    /\ config \in Configs
    /\ ResourceId \in 0 .. Len(config)
    /\ CurrentHoldingAddress \in Nat /\ CurrentInpuutRegsAddress \in Nat
    /\ Coils \in Seq(Items)
    /\ SeqInv(Coils, ResourceId, "S7COIL")
    /\ SeqInv(InputContacts, ResourceId, "S7INCONT")
    /\ MapInv(HoldingRegs, CurrentHoldingAddress, ResourceId, "S7HOLDREG")
    /\ MapInv(InputRegs, CurrentInpuutRegsAddress, ResourceId, "S7INPUTREG")

\* The image has the sizes the complete tables ask for.
MemoryInv ==
    \/ DeviceMemory = NoMemory
    \/ /\ ResourceId = Len(config)
       /\ DeviceMemory = [bits            |-> Len(Coils),
                          input_bits      |-> Len(InputContacts),
                          registers       |-> CurrentHoldingAddress,
                          input_registers |-> CurrentInpuutRegsAddress]

\* Together they are inductive.
IndInv == TablesInv /\ MemoryInv

\* The empty tables satisfy it.
LEMMA InitIndInv == Init => IndInv
<1> SUFFICES ASSUME Init PROVE IndInv
  OBVIOUS
<1>1. Len(config) \in Nat
  BY ConfigsAssumption DEF Init
<1>2. SeqInv(<<>>, 0, "S7COIL") /\ SeqInv(<<SIEMENS_STATUS>>, 0, "S7INCONT")
  BY DEF SeqInv
<1>3. MapInv(<<>>, 0, 0, "S7HOLDREG") /\ MapInv(<<>>, 0, 0, "S7INPUTREG")
  BY DEF MapInv, RegistersDisjoint
<1>4. QED
  BY <1>1, <1>2, <1>3 DEF Init, IndInv, TablesInv, MemoryInv

\* A step of the loop leaves the items as they are and has a new one at hand.
LEMMA StepFacts ==
    ASSUME IndInv, NEW kind, NextResource(kind)
    PROVE  /\ ResourceId \in Items /\ SIEMENS_STATUS \notin Items
           /\ ResourceId \in Nat
           /\ DetermineModbusRegType(Item(ResourceId)) = kind
           /\ Registers(ResourceId) \in Nat
           /\ ResourceId' = ResourceId + 1 /\ ResourceId' \in 0 .. Len(config)
           /\ config' = config /\ config \in Configs
           /\ MemoryInv'
<1>1. Len(config) \in Nat
  BY ConfigsAssumption DEF IndInv, TablesInv
<1>2. ResourceId \in Items /\ SIEMENS_STATUS \notin Items
  BY <1>1 DEF NextResource, IndInv, TablesInv, Items, SIEMENS_STATUS
<1>3. Registers(ResourceId) \in Nat
  BY <1>2, ItemType DEF IndInv, TablesInv
<1>4. QED
  BY <1>1, <1>2, <1>3 DEF NextResource, IndInv, TablesInv, MemoryInv

\* With the same items, the new tables satisfy the invariant in the next state.
LEMMA TablesOfNextState ==
    ASSUME IndInv, NEW kind, NextResource(kind),
           Coils' \in Seq(Items),
           SeqInv(Coils', ResourceId + 1, "S7COIL"),
           SeqInv(InputContacts', ResourceId + 1, "S7INCONT"),
           CurrentHoldingAddress' \in Nat, CurrentInpuutRegsAddress' \in Nat,
           MapInv(HoldingRegs', CurrentHoldingAddress', ResourceId + 1, "S7HOLDREG"),
           MapInv(InputRegs', CurrentInpuutRegsAddress', ResourceId + 1, "S7INPUTREG")
    PROVE  IndInv'
<1>1. /\ ResourceId' = ResourceId + 1 /\ ResourceId' \in 0 .. Len(config)
      /\ config' = config /\ config \in Configs
      /\ MemoryInv'
  BY StepFacts
<1>2. Coils' \in Seq(Items') /\ SeqInv(Coils, ResourceId, "S7COIL")'
  BY <1>1 DEF SeqInv, Items, Item
<1>3. SeqInv(InputContacts, ResourceId, "S7INCONT")'
  BY <1>1 DEF SeqInv, Items, Item
<1>4. MapInv(HoldingRegs, CurrentHoldingAddress, ResourceId, "S7HOLDREG")'
  BY <1>1 DEF MapInv, RegistersDisjoint, Registers, size, Items, Item
<1>5. MapInv(InputRegs, CurrentInpuutRegsAddress, ResourceId, "S7INPUTREG")'
  BY <1>1 DEF MapInv, RegistersDisjoint, Registers, size, Items, Item
<1>6. QED
  BY <1>1, <1>2, <1>3, <1>4, <1>5 DEF IndInv, TablesInv

\* Every step of the loop, and the allocation, preserve the invariant.
LEMMA NextIndInv == IndInv /\ [Next]_vars => IndInv'
<1> SUFFICES ASSUME IndInv, [Next]_vars PROVE IndInv'
  OBVIOUS
<1>0. /\ ResourceId \in Nat /\ Coils \in Seq(Items) /\ config \in Configs
      /\ CurrentHoldingAddress \in Nat /\ CurrentInpuutRegsAddress \in Nat
      /\ SeqInv(Coils, ResourceId, "S7COIL")
      /\ SeqInv(InputContacts, ResourceId, "S7INCONT")
      /\ MapInv(HoldingRegs, CurrentHoldingAddress, ResourceId, "S7HOLDREG")
      /\ MapInv(InputRegs, CurrentInpuutRegsAddress, ResourceId, "S7INPUTREG")
  BY ConfigsAssumption DEF IndInv, TablesInv
<1>1. /\ SeqInv(Coils, ResourceId + 1, "S7COIL")
      /\ SeqInv(InputContacts, ResourceId + 1, "S7INCONT")
      /\ MapInv(HoldingRegs, CurrentHoldingAddress, ResourceId + 1, "S7HOLDREG")
      /\ MapInv(InputRegs, CurrentInpuutRegsAddress, ResourceId + 1, "S7INPUTREG")
  BY <1>0, SkipPreserves, SkipSeqPreserves
<1>2. CASE PushCoil
  <2>1. NextResource("S7COIL")
    BY <1>2 DEF PushCoil
  <2>2. SeqInv(Append(Coils, ResourceId), ResourceId + 1, "S7COIL")
    BY <1>0, <2>1, StepFacts, PushPreserves
  <2>3. Append(Coils, ResourceId) \in Seq(Items)
    BY <1>0, <2>1, StepFacts
  <2>4. QED
    BY <1>0, <1>1, <1>2, <2>1, <2>2, <2>3, TablesOfNextState DEF PushCoil
<1>3. CASE PushInputContact
  <2>1. NextResource("S7INCONT")
    BY <1>3 DEF PushInputContact
  <2>2. SeqInv(Append(InputContacts, ResourceId), ResourceId + 1, "S7INCONT")
    BY <1>0, <2>1, StepFacts, PushPreserves
  <2>3. QED
    BY <1>0, <1>1, <1>3, <2>1, <2>2, TablesOfNextState DEF PushInputContact
<1>4. CASE InsertHoldingReg
  <2>1. NextResource("S7HOLDREG")
    BY <1>4 DEF InsertHoldingReg
  <2>2. MapInv(Insert(HoldingRegs, CurrentHoldingAddress, ResourceId),
               CurrentHoldingAddress + Registers(ResourceId), ResourceId + 1,
               "S7HOLDREG")
    BY <1>0, <2>1, StepFacts, InsertPreserves
  <2>3. CurrentHoldingAddress + Registers(ResourceId) \in Nat
    BY <1>0, <2>1, StepFacts
  <2>4. QED
    BY <1>0, <1>1, <1>4, <2>1, <2>2, <2>3, TablesOfNextState DEF InsertHoldingReg
<1>5. CASE InsertInputReg
  <2>1. NextResource("S7INPUTREG")
    BY <1>5 DEF InsertInputReg
  <2>2. MapInv(Insert(InputRegs, CurrentInpuutRegsAddress, ResourceId),
               CurrentInpuutRegsAddress + Registers(ResourceId), ResourceId + 1,
               "S7INPUTREG")
    BY <1>0, <2>1, StepFacts, InsertPreserves
  <2>3. CurrentInpuutRegsAddress + Registers(ResourceId) \in Nat
    BY <1>0, <2>1, StepFacts
  <2>4. QED
    BY <1>0, <1>1, <1>5, <2>1, <2>2, <2>3, TablesOfNextState DEF InsertInputReg
<1>6. CASE NewMapping \/ UNCHANGED vars
  <2>1. /\ UNCHANGED <<config, ResourceId, Coils, InputContacts, HoldingRegs,
                       InputRegs, CurrentHoldingAddress, CurrentInpuutRegsAddress>>
        /\ MemoryInv'
    BY <1>6 DEF NewMapping, vars, IndInv, MemoryInv
  <2>2. Items' = Items
    BY <2>1 DEF Items
  <2>3. SeqInv(Coils, ResourceId, "S7COIL")' /\ SeqInv(InputContacts, ResourceId, "S7INCONT")'
    BY <1>0, <2>1 DEF SeqInv, Items, Item
  <2>4. MapInv(HoldingRegs, CurrentHoldingAddress, ResourceId, "S7HOLDREG")'
    BY <1>0, <2>1 DEF MapInv, RegistersDisjoint, Registers, size, Items, Item
  <2>5. MapInv(InputRegs, CurrentInpuutRegsAddress, ResourceId, "S7INPUTREG")'
    BY <1>0, <2>1 DEF MapInv, RegistersDisjoint, Registers, size, Items, Item
  <2>6. QED
    BY <1>0, <2>1, <2>2, <2>3, <2>4, <2>5 DEF IndInv, TablesInv
<1>7. QED
  BY <1>2, <1>3, <1>4, <1>5, <1>6 DEF Next

\* The invariant holds throughout.
LEMMA Inductive == Spec => []IndInv
BY InitIndInv, NextIndInv, PTL DEF Spec

-----------------------------------------------------------------------------
(* The theorems.                                                           *)

\* Every variable has its type, for every configuration.
THEOREM TypeCorrect == Spec => []TypeOK
<1>1. IndInv => TypeOK
  <2> SUFFICES ASSUME IndInv PROVE TypeOK
    OBVIOUS
  <2>1. \A f \in DOMAIN NoMemory : DeviceMemory[f] \in Nat \cup {-1}
    <3>1. Len(Coils) \in Nat /\ Len(InputContacts) \in Nat
      BY DEF IndInv, TablesInv, SeqInv
    <3>2. QED
      BY <3>1 DEF IndInv, TablesInv, MemoryInv, NoMemory
  <2>2. QED
    BY <2>1 DEF IndInv, TablesInv, SeqInv, MapInv, TypeOK
<1>2. QED
  BY <1>1, Inductive, PTL

\* Two items of a table never share a register, whatever sizes follow each
\* other in the configuration.
THEOREM RegistersAreDisjoint == Spec => []NoSharedRegister
<1>1. IndInv => NoSharedRegister
  BY DEF IndInv, TablesInv, MapInv, NoSharedRegister
<1>2. QED
  BY <1>1, Inductive, PTL

\* The register image has room for every item that has an address.
THEOREM ImageIsLargeEnough == Spec => []FitsMemory
<1>1. IndInv => FitsMemory
  BY DEF IndInv, TablesInv, MapInv, MemoryInv, FitsMemory, Started
<1>2. QED
  BY <1>1, Inductive, PTL

\* No item has two addresses: the ids of a request are distinct, which is what
\* SiemensPLC assumes of its requests.
THEOREM AddressesAreUnique == Spec => []OneAddress
<1>1. IndInv => OneAddress
  BY DEF IndInv, TablesInv, SeqInv, MapInv, OneAddress
<1>2. QED
  BY <1>1, Inductive, PTL

\* A table holds items of its kind only: a request that writes reaches items
\* with write access.
THEOREM TablesSeparateAccess == Spec => []RightTable
<1>1. IndInv => RightTable
  <2> SUFFICES ASSUME IndInv PROVE RightTable
    OBVIOUS
  <2>1. SIEMENS_STATUS \notin Items
    BY DEF Items, SIEMENS_STATUS
  <2>2. Coils \in Seq(Items) /\ \A n \in DOMAIN Coils : Coils[n] \in Items
    BY DEF IndInv, TablesInv
  <2>3. QED
    BY <2>1, <2>2 DEF IndInv, TablesInv, SeqInv, MapInv, RightTable,
                      DetermineModbusRegType
<1>2. QED
  BY <1>1, Inductive, PTL

-----------------------------------------------------------------------------
(* What the tables leave out: nothing, unless an item has one byte.        *)

\* Every item of a kind below `id' is in a sequence.
Listed(table, id, kind) ==
    \A i \in Items : i < id /\ DetermineModbusRegType(Item(i)) = kind =>
      \E n \in DOMAIN table : table[n] = i

\* A map of registers has no gaps, and no insert into it has been ignored.
Packed(table, current, id, kind) ==
    /\ 0 \in DOMAIN table \cup {current}
    /\ current \notin DOMAIN table
    /\ \A a \in DOMAIN table : a + Registers(table[a]) \in DOMAIN table \cup {current}
    /\ Listed(table, id, kind)

CompleteInv ==
    /\ Listed(Coils, ResourceId, "S7COIL")
    /\ Listed(InputContacts, ResourceId, "S7INCONT")
    /\ NoByteRegisters =>
         /\ Packed(HoldingRegs, CurrentHoldingAddress, ResourceId, "S7HOLDREG")
         /\ Packed(InputRegs, CurrentInpuutRegsAddress, ResourceId, "S7INPUTREG")

\* Inserting an item that takes registers leaves no gap, and lists it.
LEMMA InsertPacks ==
    ASSUME config \in Configs, NEW id \in Items, id \in Nat,
           NEW table, NEW current \in Nat, NEW kind,
           MapInv(table, current, id, kind), Packed(table, current, id, kind),
           DetermineModbusRegType(Item(id)) = kind, Registers(id) # 0
    PROVE  Packed(Insert(table, current, id), current + Registers(id), id + 1, kind)
<1> DEFINE new == Insert(table, current, id)
           next == current + Registers(id)
<1>1. Registers(id) \in Nat \ {0} /\ next \in Nat /\ current < next
  BY ItemType
<1>2. /\ DOMAIN new = DOMAIN table \cup {current}
      /\ new[current] = id /\ \A a \in DOMAIN table : new[a] = table[a]
  BY DEF Insert, Packed
<1>3. \A a \in DOMAIN table : a \in Nat /\ a <= current
  <2> SUFFICES ASSUME NEW a \in DOMAIN table PROVE a \in Nat /\ a <= current
    OBVIOUS
  <2>1. /\ a \in Nat /\ Registers(table[a]) \in Nat
        /\ a + Registers(table[a]) <= current
    BY ItemType DEF MapInv
  <2> QED
    BY <2>1
<1>4. next \notin DOMAIN new
  BY <1>1, <1>2, <1>3
<1>5. \A a \in DOMAIN new : a + Registers(new[a]) \in DOMAIN new \cup {next}
  BY <1>2 DEF Packed
<1>6. Listed(new, id + 1, kind)
  <2> SUFFICES ASSUME NEW i \in Items, i < id + 1,
                      DetermineModbusRegType(Item(i)) = kind
               PROVE  \E a \in DOMAIN new : new[a] = i
    BY DEF Listed
  <2>1. i = id \/ i < id
    BY DEF Items
  <2> QED
    BY <1>2, <2>1 DEF Packed, Listed
<1> QED
  BY <1>2, <1>4, <1>5, <1>6 DEF Packed

\* Going on to the next item keeps a list complete if the item is of another kind.
LEMMA SkipLists ==
    ASSUME NEW id \in Nat, NEW table, NEW kind, Listed(table, id, kind),
           DetermineModbusRegType(Item(id)) # kind
    PROVE  Listed(table, id + 1, kind)
<1>1. \A i \in Items : i < id + 1 => i = id \/ i < id
  BY DEF Items
<1> QED
  BY <1>1 DEF Listed

LEMMA PushLists ==
    ASSUME NEW id \in Nat, NEW table, NEW S, table \in Seq(S), NEW kind,
           Listed(table, id, kind)
    PROVE  Listed(Append(table, id), id + 1, kind)
<1> DEFINE new == Append(table, id)
<1>1. /\ DOMAIN new = 1 .. Len(table) + 1 /\ DOMAIN table = 1 .. Len(table)
      /\ Len(table) \in Nat
      /\ new[Len(table) + 1] = id /\ \A n \in DOMAIN table : new[n] = table[n]
  OBVIOUS
<1>2. \A i \in Items : i < id + 1 => i = id \/ i < id
  BY DEF Items
<1>3. Len(table) + 1 \in DOMAIN new /\ DOMAIN table \subseteq DOMAIN new
  BY <1>1
<1> QED
  BY <1>1, <1>2, <1>3 DEF Listed

\* The empty tables list the items before the first one.
LEMMA InitComplete == Init => CompleteInv
<1> SUFFICES ASSUME Init PROVE CompleteInv
  OBVIOUS
<1>1. \A i \in Items : ~(i < 0)
  BY DEF Items
<1>2. \A table, kind : Listed(table, 0, kind)
  BY <1>1 DEF Listed
<1> QED
  BY <1>2 DEF Init, CompleteInv, Packed

\* With the same items, the new tables are complete in the next state.
LEMMA CompleteOfNextState ==
    ASSUME NEW kind, NextResource(kind),
           Listed(Coils', ResourceId + 1, "S7COIL"),
           Listed(InputContacts', ResourceId + 1, "S7INCONT"),
           NoByteRegisters =>
             /\ Packed(HoldingRegs', CurrentHoldingAddress', ResourceId + 1, "S7HOLDREG")
             /\ Packed(InputRegs', CurrentInpuutRegsAddress', ResourceId + 1, "S7INPUTREG")
    PROVE  CompleteInv'
<1>1. ResourceId' = ResourceId + 1 /\ config' = config
  BY DEF NextResource
<1>2. Listed(Coils, ResourceId, "S7COIL")' /\ Listed(InputContacts, ResourceId, "S7INCONT")'
  BY <1>1 DEF Listed, Items, Item
<1>3. NoByteRegisters' = NoByteRegisters
  BY <1>1 DEF NoByteRegisters, Items, Item, size
<1>4. ASSUME NoByteRegisters
      PROVE  Packed(HoldingRegs, CurrentHoldingAddress, ResourceId, "S7HOLDREG")'
  BY <1>1, <1>4 DEF Packed, Listed, Items, Item, Registers, size
<1>5. ASSUME NoByteRegisters
      PROVE  Packed(InputRegs, CurrentInpuutRegsAddress, ResourceId, "S7INPUTREG")'
  BY <1>1, <1>5 DEF Packed, Listed, Items, Item, Registers, size
<1> QED
  BY <1>2, <1>3, <1>4, <1>5 DEF CompleteInv

\* Every step of the loop, and the allocation, keep them complete.
LEMMA NextComplete == IndInv /\ CompleteInv /\ [Next]_vars => CompleteInv'
<1> SUFFICES ASSUME IndInv, CompleteInv, [Next]_vars PROVE CompleteInv'
  OBVIOUS
<1>1. /\ config \in Configs
      /\ CurrentHoldingAddress \in Nat /\ CurrentInpuutRegsAddress \in Nat
      /\ Coils \in Seq(Items) /\ InputContacts \in Seq(Items \cup {SIEMENS_STATUS})
      /\ MapInv(HoldingRegs, CurrentHoldingAddress, ResourceId, "S7HOLDREG")
      /\ MapInv(InputRegs, CurrentInpuutRegsAddress, ResourceId, "S7INPUTREG")
  BY DEF IndInv, TablesInv, SeqInv
<1>2. ASSUME NEW kind, NextResource(kind)
      PROVE  /\ ResourceId \in Nat /\ ResourceId \in Items
             /\ DetermineModbusRegType(Item(ResourceId)) = kind
             /\ kind # "S7COIL" => Listed(Coils, ResourceId + 1, "S7COIL")
             /\ kind # "S7INCONT" => Listed(InputContacts, ResourceId + 1, "S7INCONT")
             /\ NoByteRegisters /\ kind # "S7HOLDREG" =>
                  Packed(HoldingRegs, CurrentHoldingAddress, ResourceId + 1, "S7HOLDREG")
             /\ NoByteRegisters /\ kind # "S7INPUTREG" =>
                  Packed(InputRegs, CurrentInpuutRegsAddress, ResourceId + 1, "S7INPUTREG")
  <2>1. /\ ResourceId \in Nat /\ ResourceId \in Items
        /\ DetermineModbusRegType(Item(ResourceId)) = kind
    BY <1>2, StepFacts
  <2> QED
    BY <2>1, SkipLists DEF CompleteInv, Packed
<1>3. ASSUME NoByteRegisters, NextResource("S7HOLDREG") \/ NextResource("S7INPUTREG")
      PROVE  Registers(ResourceId) # 0
  <2>1. /\ ResourceId \in Items
        /\ DetermineModbusRegType(Item(ResourceId)) \in {"S7HOLDREG", "S7INPUTREG"}
    BY <1>3, StepFacts
  <2>2. Item(ResourceId).type # "BOOL"
    BY <2>1 DEF DetermineModbusRegType
  <2>3. size(ResourceId) \in {2, 4}
    BY <1>3, <2>1, <2>2 DEF NoByteRegisters, size, SizeOf
  <2> QED
    BY <2>3 DEF Registers
<1>4. CASE PushCoil
  <2>1. NextResource("S7COIL")
    BY <1>4 DEF PushCoil
  <2>2. Listed(Append(Coils, ResourceId), ResourceId + 1, "S7COIL")
    BY <1>1, <1>2, <2>1, PushLists DEF CompleteInv
  <2> QED
    BY <1>2, <1>4, <2>1, <2>2, CompleteOfNextState DEF PushCoil
<1>5. CASE PushInputContact
  <2>1. NextResource("S7INCONT")
    BY <1>5 DEF PushInputContact
  <2>2. Listed(Append(InputContacts, ResourceId), ResourceId + 1, "S7INCONT")
    BY <1>1, <1>2, <2>1, PushLists DEF CompleteInv
  <2> QED
    BY <1>2, <1>5, <2>1, <2>2, CompleteOfNextState DEF PushInputContact
<1>6. CASE InsertHoldingReg
  <2>1. NextResource("S7HOLDREG")
    BY <1>6 DEF InsertHoldingReg
  <2>2. NoByteRegisters =>
          Packed(Insert(HoldingRegs, CurrentHoldingAddress, ResourceId),
                 CurrentHoldingAddress + Registers(ResourceId), ResourceId + 1,
                 "S7HOLDREG")
    BY <1>1, <1>2, <1>3, <2>1, InsertPacks DEF CompleteInv
  <2> QED
    BY <1>2, <1>6, <2>1, <2>2, CompleteOfNextState DEF InsertHoldingReg
<1>7. CASE InsertInputReg
  <2>1. NextResource("S7INPUTREG")
    BY <1>7 DEF InsertInputReg
  <2>2. NoByteRegisters =>
          Packed(Insert(InputRegs, CurrentInpuutRegsAddress, ResourceId),
                 CurrentInpuutRegsAddress + Registers(ResourceId), ResourceId + 1,
                 "S7INPUTREG")
    BY <1>1, <1>2, <1>3, <2>1, InsertPacks DEF CompleteInv
  <2> QED
    BY <1>2, <1>7, <2>1, <2>2, CompleteOfNextState DEF InsertInputReg
<1>8. CASE NewMapping \/ UNCHANGED vars
  <2>1. UNCHANGED <<config, ResourceId, Coils, InputContacts, HoldingRegs,
                    InputRegs, CurrentHoldingAddress, CurrentInpuutRegsAddress>>
    BY <1>8 DEF NewMapping, vars
  <2> QED
    BY <2>1 DEF CompleteInv, Packed, Listed, NoByteRegisters, Items, Item,
                Registers, size
<1> QED
  BY <1>4, <1>5, <1>6, <1>7, <1>8 DEF Next

\* So the tables list every item they should, in every reachable state.
LEMMA Complete == Spec => [](IndInv /\ CompleteInv)
BY InitIndInv, NextIndInv, InitComplete, NextComplete, PTL DEF Spec

-----------------------------------------------------------------------------
(* What the lookups of the handlers compute.  Each is a loop, so the lemmas *)
(* are inductions over the number of its rounds.                           *)

\* The loop over a window, round by round.
LEMMA FoundRounds ==
    ASSUME NEW table, NEW address \in Nat
    PROVE  /\ Found(table, address, 0) = <<>>
           /\ \A k \in Nat :
                /\ Found(table, address, k) \in Seq(Nat)
                /\ Found(table, address, k + 1) =
                     IF address + k \in DOMAIN table
                     THEN Append(Found(table, address, k), address + k)
                     ELSE Found(table, address, k)
<1> DEFINE step == [k \in Nat |-> [f \in Seq(Nat) |->
                      IF k > 0 /\ address + k - 1 \in DOMAIN table
                      THEN Append(f, address + k - 1) ELSE f]]
           Rounds(g) == g = [k \in Nat |->
                          IF k = 0 THEN <<>>
                          ELSE IF address + k - 1 \in DOMAIN table
                               THEN Append(g[k - 1], address + k - 1) ELSE g[k - 1]]
<1>1. step \in [Nat -> [Seq(Nat) -> Seq(Nat)]]
  <2> SUFFICES ASSUME NEW k \in Nat, NEW f \in Seq(Nat)
               PROVE  (IF k > 0 /\ address + k - 1 \in DOMAIN table
                       THEN Append(f, address + k - 1) ELSE f) \in Seq(Nat)
    OBVIOUS
  <2>1. k > 0 => address + k - 1 \in Nat
    OBVIOUS
  <2> QED
    BY <2>1
<1>2. PICK f : Recurs(f, Seq(Nat), <<>>, step)
  <2> HIDE DEF step
  <2>1. <<>> \in Seq(Nat)
    OBVIOUS
  <2> QED
    BY <1>1, <2>1, PrimitiveRecursion
<1>3. \A k \in Nat \ {0} :
        f[k] = IF address + k - 1 \in DOMAIN table
               THEN Append(f[k - 1], address + k - 1) ELSE f[k - 1]
  <2> SUFFICES ASSUME NEW k \in Nat \ {0}
               PROVE  f[k] = IF address + k - 1 \in DOMAIN table
                             THEN Append(f[k - 1], address + k - 1) ELSE f[k - 1]
    OBVIOUS
  <2>1. k - 1 \in Nat /\ k > 0
    OBVIOUS
  <2> HIDE DEF step
  <2>2. f[k - 1] \in Seq(Nat)
    BY <1>2, <2>1 DEF Recurs
  <2>3. f[k] = step[k][f[k - 1]]
    BY <1>2 DEF Recurs
  <2> USE DEF step
  <2> QED
    BY <2>1, <2>2, <2>3
<1>4. Rounds(f)
  <2>1. f = [k \in Nat |-> f[k]] /\ f[0] = <<>>
    <3> HIDE DEF step
    <3> QED
      BY <1>2 DEF Recurs
  <2> QED
    BY <1>3, <2>1
<1>5. PICK g : Rounds(g) /\ \A k \in Nat : Found(table, address, k) = g[k]
  <2> DEFINE g == CHOOSE g : Rounds(g)
  <2>1. Rounds(g)
    BY <1>4
  <2>2. \A k \in Nat : Found(table, address, k) = g[k]
    BY DEF Found
  <2> QED
    BY <2>1, <2>2
<1>6. g[0] = <<>>
  BY <1>5
<1>7. \A k \in Nat : g[k + 1] = IF address + k \in DOMAIN table
                                THEN Append(g[k], address + k) ELSE g[k]
  <2> SUFFICES ASSUME NEW k \in Nat
               PROVE  g[k + 1] = IF address + k \in DOMAIN table
                                 THEN Append(g[k], address + k) ELSE g[k]
    OBVIOUS
  <2>1. PICK j \in Nat : j = k + 1
    OBVIOUS
  <2>2. PICK a \in Nat : a = address + k
    OBVIOUS
  <2>3. j # 0 /\ j - 1 = k /\ address + j - 1 = a
    BY <2>1, <2>2
  <2>4. g[j] = IF address + j - 1 \in DOMAIN table
               THEN Append(g[j - 1], address + j - 1) ELSE g[j - 1]
    BY <1>5, <2>3
  <2>5. g[j] = IF a \in DOMAIN table THEN Append(g[k], a) ELSE g[k]
    BY <2>3, <2>4, Zenon
  <2> QED
    BY <2>1, <2>2, <2>5, Zenon
<1>8. \A k \in Nat : g[k] \in Seq(Nat)
  <2> DEFINE T == {k \in Nat : g[k] \in Seq(Nat)}
  <2> HIDE DEF Rounds
  <2>1. 0 \in T
    <3>1. g[0] \in Seq(Nat)
      BY <1>6
    <3> QED
      BY <3>1
  <2>2. \A k \in Nat : k \in T => k + 1 \in T
    <3> SUFFICES ASSUME NEW k \in Nat, g[k] \in Seq(Nat)
                 PROVE  g[k + 1] \in Seq(Nat)
      OBVIOUS
    <3>1. PICK h \in Seq(Nat) : h = g[k]
      OBVIOUS
    <3>2. PICK a \in Nat : a = address + k
      OBVIOUS
    <3>3. Append(h, a) \in Seq(Nat)
      OBVIOUS
    <3>4. g[k + 1] = IF a \in DOMAIN table THEN Append(h, a) ELSE h
      BY <1>7, <3>1, <3>2
    <3> QED
      BY <3>3, <3>4
  <2>3. \A k \in Nat : k \in T
    <3> HIDE DEF T
    <3> QED
      BY <2>1, <2>2, SetInduction
  <2> QED
    BY <2>3
<1>9. \A k \in Nat : Found(table, address, k) = g[k]
  BY <1>5
<1>10. \A k \in Nat : Found(table, address, k + 1) = g[k + 1]
  BY <1>9
<1> HIDE DEF Rounds
<1> QED
  BY <1>6, <1>7, <1>8, <1>9, <1>10

\* What the loop has found in a window: its items' addresses, in order.
InWindow(found, table, address, count) ==
    /\ found \in Seq(Nat)
    /\ \A i \in DOMAIN found :
         /\ found[i] \in DOMAIN table
         /\ address <= found[i] /\ found[i] < address + count
    /\ \A i, j \in DOMAIN found : i < j => found[i] < found[j]
    /\ \A a \in DOMAIN table :
         address <= a /\ a < address + count => \E i \in DOMAIN found : found[i] = a

LEMMA FoundInWindow ==
    ASSUME NEW table, DOMAIN table \subseteq Nat, NEW address \in Nat
    PROVE  \A count \in Nat :
             InWindow(Found(table, address, count), table, address, count)
<1> DEFINE F(k) == Found(table, address, k)
           T == {k \in Nat : InWindow(F(k), table, address, k)}
<1>1. 0 \in T
  BY FoundRounds DEF InWindow
<1>2. \A k \in Nat : k \in T => k + 1 \in T
  <2> SUFFICES ASSUME NEW k \in Nat, InWindow(F(k), table, address, k)
               PROVE  InWindow(F(k + 1), table, address, k + 1)
    OBVIOUS
  <2>1. PICK f \in Seq(Nat) : f = F(k)
    BY FoundRounds
  <2>2. PICK g : g = F(k + 1)
    OBVIOUS
  <2>3. g = IF address + k \in DOMAIN table THEN Append(f, address + k) ELSE f
    BY FoundRounds, <2>1, <2>2
  <2>4. InWindow(f, table, address, k)
    BY <2>1
  <2> HIDE DEF F
  <2>5. CASE address + k \in DOMAIN table
    <3>1. /\ g \in Seq(Nat) /\ DOMAIN g = 1 .. Len(f) + 1
          /\ DOMAIN f = 1 .. Len(f) /\ Len(f) \in Nat
          /\ g[Len(f) + 1] = address + k
          /\ \A i \in DOMAIN f : g[i] = f[i]
      BY <2>3, <2>5
    <3>2. \A i \in DOMAIN f : /\ f[i] \in Nat /\ f[i] \in DOMAIN table
                              /\ address <= f[i] /\ f[i] < address + k
      BY <2>4 DEF InWindow
    <3>3. \A i \in DOMAIN g : /\ g[i] \in DOMAIN table
                              /\ address <= g[i] /\ g[i] < address + (k + 1)
      BY <2>5, <3>1, <3>2
    <3>4. ASSUME NEW i \in DOMAIN g, NEW j \in DOMAIN g, i < j
          PROVE  g[i] < g[j]
      <4>1. /\ i \in DOMAIN f /\ g[i] = f[i]
            /\ j = Len(f) + 1 \/ (j \in DOMAIN f /\ g[j] = f[j])
        BY <3>1, <3>4
      <4>2. CASE j = Len(f) + 1
        BY <3>1, <3>2, <4>1, <4>2
      <4>3. CASE j \in DOMAIN f /\ g[j] = f[j]
        BY <2>4, <3>4, <4>1, <4>3 DEF InWindow
      <4> QED
        BY <4>1, <4>2, <4>3
    <3>5. ASSUME NEW a \in DOMAIN table, address <= a, a < address + (k + 1)
          PROVE  \E i \in DOMAIN g : g[i] = a
      <4>1. a \in Nat /\ (a = address + k \/ a < address + k)
        BY <3>5
      <4>2. CASE a = address + k
        <5>1. Len(f) + 1 \in DOMAIN g
          BY <3>1
        <5> QED
          BY <3>1, <4>2, <5>1
      <4>3. CASE a < address + k
        <5>1. PICK i \in DOMAIN f : f[i] = a
          BY <2>4, <3>5, <4>3 DEF InWindow
        <5>2. i \in DOMAIN g /\ g[i] = a
          BY <3>1, <5>1
        <5> QED
          BY <5>2
      <4> QED
        BY <4>1, <4>2, <4>3
    <3> QED
      BY <2>2, <3>1, <3>3, <3>4, <3>5 DEF InWindow
  <2>6. CASE address + k \notin DOMAIN table
    <3>1. g = f
      BY <2>3, <2>6
    <3>2. \A i \in DOMAIN f : f[i] \in Nat /\ f[i] < address + (k + 1)
      BY <2>4 DEF InWindow
    <3>3. \A a \in DOMAIN table : a < address + (k + 1) => a < address + k
      BY <2>6
    <3> QED
      BY <2>2, <2>4, <3>1, <3>2, <3>3 DEF InWindow
  <2> QED
    BY <2>5, <2>6
<1>3. \A k \in Nat : k \in T
  <2> HIDE DEF T
  <2> QED
    BY <1>1, <1>2, SetInduction
<1> QED
  BY <1>3

\* An item has at least one byte.
LEMMA SizeType == \A id : size(id) \in {1, 2, 4}
BY DEF size, SizeOf

\* The bytes of the first items, one item after the other.
LEMMA BytesRounds ==
    ASSUME NEW ids
    PROVE  /\ Bytes(ids, 0) = 0
           /\ \A k \in Nat : /\ Bytes(ids, k) \in Nat
                             /\ Bytes(ids, k + 1) = Bytes(ids, k) + size(ids[k + 1])
<1> DEFINE term == [k \in Nat |-> size(ids[k])]
           Rounds(g) == g = [k \in Nat |-> IF k = 0 THEN 0
                                           ELSE g[k - 1] + size(ids[k])]
<1>1. PICK f \in [Nat -> Nat] :
        f[0] = 0 /\ \A k \in Nat : f[k + 1] = f[k] + term[k + 1]
  <2>1. \A k \in Nat : term[k] \in Nat
    BY SizeType
  <2> HIDE DEF term
  <2> QED
    BY <2>1, SumExists
<1>2. \A k \in Nat \ {0} : f[k] = f[k - 1] + size(ids[k])
  <2> SUFFICES ASSUME NEW k \in Nat \ {0} PROVE f[k] = f[k - 1] + size(ids[k])
    OBVIOUS
  <2>1. PICK j \in Nat : k = j + 1 /\ j = k - 1
    <3>1. k - 1 \in Nat /\ k = (k - 1) + 1
      OBVIOUS
    <3> QED
      BY <3>1
  <2>2. f[j + 1] = f[j] + term[j + 1]
    BY <1>1
  <2>3. term[j + 1] = size(ids[j + 1])
    BY <2>1
  <2> QED
    BY <2>1, <2>2, <2>3
<1>3. Rounds(f)
  <2>1. f = [k \in Nat |-> f[k]]
    OBVIOUS
  <2> QED
    BY <1>1, <1>2
<1>4. PICK g : Rounds(g) /\ \A k \in Nat : Bytes(ids, k) = g[k]
  <2> DEFINE g == CHOOSE g : Rounds(g)
  <2>1. Rounds(g)
    BY <1>3
  <2>2. \A k \in Nat : Bytes(ids, k) = g[k]
    BY DEF Bytes
  <2> QED
    BY <2>1, <2>2
<1>5. g[0] = 0
  BY <1>4
<1>6. \A k \in Nat : g[k + 1] = g[k] + size(ids[k + 1])
  <2> SUFFICES ASSUME NEW k \in Nat PROVE g[k + 1] = g[k] + size(ids[k + 1])
    OBVIOUS
  <2>1. k + 1 \in Nat /\ k + 1 # 0 /\ k + 1 - 1 = k
    OBVIOUS
  <2> QED
    BY <1>4, <2>1
<1>7. \A k \in Nat : g[k] \in Nat
  <2> DEFINE T == {k \in Nat : g[k] \in Nat}
  <2> HIDE DEF Rounds
  <2>1. 0 \in T
    BY <1>5
  <2>2. \A k \in Nat : k \in T => k + 1 \in T
    <3> SUFFICES ASSUME NEW k \in Nat, g[k] \in Nat PROVE g[k + 1] \in Nat
      OBVIOUS
    <3>1. size(ids[k + 1]) \in {1, 2, 4} /\ g[k + 1] = g[k] + size(ids[k + 1])
      BY <1>6, SizeType
    <3> QED
      BY <3>1
  <2>3. \A k \in Nat : k \in T
    <3> HIDE DEF T
    <3> QED
      BY <2>1, <2>2, SetInduction
  <2> QED
    BY <2>3
<1> QED
  BY <1>4, <1>5, <1>6, <1>7

\* Where a read puts its items: as far apart as their bytes, but two at least.
LEMMA ReadOffsetRounds ==
    ASSUME NEW ids
    PROVE  /\ ReadOffset(ids, 1) = 0
           /\ \A k \in Nat \ {0} :
                /\ ReadOffset(ids, k) \in Nat
                /\ ReadOffset(ids, k + 1) =
                     ReadOffset(ids, k) + (IF size(ids[k]) = 1 THEN 2 ELSE size(ids[k]))
<1> DEFINE bytes == [k \in Nat |-> IF size(ids[k]) = 1 THEN 2 ELSE size(ids[k])]
           Rounds(g) == g = [k \in Nat |->
                               IF k <= 1 THEN 0
                               ELSE g[k - 1] + (IF size(ids[k - 1]) = 1 THEN 2
                                                ELSE size(ids[k - 1]))]
<1>1. \A k \in Nat : bytes[k] \in Nat
  BY SizeType
<1>2. ASSUME NEW g PROVE Rounds(g) <=> IsOffsets(g, bytes)
  <2>1. \A k \in Nat : k > 1 =>
          bytes[k - 1] = IF size(ids[k - 1]) = 1 THEN 2 ELSE size(ids[k - 1])
    OBVIOUS
  <2> HIDE DEF bytes
  <2>2. [k \in Nat |-> IF k <= 1 THEN 0 ELSE g[k - 1] + bytes[k - 1]]
        = [k \in Nat |-> IF k <= 1 THEN 0
                         ELSE g[k - 1] + (IF size(ids[k - 1]) = 1 THEN 2
                                          ELSE size(ids[k - 1]))]
    BY <2>1
  <2> QED
    BY <2>2 DEF IsOffsets
<1>3. PICK g : Rounds(g) /\ \A k \in Nat : ReadOffset(ids, k) = g[k]
  <2> DEFINE g == CHOOSE g : Rounds(g)
  <2>1. Rounds(g)
    <3> HIDE DEF bytes, Rounds
    <3> QED
      BY <1>1, <1>2, OffsetsExist
  <2>2. \A k \in Nat : ReadOffset(ids, k) = g[k]
    BY DEF ReadOffset
  <2> QED
    BY <2>1, <2>2
<1>4. IsOffsets(g, bytes)
  BY <1>2, <1>3
<1>5. /\ g[1] = 0
      /\ \A k \in Nat \ {0} : g[k] \in Nat /\ g[k + 1] = g[k] + bytes[k]
  <2> HIDE DEF bytes, Rounds
  <2> QED
    BY <1>1, <1>4, OffsetsRounds
<1> QED
  BY <1>3, <1>5

-----------------------------------------------------------------------------
(* The windows the handlers accept.                                        *)

\* The ids of a window are those of the addresses that were found.
OfWindow(found, ids, table, address, count, current, kind) ==
    /\ InWindow(found, table, address, count)
    /\ DOMAIN ids = 1 .. Len(found) /\ DOMAIN found = 1 .. Len(found)
    /\ Len(ids) = Len(found) /\ Len(found) \in Nat
    /\ \A n \in DOMAIN ids :
         /\ found[n] \in DOMAIN table /\ found[n] \in Nat
         /\ ids[n] = table[found[n]] /\ ids[n] \in Items
         /\ Registers(ids[n]) \in Nat
         /\ found[n] + Registers(ids[n]) <= current
         /\ DetermineModbusRegType(Item(ids[n])) = kind

LEMMA IdsOfWindow ==
    ASSUME config \in Configs, NEW table, NEW current, NEW id, NEW kind,
           MapInv(table, current, id, kind), NEW address \in Nat, NEW count \in Nat,
           NEW found, found = Found(table, address, count),
           NEW ids, ids = RegisterIds(table, address, count)
    PROVE  OfWindow(found, ids, table, address, count, current, kind)
<1>1. InWindow(found, table, address, count)
  BY FoundInWindow DEF MapInv
<1>2. DOMAIN found = 1 .. Len(found) /\ Len(found) \in Nat
  BY <1>1 DEF InWindow
<1>3. ids = [n \in DOMAIN found |-> table[found[n]]]
  BY DEF RegisterIds
<1>4. DOMAIN ids = 1 .. Len(found) /\ Len(ids) = Len(found)
  BY <1>2, <1>3
<1>5. ASSUME NEW n \in DOMAIN ids
      PROVE  /\ found[n] \in DOMAIN table /\ found[n] \in Nat
             /\ ids[n] = table[found[n]] /\ ids[n] \in Items
             /\ Registers(ids[n]) \in Nat
             /\ found[n] + Registers(ids[n]) <= current
             /\ DetermineModbusRegType(Item(ids[n])) = kind
  <2>1. found[n] \in DOMAIN table /\ ids[n] = table[found[n]]
    BY <1>1, <1>2, <1>3, <1>4 DEF InWindow
  <2>2. ids[n] \in Items /\ found[n] \in Nat
    BY <2>1 DEF MapInv
  <2> QED
    BY <2>1, <2>2, ItemType DEF MapInv
<1> QED
  BY <1>1, <1>2, <1>4, <1>5 DEF OfWindow

\* The items up to the n-th have at most the bytes of their registers, and a
\* last odd byte.
LEMMA BytesOfWindow ==
    ASSUME config \in Configs, NEW table, NEW current, NEW id, NEW kind,
           MapInv(table, current, id, kind), NEW address \in Nat, NEW count \in Nat,
           NEW found, found = Found(table, address, count),
           NEW ids, ids = RegisterIds(table, address, count)
    PROVE  \A n \in Nat : n + 1 \in DOMAIN ids =>
             Bytes(ids, n + 1) <= 2 * (found[n + 1] - address) + size(ids[n + 1])
<1> DEFINE Bounded(n) == n + 1 \in DOMAIN ids =>
             Bytes(ids, n + 1) <= 2 * (found[n + 1] - address) + size(ids[n + 1])
           T == {n \in Nat : Bounded(n)}
<1>a. OfWindow(found, ids, table, address, count, current, kind)
  BY IdsOfWindow
<1>0. /\ InWindow(found, table, address, count)
      /\ DOMAIN ids = 1 .. Len(found) /\ DOMAIN found = 1 .. Len(found)
      /\ Len(found) \in Nat
      /\ \A n \in DOMAIN ids :
           /\ found[n] \in DOMAIN table /\ found[n] \in Nat
           /\ ids[n] = table[found[n]]
  BY <1>a DEF OfWindow
<1>1. 0 \in T
  <2> SUFFICES ASSUME 0 + 1 \in DOMAIN ids
               PROVE  Bytes(ids, 0 + 1) <= 2 * (found[0 + 1] - address) + size(ids[0 + 1])
    OBVIOUS
  <2>1. address <= found[1] /\ found[1] \in Nat
    BY <1>0 DEF InWindow
  <2>2. Bytes(ids, 0 + 1) = 0 + size(ids[0 + 1]) /\ size(ids[0 + 1]) \in {1, 2, 4}
    BY BytesRounds, SizeType
  <2> QED
    BY <2>1, <2>2
<1>2. \A n \in Nat : n \in T => n + 1 \in T
  <2> SUFFICES ASSUME NEW n \in Nat, Bounded(n), n + 1 + 1 \in DOMAIN ids
               PROVE  Bytes(ids, n + 1 + 1)
                        <= 2 * (found[n + 1 + 1] - address) + size(ids[n + 1 + 1])
    OBVIOUS
  <2>1. PICK m \in Nat : m = n + 1
    OBVIOUS
  <2>2. m \in DOMAIN ids /\ m + 1 \in DOMAIN ids /\ m < m + 1
    BY <1>0, <2>1
  <2>3. Bytes(ids, m) <= 2 * (found[m] - address) + size(ids[m])
    BY <2>1, <2>2
  <2>4. Bytes(ids, m + 1) = Bytes(ids, m) + size(ids[m + 1]) /\ Bytes(ids, m) \in Nat
    BY BytesRounds
  <2>5. /\ found[m] \in Nat /\ found[m + 1] \in Nat /\ found[m] < found[m + 1]
        /\ found[m] \in DOMAIN table /\ found[m + 1] \in DOMAIN table
        /\ ids[m] = table[found[m]]
    BY <1>0, <2>2 DEF InWindow
  <2>6. found[m] + Registers(ids[m]) <= found[m + 1]
    BY <2>5 DEF MapInv, RegistersDisjoint
  <2>7. size(ids[m]) \in {1, 2, 4} /\ size(ids[m + 1]) \in {1, 2, 4}
    BY SizeType
  <2>8. size(ids[m]) <= 2 * (found[m + 1] - found[m])
    BY <2>5, <2>6, <2>7 DEF Registers
  <2>9. Bytes(ids, m + 1) <= 2 * (found[m + 1] - address) + size(ids[m + 1])
    BY <2>3, <2>4, <2>5, <2>7, <2>8
  <2> QED
    BY <2>1, <2>9
<1>3. \A n \in Nat : n \in T
  <2> HIDE DEF T
  <2> QED
    BY <1>1, <1>2, SetInduction
<1> QED
  BY <1>3

\* The first item of an accepted window is the one at its address.
LEMMA FirstOfWindow ==
    ASSUME NEW found, NEW table, NEW address \in Nat, NEW count \in Nat \ {0},
           InWindow(found, table, address, count), address \in DOMAIN table
    PROVE  Len(found) \in Nat \ {0} /\ found[1] = address
<1>1. PICK i \in DOMAIN found : found[i] = address
  <2>1. address <= address /\ address < address + count
    OBVIOUS
  <2> QED
    BY <2>1 DEF InWindow
<1>2. DOMAIN found = 1 .. Len(found) /\ Len(found) \in Nat
  BY DEF InWindow
<1>3. 1 \in DOMAIN found /\ found[1] \in Nat /\ found[1] >= address
  BY <1>1, <1>2 DEF InWindow
<1>4. i = 1 \/ 1 < i
  BY <1>1, <1>2
<1>5. 1 < i => found[1] < found[i]
  BY <1>1, <1>3 DEF InWindow
<1> QED
  BY <1>1, <1>2, <1>3, <1>4, <1>5

\* An accepted window ends before the registers that are in use do, also when
\* items of one byte stand among the others.
LEMMA WindowFits ==
    ASSUME config \in Configs, NEW table, NEW current \in Nat, NEW id, NEW kind,
           MapInv(table, current, id, kind),
           NEW address \in Nat, NEW count \in Nat \ {0},
           Accepted(table, address, count)
    PROVE  address + count <= current
<1> DEFINE found == Found(table, address, count)
           ids == RegisterIds(table, address, count)
<1>a. OfWindow(found, ids, table, address, count, current, kind)
  BY IdsOfWindow
<1>1. /\ InWindow(found, table, address, count)
      /\ DOMAIN ids = 1 .. Len(found) /\ Len(ids) = Len(found)
      /\ \A n \in DOMAIN ids :
           /\ found[n] \in Nat /\ found[n] + Registers(ids[n]) <= current
  BY <1>a DEF OfWindow
<1>2. Len(found) \in Nat \ {0}
  BY <1>1, FirstOfWindow DEF Accepted
<1>3. PICK last \in Nat : last + 1 = Len(found)
  <2>1. Len(found) - 1 \in Nat /\ (Len(found) - 1) + 1 = Len(found)
    BY <1>2
  <2> QED
    BY <2>1
<1>4. last + 1 \in DOMAIN ids /\ last + 1 \in DOMAIN found
  BY <1>1, <1>3 DEF InWindow
<1>5. Bytes(ids, last + 1) <= 2 * (found[last + 1] - address) + size(ids[last + 1])
  BY <1>4, BytesOfWindow
<1>6. Bytes(ids, last + 1) = 2 * count
  BY <1>1, <1>3 DEF Accepted
<1>7. /\ found[last + 1] \in Nat /\ found[last + 1] < address + count
      /\ address <= found[last + 1]
      /\ found[last + 1] + Registers(ids[last + 1]) <= current
  BY <1>1, <1>4 DEF InWindow
<1> HIDE DEF found, ids
<1>8. size(ids[last + 1]) \in {1, 2, 4}
  BY SizeType
<1> QED
  BY <1>5, <1>6, <1>7, <1>8 DEF Registers

\* Without items of one byte, an item's registers hold its bytes.
LEMMA WordSizes ==
    ASSUME NoByteRegisters, NEW id \in Items,
           DetermineModbusRegType(Item(id)) \in {"S7HOLDREG", "S7INPUTREG"}
    PROVE  size(id) \in {2, 4} /\ size(id) = 2 * Registers(id)
           /\ Registers(id) \in Nat \ {0}
<1>1. Item(id).type # "BOOL"
  BY DEF DetermineModbusRegType
<1>2. size(id) \in {2, 4}
  BY <1>1, SizeType DEF NoByteRegisters
<1>3. CASE size(id) = 2
  BY <1>3 DEF Registers
<1>4. CASE size(id) = 4
  BY <1>4 DEF Registers
<1> QED
  BY <1>2, <1>3, <1>4

\* The items of a window then follow each other without a gap.
LEMMA WindowHasNoGaps ==
    ASSUME config \in Configs, NoByteRegisters,
           NEW table, NEW current \in Nat, NEW id, NEW kind,
           kind \in {"S7HOLDREG", "S7INPUTREG"},
           MapInv(table, current, id, kind), Packed(table, current, id, kind),
           NEW address \in Nat, NEW count \in Nat,
           NEW found, found = Found(table, address, count),
           NEW ids, ids = RegisterIds(table, address, count),
           NEW n \in Nat, n \in DOMAIN ids, n + 1 \in DOMAIN ids
    PROVE  found[n + 1] = found[n] + Registers(ids[n])
<1>a. OfWindow(found, ids, table, address, count, current, kind)
  BY IdsOfWindow
<1>1. /\ InWindow(found, table, address, count)
      /\ DOMAIN ids = 1 .. Len(found) /\ DOMAIN found = 1 .. Len(found)
      /\ Len(found) \in Nat
      /\ \A m \in DOMAIN ids :
           /\ found[m] \in DOMAIN table /\ found[m] \in Nat
           /\ ids[m] = table[found[m]] /\ ids[m] \in Items
           /\ Registers(ids[m]) \in Nat
           /\ found[m] + Registers(ids[m]) <= current
           /\ DetermineModbusRegType(Item(ids[m])) = kind
  BY <1>a DEF OfWindow
<1>2. Registers(ids[n]) \in Nat \ {0} /\ Registers(ids[n + 1]) \in Nat \ {0}
  BY <1>1, WordSizes
<1>3. found[n] < found[n + 1]
  <2>1. n < n + 1
    OBVIOUS
  <2> QED
    BY <1>1, <2>1 DEF InWindow
<1>4. found[n] + Registers(ids[n]) <= found[n + 1]
  BY <1>1, <1>3 DEF MapInv, RegistersDisjoint
<1>5. PICK next \in Nat : next = found[n] + Registers(ids[n])
  BY <1>1, <1>2
<1>6. next \in DOMAIN table
  <2>1. next \in DOMAIN table \cup {current}
    BY <1>1, <1>5 DEF Packed
  <2>2. next # current
    BY <1>1, <1>2, <1>4, <1>5
  <2> QED
    BY <2>1, <2>2
<1>7. address <= next /\ next < address + count
  <2>1. address <= found[n] /\ found[n + 1] < address + count
    BY <1>1 DEF InWindow
  <2> QED
    BY <1>1, <1>2, <1>4, <1>5, <2>1
<1>8. PICK m \in DOMAIN found : found[m] = next
  BY <1>1, <1>6, <1>7 DEF InWindow
<1>9. m > n
  <2>1. SUFFICES ASSUME m <= n PROVE FALSE
    BY <1>1
  <2>2. m = n \/ m < n
    BY <1>1, <2>1
  <2>3. m < n => found[m] < found[n]
    BY <1>1 DEF InWindow
  <2> QED
    BY <1>1, <1>2, <1>5, <1>8, <2>2, <2>3
<1>10. found[n + 1] <= next
  <2>1. m = n + 1 \/ n + 1 < m
    BY <1>1, <1>9
  <2>2. n + 1 < m => found[n + 1] < found[m]
    BY <1>1 DEF InWindow
  <2> QED
    BY <1>1, <1>8, <2>1, <2>2
<1> QED
  BY <1>1, <1>4, <1>5, <1>10

\* Item k + 1 of a window lies, in an answer and in a query, as far behind the
\* first one as its registers do.
PlacedAt(found, ids, address, k) ==
    /\ Bytes(ids, k) = 2 * (found[k + 1] - address)
    /\ ReadOffset(ids, k + 1) = 2 * (found[k + 1] - address)

LEMMA OffsetsOfWindow ==
    ASSUME config \in Configs, NoByteRegisters,
           NEW table, NEW current \in Nat, NEW id, NEW kind,
           kind \in {"S7HOLDREG", "S7INPUTREG"},
           MapInv(table, current, id, kind), Packed(table, current, id, kind),
           NEW address \in Nat, NEW count \in Nat, count # 0, address \in DOMAIN table,
           NEW found, found = Found(table, address, count),
           NEW ids, ids = RegisterIds(table, address, count),
           NEW k \in Nat, k + 1 \in DOMAIN ids
    PROVE  PlacedAt(found, ids, address, k)
<1> DEFINE Placed(n) == n + 1 \in DOMAIN ids => PlacedAt(found, ids, address, n)
           T == {n \in Nat : Placed(n)}
<1>a. OfWindow(found, ids, table, address, count, current, kind)
  BY IdsOfWindow
<1>1. /\ InWindow(found, table, address, count)
      /\ DOMAIN ids = 1 .. Len(found) /\ Len(found) \in Nat
      /\ \A n \in DOMAIN ids :
           /\ found[n] \in Nat /\ ids[n] \in Items
           /\ DetermineModbusRegType(Item(ids[n])) = kind
  BY <1>a DEF OfWindow
<1>2. found[1] = address
  BY <1>1, FirstOfWindow
<1>3. 0 \in T
  BY <1>2, BytesRounds, ReadOffsetRounds DEF PlacedAt
<1>4. \A n \in Nat : n \in T => n + 1 \in T
  <2> SUFFICES ASSUME NEW n \in Nat, Placed(n), n + 1 + 1 \in DOMAIN ids
               PROVE  PlacedAt(found, ids, address, n + 1)
    OBVIOUS
  <2>1. PICK m \in Nat \ {0} : m = n + 1
    OBVIOUS
  <2>2. m \in DOMAIN ids /\ m + 1 \in DOMAIN ids
    BY <1>1, <2>1
  <2>3. /\ Bytes(ids, n) = 2 * (found[m] - address)
        /\ ReadOffset(ids, m) = 2 * (found[m] - address)
    BY <2>1, <2>2 DEF PlacedAt
  <2>4. /\ size(ids[m]) \in {2, 4} /\ size(ids[m]) = 2 * Registers(ids[m])
        /\ Registers(ids[m]) \in Nat
    BY <1>1, <2>2, WordSizes
  <2>5. found[m + 1] = found[m] + Registers(ids[m])
    BY <2>2, WindowHasNoGaps
  <2>6. Bytes(ids, m) = Bytes(ids, n) + size(ids[m])
    BY <2>1, BytesRounds
  <2>7. ReadOffset(ids, m + 1) = ReadOffset(ids, m) + size(ids[m])
    BY <2>4, ReadOffsetRounds
  <2>8. found[m] \in Nat
    BY <1>1, <2>2
  <2>9. /\ Bytes(ids, m) = 2 * (found[m + 1] - address)
        /\ ReadOffset(ids, m + 1) = 2 * (found[m + 1] - address)
    BY <2>3, <2>4, <2>5, <2>6, <2>7, <2>8
  <2> QED
    BY <2>1, <2>9 DEF PlacedAt
<1>5. \A n \in Nat : n \in T
  <2> HIDE DEF T
  <2> QED
    BY <1>3, <1>4, SetInduction
<1> QED
  BY <1>5

\* An accepted window is aligned then: no item is read from or written to the
\* registers of another, and the last one is whole.
LEMMA WindowIsAligned ==
    ASSUME config \in Configs, NoByteRegisters,
           NEW table, NEW current \in Nat, NEW id, NEW kind,
           kind \in {"S7HOLDREG", "S7INPUTREG"},
           MapInv(table, current, id, kind), Packed(table, current, id, kind),
           NEW address \in Nat, NEW count \in Nat \ {0},
           Accepted(table, address, count)
    PROVE  WindowAligned(table, address, count)
<1>1. PICK found, ids : /\ found = Found(table, address, count)
                        /\ ids = RegisterIds(table, address, count)
  OBVIOUS
<1>a. OfWindow(found, ids, table, address, count, current, kind)
  BY <1>1, IdsOfWindow
<1>2. /\ InWindow(found, table, address, count)
      /\ DOMAIN ids = 1 .. Len(found) /\ Len(ids) = Len(found) /\ Len(found) \in Nat
      /\ \A n \in DOMAIN ids :
           /\ found[n] \in DOMAIN table /\ found[n] \in Nat
           /\ ids[n] = table[found[n]] /\ ids[n] \in Items
           /\ DetermineModbusRegType(Item(ids[n])) = kind
  BY <1>a DEF OfWindow
<1>3. address \in DOMAIN table /\ Bytes(ids, Len(ids)) = 2 * count
  BY <1>1 DEF Accepted
<1>5. ASSUME NEW k \in Nat, k + 1 \in DOMAIN ids
      PROVE  PlacedAt(found, ids, address, k)
  BY <1>1, <1>3, <1>5, OffsetsOfWindow
<1>4. ASSUME NEW n \in DOMAIN ids, NEW a \in DOMAIN table, table[a] = ids[n]
      PROVE  /\ ReadOffset(ids, n) = 2 * (a - address)
             /\ WriteOffset(ids, n) = 2 * (a - address)
             /\ ReadOffset(ids, n) + size(ids[n]) <= 2 * count
  <2>1. a = found[n]
    BY <1>2, <1>4 DEF MapInv
  <2>2. PICK m \in Nat : n = m + 1 /\ m = n - 1
    <3>1. n - 1 \in Nat /\ n = (n - 1) + 1
      BY <1>2
    <3> QED
      BY <3>1
  <2>3. /\ Bytes(ids, m) = 2 * (found[n] - address)
        /\ ReadOffset(ids, n) = 2 * (found[n] - address)
    BY <1>5, <2>2 DEF PlacedAt
  <2>4. WriteOffset(ids, n) = Bytes(ids, m)
    BY <2>2 DEF WriteOffset
  <2>5. ReadOffset(ids, n) + size(ids[n]) = Bytes(ids, n)
    BY <2>2, <2>3, BytesRounds
  <2>6. Bytes(ids, n) <= 2 * count
    <3>1. CASE n = Len(ids)
      <4>1. Bytes(ids, n) = 2 * count
        BY <1>3, <3>1
      <4> QED
        BY <4>1
    <3>2. CASE n # Len(ids)
      <4>1. n \in Nat /\ n + 1 \in DOMAIN ids
        BY <1>2, <3>2
      <4>2. Bytes(ids, n) = 2 * (found[n + 1] - address)
        BY <1>5, <4>1 DEF PlacedAt
      <4>3. found[n + 1] \in Nat /\ found[n + 1] < address + count
        BY <1>2, <4>1 DEF InWindow
      <4> QED
        BY <4>2, <4>3
    <3> QED
      BY <3>1, <3>2
  <2> QED
    BY <2>1, <2>3, <2>4, <2>5, <2>6
<1> QED
  BY <1>1, <1>4 DEF WindowAligned

\* An accepted window of registers stays inside the image and is aligned, for
\* every configuration and every address and count a master may send.
THEOREM WindowsAreSafe == Spec => []AcceptedWindowsFit
<1>1. ASSUME IndInv, CompleteInv PROVE AcceptedWindowsFit
  <2>1. /\ config \in Configs
        /\ CurrentHoldingAddress \in Nat /\ CurrentInpuutRegsAddress \in Nat
        /\ MapInv(HoldingRegs, CurrentHoldingAddress, ResourceId, "S7HOLDREG")
        /\ MapInv(InputRegs, CurrentInpuutRegsAddress, ResourceId, "S7INPUTREG")
    BY <1>1 DEF IndInv, TablesInv
  <2>2. Started => /\ DeviceMemory.registers = CurrentHoldingAddress
                   /\ DeviceMemory.input_registers = CurrentInpuutRegsAddress
    BY <1>1 DEF IndInv, MemoryInv, Started
  <2>3. ASSUME NEW registers \in Nat, NEW w \in Windows(registers)
        PROVE  w[1] \in Nat /\ w[2] \in Nat \ {0}
    BY DEF Windows
  <2>4. WindowsFit(HoldingRegs, CurrentHoldingAddress)
    BY <1>1, <2>1, <2>3, WindowFits, WindowIsAligned DEF WindowsFit, CompleteInv
  <2>5. WindowsFit(InputRegs, CurrentInpuutRegsAddress)
    BY <1>1, <2>1, <2>3, WindowFits, WindowIsAligned DEF WindowsFit, CompleteInv
  <2> QED
    BY <2>2, <2>4, <2>5 DEF AcceptedWindowsFit
<1> QED
  BY <1>1, Complete, PTL

-----------------------------------------------------------------------------
(* Every item has a window.                                                *)

\* The window of an item's own registers finds it, and is accepted.
LEMMA OwnWindow ==
    ASSUME config \in Configs, NoByteRegisters,
           NEW table, NEW current \in Nat, NEW id \in Nat, NEW kind,
           kind \in {"S7HOLDREG", "S7INPUTREG"},
           MapInv(table, current, id, kind), NEW a \in DOMAIN table
    PROVE  RegisterReadable(table, table[a], current)
<1>1. PICK count : count = Registers(table[a])
  OBVIOUS
<1>2. /\ a \in Nat /\ table[a] \in Items /\ a + count <= current
      /\ count \in Nat \ {0} /\ size(table[a]) = 2 * count
  BY <1>1, WordSizes DEF MapInv
<1>3. PICK found, ids : /\ found = Found(table, a, count)
                        /\ ids = RegisterIds(table, a, count)
  OBVIOUS
<1>a. OfWindow(found, ids, table, a, count, current, kind)
  BY <1>2, <1>3, IdsOfWindow
<1>4. /\ InWindow(found, table, a, count)
      /\ DOMAIN ids = 1 .. Len(found) /\ DOMAIN found = 1 .. Len(found)
      /\ Len(ids) = Len(found) /\ Len(found) \in Nat
      /\ \A n \in DOMAIN ids : /\ found[n] \in DOMAIN table /\ found[n] \in Nat
                               /\ ids[n] = table[found[n]]
  BY <1>a DEF OfWindow
<1>5. Len(found) \in Nat \ {0} /\ found[1] = a
  BY <1>2, <1>4, FirstOfWindow
<1>6. Len(found) = 1
  <2>1. ASSUME 2 \in DOMAIN found PROVE FALSE
    <3>1. 1 \in DOMAIN found /\ 1 < 2
      BY <1>4, <1>5
    <3>2. a < found[2] /\ found[2] < a + count /\ found[2] \in DOMAIN table
      BY <1>4, <1>5, <2>1, <3>1 DEF InWindow
    <3>3. found[2] \in Nat
      BY <3>2 DEF MapInv
    <3>4. a + count <= found[2]
      BY <1>1, <3>2 DEF MapInv, RegistersDisjoint
    <3> QED
      BY <1>2, <3>2, <3>3, <3>4
  <2>2. PICK l \in Nat \ {0} : l = Len(found)
    BY <1>5
  <2>3. ~(2 <= l)
    BY <1>4, <2>1, <2>2
  <2> QED
    BY <2>2, <2>3
<1>7. 1 \in DOMAIN ids /\ ids[1] = table[a] /\ Len(ids) = 1
  BY <1>4, <1>5, <1>6
<1>8. Bytes(ids, 1) = 2 * count
  <2>1. Bytes(ids, 0 + 1) = Bytes(ids, 0) + size(ids[0 + 1]) /\ Bytes(ids, 0) = 0
    BY BytesRounds
  <2> QED
    BY <1>2, <1>7, <2>1
<1>9. Accepted(table, a, count)
  BY <1>3, <1>7, <1>8 DEF Accepted
<1>10. PICK w \in Windows(current) : w[1] = a /\ w[2] = count
  <2>1. a \in 0 .. current /\ count \in 1 .. current + 1
    BY <1>2
  <2>2. <<a, count>> \in Windows(current)
    BY <2>1 DEF Windows
  <2> QED
    BY <2>2
<1> QED
  BY <1>3, <1>7, <1>9, <1>10 DEF RegisterReadable

\* Without items of one byte, a master can read every item of any configuration.
THEOREM EveryItemHasAWindow == Spec => []EveryItemReadable
<1>1. ASSUME IndInv, CompleteInv PROVE EveryItemReadable
  <2> SUFFICES ASSUME Started, NoByteRegisters, NEW id \in Items PROVE Readable(id)
    BY DEF EveryItemReadable
  <2>1. /\ config \in Configs /\ Len(config) \in Nat
        /\ CurrentHoldingAddress \in Nat /\ CurrentInpuutRegsAddress \in Nat
        /\ MapInv(HoldingRegs, CurrentHoldingAddress, ResourceId, "S7HOLDREG")
        /\ MapInv(InputRegs, CurrentInpuutRegsAddress, ResourceId, "S7INPUTREG")
    BY <1>1, ConfigsAssumption DEF IndInv, TablesInv
  <2>2. /\ ResourceId = Len(config) /\ ResourceId \in Nat
        /\ DeviceMemory.registers = CurrentHoldingAddress
        /\ DeviceMemory.input_registers = CurrentInpuutRegsAddress
    BY <1>1, <2>1 DEF IndInv, MemoryInv, Started
  <2>3. id < ResourceId
    BY <2>1, <2>2 DEF Items
  <2>4. CASE DetermineModbusRegType(Item(id)) = "S7COIL"
    BY <1>1, <2>3, <2>4 DEF CompleteInv, Listed, Readable
  <2>5. CASE DetermineModbusRegType(Item(id)) = "S7INCONT"
    BY <1>1, <2>3, <2>5 DEF CompleteInv, Listed, Readable
  <2>6. CASE DetermineModbusRegType(Item(id)) = "S7HOLDREG"
    <3>1. PICK a \in DOMAIN HoldingRegs : HoldingRegs[a] = id
      BY <1>1, <2>3, <2>6 DEF CompleteInv, Packed, Listed
    <3>2. RegisterReadable(HoldingRegs, HoldingRegs[a], CurrentHoldingAddress)
      BY <2>1, <2>2, OwnWindow
    <3> QED
      BY <2>2, <3>1, <3>2 DEF Readable
  <2>7. CASE DetermineModbusRegType(Item(id)) = "S7INPUTREG"
    <3>1. PICK a \in DOMAIN InputRegs : InputRegs[a] = id
      BY <1>1, <2>3, <2>7 DEF CompleteInv, Packed, Listed
    <3>2. RegisterReadable(InputRegs, InputRegs[a], CurrentInpuutRegsAddress)
      BY <2>1, <2>2, OwnWindow
    <3> QED
      BY <2>2, <3>1, <3>2 DEF Readable
  <2> QED
    BY <2>1, <2>4, <2>5, <2>6, <2>7, ItemType
<1> QED
  BY <1>1, Complete, PTL

=============================================================================
