--------------------------- MODULE GatewayProofs ---------------------------
(***************************************************************************)
(* Proofs about Gateway: its parts do in it what they do on their own, so  *)
(* that the theorems about them hold in it; the image has room for all the *)
(* items of the tables; and what the clients get: the replies made from it *)
(* and the writes that are confirmed.                                      *)
(***************************************************************************)
EXTENDS Gateway, DataItemsProofs

\* The queries that keep the protocol: only these reach items.
Kept == {q \in Queries : KeepsProtocol(q)}

\* Every call such a query would make is one of those the Siemens client is proved
\* correct for.
CallsAreRequests ==
    handler = "idle" =>
      \A q \in Kept :
        q.fc \in Reads \cup Writes /\ Addressed(q) => RequestOf(q) \in Requests

\* Steps that leave the Siemens side alone leave it alone as a whole.
LEMMA PLCUnchanged == UNCHANGED plcVars => UNCHANGED PLC!vars
  BY DEF plcVars, PLC!vars, PLC!sharedVars, PLC!itemVars, PLC!runVars,
     PLC!modVars, PLC!deviceVars, PLC!historyVars

\* A step of the gateway is one of the Siemens side, or none.
LEMMA PLCStep == CallsAreRequests /\ [Next]_vars => [PLC!Next]_(PLC!vars)
<1> SUFFICES ASSUME CallsAreRequests, [Next]_vars PROVE [PLC!Next]_(PLC!vars)
  OBVIOUS
<1>1. CASE Background
  BY <1>1 DEF Background, PLC!Next
<1>2. CASE CallStep
  BY <1>2 DEF CallStep, PLC!Next
<1>3. CASE BuildTables \/ StartServer \/ Respond \/ UNCHANGED vars
  BY <1>3, PLCUnchanged DEF BuildTables, StartServer, Respond, vars
<1>4. ASSUME NEW q \in Kept, ReceiveAddressed(q) PROVE PLC!Next
  <2>1. RequestOf(q) \in Requests /\ PLC!Call(RequestOf(q))
    BY <1>4 DEF ReceiveAddressed, CallsAreRequests
  <2>2. PLC!ModbusThread
    BY <2>1 DEF PLC!ModbusThread
  <2>3. QED
    BY <2>2 DEF PLC!Next
<1>5. ASSUME NEW q \in Queries, ReceiveOther(q) PROVE UNCHANGED PLC!vars
  BY <1>5, PLCUnchanged DEF ReceiveOther
<1>6. QED
  BY <1>1, <1>2, <1>3, <1>4, <1>5 DEF Next, Kept

\* The Siemens side does in the gateway what it does on its own, whatever clients
\* that keep the protocol ask for and however the tables come out, if the calls this
\* leads to are among Requests: the theorems of SiemensPLCProofs and ProcessImageProofs hold
\* in it (ModbusServer.cpp:127-524, PLC.cpp).
THEOREM HandlersImplementPLC == Spec /\ []CallsAreRequests => ImplementsPLC
<1>1. Init => PLC!Init
  BY DEF Init
<1>2. QED
  BY <1>1, PLCStep, PTL DEF Spec, ImplementsPLC, PLC!Spec

-----------------------------------------------------------------------------
(* The tables.                                                             *)

Tables == INSTANCE AddressMapProofs
            WITH Configs <- {[n \in DOMAIN Config |->
                                [type |-> Config[n].type, access |-> Config[n].access]]}

\* The configuration has the shape that the theorems about the tables ask for.
LEMMA ConfigShape == Tables!ConfigsAssumption
<1> DEFINE T == [type : Tables!SIEMENSDATATYPES, access : BOOLEAN]
           c == [n \in DOMAIN Config |->
                   [type |-> Config[n].type, access |-> Config[n].access]]
<1>1. Config \in Seq([type : SIEMENSDATATYPES, access : BOOLEAN, group : Byte])
  BY ConfigAssumption
<1>2. Len(Config) \in Nat /\ DOMAIN Config = 1 .. Len(Config)
  BY <1>1
<1>3. \A n \in 1 .. Len(Config) :
        Config[n].type \in SIEMENSDATATYPES /\ Config[n].access \in BOOLEAN
  <2> DEFINE S == [type : SIEMENSDATATYPES, access : BOOLEAN, group : Byte]
  <2>1. ASSUME NEW s \in S PROVE s.type \in SIEMENSDATATYPES /\ s.access \in BOOLEAN
    OBVIOUS
  <2>2. \A n \in 1 .. Len(Config) : Config[n] \in S
    <3> HIDE DEF S
    <3>1. Config \in Seq(S)
      BY <1>1 DEF S
    <3>2. QED
      BY <3>1
  <2>3. QED
    BY <2>1, <2>2
<1>4. ASSUME NEW n \in 1 .. Len(Config) PROVE c[n] \in T
  <2>1. c[n] = [type |-> Config[n].type, access |-> Config[n].access]
    BY <1>2
  <2>2. QED
    BY <1>3, <2>1 DEF SIEMENSDATATYPES, Tables!SIEMENSDATATYPES
<1>5. c \in [1 .. Len(Config) -> T]
  BY <1>2, <1>4
<1>6. c \in Seq(T)
  BY <1>2, <1>5
<1>7. QED
  BY <1>6 DEF Tables!ConfigsAssumption

\* Steps that leave the tables alone leave them alone as a whole.
LEMMA TablesUnchanged == UNCHANGED mapVars => UNCHANGED Tables!vars
  BY DEF mapVars, Tables!vars

\* A step of the gateway is one of the loop that builds the tables, or none.
LEMMA TablesStep == [Next]_vars => [Tables!Next]_(Tables!vars)
<1> SUFFICES ASSUME [Next]_vars PROVE [Tables!Next]_(Tables!vars)
  OBVIOUS
<1> USE DEF Map!NextResource, Map!Insert, Map!Registers, Map!size, Map!Item,
            Map!NoMemory, Map!SizeOf, Map!DetermineModbusRegType,
            Tables!NextResource, Tables!Insert, Tables!Registers, Tables!size,
            Tables!Item, Tables!NoMemory, Tables!SizeOf,
            Tables!DetermineModbusRegType
<1>1. CASE BuildTables
  <2>1. Map!PushCoil => Tables!PushCoil
    BY DEF Map!PushCoil, Tables!PushCoil
  <2>2. Map!PushInputContact => Tables!PushInputContact
    BY DEF Map!PushInputContact, Tables!PushInputContact
  <2>3. Map!InsertHoldingReg => Tables!InsertHoldingReg
    BY DEF Map!InsertHoldingReg, Tables!InsertHoldingReg
  <2>4. Map!InsertInputReg => Tables!InsertInputReg
    BY DEF Map!InsertInputReg, Tables!InsertInputReg
  <2>5. QED
    BY <1>1, <2>1, <2>2, <2>3, <2>4 DEF BuildTables, Tables!Next
<1>2. CASE StartServer
  BY <1>2 DEF StartServer, Map!NewMapping, Tables!NewMapping, Tables!Next
<1>3. CASE Background \/ CallStep \/ Respond \/ UNCHANGED vars
  BY <1>3, TablesUnchanged DEF Background, CallStep, Respond, vars
<1>4. ASSUME NEW q \in Queries, ReceiveAddressed(q) \/ ReceiveOther(q)
      PROVE  UNCHANGED Tables!vars
  BY <1>4, TablesUnchanged DEF ReceiveAddressed, ReceiveOther
<1>5. QED
  BY <1>1, <1>2, <1>3, <1>4 DEF Next

\* The tables are built in the gateway as on their own, whatever the other threads
\* do meanwhile: the theorems of AddressMapProofs hold in it (StartRunThread,
\* ModbusServer.cpp:49-108).
THEOREM HandlersImplementTables == Spec => Tables!Spec
<1>1. Init => Tables!Init
  BY DEF Init, Map!Init, Tables!Init, Map!SIEMENS_STATUS, Tables!SIEMENS_STATUS,
         Map!NoMemory, Tables!NoMemory
<1>2. QED
  BY <1>1, TablesStep, PTL DEF Spec, Tables!Spec

-----------------------------------------------------------------------------
(* The image.                                                              *)

Parts == {"bits", "input_bits", "registers", "input_registers"}

\* The image has the sizes the tables called for when it was allocated.
ImageSizes ==
    handler # "starting" =>
      /\ DeviceMemory # Map!NoMemory
      /\ DOMAIN tab = Parts
      /\ DOMAIN tab.bits = 1 .. DeviceMemory.bits
      /\ DOMAIN tab.input_bits = 1 .. DeviceMemory.input_bits
      /\ DOMAIN tab.registers = 1 .. 2 * DeviceMemory.registers
      /\ DOMAIN tab.input_registers = 1 .. 2 * DeviceMemory.input_registers

\* A reply keeps the sizes, whether it is made from a read's copy, stores a write
\* or leaves the image alone.
LEMMA RespondKeeps ==
    ASSUME DOMAIN tab = Parts, Respond
    PROVE  DOMAIN tab' = Parts /\ \A p \in Parts : DOMAIN tab'[p] = DOMAIN tab[p]
<1>1. tab' \in {Stored(TCP_Query), Copied(TCP_Query), tab}
  BY DEF Respond, Image
<1>2. ASSUME NEW part, NEW place, NEW new,
             tab' = [tab EXCEPT ![part] = Overwrite(@, place, new)]
      PROVE  DOMAIN tab' = Parts /\ \A p \in Parts : DOMAIN tab'[p] = DOMAIN tab[p]
  <2>1. DOMAIN Overwrite(tab[part], place, new) = DOMAIN tab[part]
    BY DEF Overwrite
  <2>2. \A p \in Parts :
          tab'[p] = IF p = part THEN Overwrite(tab[part], place, new) ELSE tab[p]
    BY <1>2
  <2>3. QED
    BY <1>2, <2>1, <2>2
<1>3. CASE tab' = Stored(TCP_Query)
  BY <1>2, <1>3 DEF Stored
<1>4. CASE tab' = Copied(TCP_Query)
  <2> DEFINE new == IF Words(TCP_Query)
                    THEN SubSeq(ByteData, 1, 2 * TCP_Query.count) ELSE BitData
  <2>1. tab' = [tab EXCEPT ![Part(TCP_Query)] = Overwrite(@, Place(TCP_Query), new)]
    BY <1>4 DEF Copied
  <2>2. QED
    BY <1>2, <2>1
<1>5. QED
  BY <1>1, <1>3, <1>4

\* Every step of the gateway keeps it so.
LEMMA SizesStep == Tables!TypeOK /\ ImageSizes /\ [Next]_vars => ImageSizes'
<1> SUFFICES ASSUME Tables!TypeOK, ImageSizes, [Next]_vars PROVE ImageSizes'
  OBVIOUS
<1>1. ASSUME UNCHANGED handlerVars, DeviceMemory' = DeviceMemory \/ handler = "starting"
      PROVE  ImageSizes'
  BY <1>1 DEF ImageSizes, handlerVars
<1>2. CASE BuildTables
  BY <1>1, <1>2 DEF BuildTables, Map!PushCoil, Map!PushInputContact,
     Map!InsertHoldingReg, Map!InsertInputReg, Map!NextResource
<1>3. CASE StartServer
  <2>1. /\ tab' = [bits            |-> Zeros(DeviceMemory'.bits),
                   input_bits      |-> Zeros(DeviceMemory'.input_bits),
                   registers       |-> Zeros(2 * DeviceMemory'.registers),
                   input_registers |-> Zeros(2 * DeviceMemory'.input_registers)]
    BY <1>3 DEF StartServer
  <2>2. \A n : DOMAIN Zeros(n) = 1 .. n
    BY DEF Zeros
  <2>3. DeviceMemory' # Map!NoMemory
    <3>1. Len(Coils) \in Nat
      BY DEF Tables!TypeOK
    <3>2. DeviceMemory'.bits = Len(Coils)
      BY <1>3 DEF StartServer, Map!NewMapping
    <3>3. QED
      BY <3>1, <3>2 DEF Map!NoMemory
  <2>4. QED
    BY <2>1, <2>2, <2>3 DEF ImageSizes, Parts
<1>4. CASE Background \/ CallStep \/ UNCHANGED vars
  BY <1>1, <1>4 DEF Background, CallStep, vars, mapVars
<1>5. CASE Respond
  <2>1. handler # "starting" /\ DeviceMemory' = DeviceMemory
    BY <1>5 DEF Respond, Responding, mapVars
  <2>2. QED
    BY <1>5, <2>1, RespondKeeps DEF ImageSizes, Parts
<1>6. ASSUME NEW q \in Queries, ReceiveAddressed(q) \/ ReceiveOther(q)
      PROVE  ImageSizes'
  BY <1>6 DEF ReceiveAddressed, ReceiveOther, ImageSizes, mapVars
<1>7. QED
  BY <1>2, <1>3, <1>4, <1>5, <1>6 DEF Next

LEMMA ImageKeepsSizes == Spec => []ImageSizes
<1>1. Spec => []Tables!TypeOK
  BY HandlersImplementTables, ConfigShape, Tables!TypeCorrect, PTL
<1>2. Init => ImageSizes
  BY DEF Init, ImageSizes
<1>3. QED
  BY <1>1, <1>2, SizesStep, PTL DEF Spec

\* Once the server runs, every bit and every register of an item that the tables
\* give an address lies in the image, whatever has been copied to it or stored in
\* it since it was allocated.
ItemsFitImage ==
    handler # "starting" =>
      /\ DOMAIN tab.bits = 1 .. Len(Coils)
      /\ DOMAIN tab.input_bits = 1 .. Len(InputContacts)
      /\ \A a \in DOMAIN HoldingRegs :
           1 .. 2 * (a + Map!Registers(HoldingRegs[a])) \subseteq DOMAIN tab.registers
      /\ \A a \in DOMAIN InputRegs :
           1 .. 2 * (a + Map!Registers(InputRegs[a])) \subseteq
             DOMAIN tab.input_registers

\* The sizes of the tables and of the image agree, so that it holds for every
\* configuration and every sequence of queries (ModbusServer.cpp:127-524).
THEOREM ItemsStayInImage == Spec => []ItemsFitImage
<1>1. Spec => [](Tables!TypeOK /\ Tables!FitsMemory)
  BY HandlersImplementTables, ConfigShape, Tables!TypeCorrect,
     Tables!ImageIsLargeEnough, PTL
<1>4. Tables!TypeOK /\ Tables!FitsMemory /\ ImageSizes => ItemsFitImage
  <2> SUFFICES ASSUME Tables!TypeOK, Tables!FitsMemory, ImageSizes,
                      handler # "starting"
               PROVE  ItemsFitImage
    BY DEF ItemsFitImage
  <2>1. Tables!Started
    BY DEF Tables!Started, ImageSizes, Tables!NoMemory, Map!NoMemory
  <2>2. \A id : Map!Registers(id) = Tables!Registers(id)
    BY DEF Map!Registers, Tables!Registers, Map!size, Tables!size, Map!Item,
           Tables!Item, Map!SizeOf, Tables!SizeOf
  <2>3. \A id : Tables!Registers(id) \in Nat
    BY DEF Tables!Registers, Tables!size, Tables!SizeOf
  <2>4. /\ \A a \in DOMAIN HoldingRegs : a \in Nat
        /\ \A a \in DOMAIN InputRegs : a \in Nat
        /\ DeviceMemory.registers \in Int /\ DeviceMemory.input_registers \in Int
    BY DEF Tables!TypeOK, Tables!NoMemory
  <2>5. ASSUME NEW a \in Nat, NEW r \in Nat, NEW m \in Int, a + r <= m
        PROVE  1 .. 2 * (a + r) \subseteq 1 .. 2 * m
    BY <2>5
  <2>6. DOMAIN tab.bits = 1 .. Len(Coils) /\ DOMAIN tab.input_bits = 1 .. Len(InputContacts)
    BY <2>1 DEF ImageSizes, Tables!FitsMemory
  <2>7. \A a \in DOMAIN HoldingRegs :
          1 .. 2 * (a + Map!Registers(HoldingRegs[a])) \subseteq DOMAIN tab.registers
    BY <2>1, <2>2, <2>3, <2>4, <2>5 DEF ImageSizes, Tables!FitsMemory
  <2>8. \A a \in DOMAIN InputRegs :
          1 .. 2 * (a + Map!Registers(InputRegs[a])) \subseteq
            DOMAIN tab.input_registers
    BY <2>1, <2>2, <2>3, <2>4, <2>5 DEF ImageSizes, Tables!FitsMemory
  <2>9. QED
    BY <2>6, <2>7, <2>8 DEF ItemsFitImage
<1>5. QED
  BY <1>1, <1>4, ImageKeepsSizes, PTL

-----------------------------------------------------------------------------
(* The theorems about the Siemens side.  An instance has definitions of its *)
(* own, so that the first thing to say is that they are the same.          *)

Client == INSTANCE SiemensPLCProofs

LEMMA SameOffsets ==
    \A ids, n : PLC!PayloadOffset(ids, n) = Client!PayloadOffset(ids, n)
BY DEF PLC!PayloadOffset, Client!PayloadOffset, PLC!size, Client!size,
       PLC!SizeOf, Client!SizeOf

LEMMA SamePayloads ==
    /\ \A r, n : PLC!Payload(r, n) = Client!Payload(r, n)
    /\ \A r, w : PLC!SizeMatches(r, w) <=> Client!SizeMatches(r, w)
BY SameOffsets DEF PLC!Payload, Client!Payload, PLC!size, Client!size, PLC!SizeOf,
   Client!SizeOf, PLC!ConvertForWrite, Client!ConvertForWrite, PLC!SizeMatches,
   Client!SizeMatches

LEMMA SameRunThread == PLC!RunThread <=> Client!RunThread
BY DEF PLC!sharedVars, PLC!itemVars, PLC!runVars, PLC!deviceVars, PLC!modVars,
   PLC!historyVars, Client!sharedVars, Client!itemVars, Client!runVars,
   Client!deviceVars, Client!modVars, Client!historyVars, PLC!Items, Client!Items,
   PLC!CurrentItem, Client!CurrentItem, PLC!GroupItems, Client!GroupItems,
   PLC!ErrorLimit, Client!ErrorLimit, PLC!AfterGroup, Client!AfterGroup,
   PLC!NextItem, Client!NextItem, PLC!RunThread, Client!RunThread,
   PLC!ConnectReturns, Client!ConnectReturns, PLC!MarkOnline, Client!MarkOnline,
   PLC!StartCycle, Client!StartCycle, PLC!ReadFails, Client!ReadFails,
   PLC!ReadReturns, Client!ReadReturns, PLC!ItemValid, Client!ItemValid,
   PLC!ItemInvalid, Client!ItemInvalid, PLC!CheckDataChange,
   Client!CheckDataChange, PLC!GoOffline, Client!GoOffline,
   PLC!SetDataItemStatus, Client!SetDataItemStatus, PLC!DisconnectReturns,
   Client!DisconnectReturns, PLC!TryToReconnect, Client!TryToReconnect,
   PLC!Wake, Client!Wake

LEMMA SameModbusThread == PLC!ModbusThread <=> Client!ModbusThread
<1>1. \A v : PLC!GetData(v) = Client!GetData(v)
  BY DEF PLC!GetData, Client!GetData, PLC!Reverse, Client!Reverse
<1> QED
  BY <1>1, SamePayloads
  DEF PLC!sharedVars, PLC!itemVars, PLC!runVars, PLC!deviceVars, PLC!modVars,
   PLC!historyVars, Client!sharedVars, Client!itemVars, Client!runVars,
   Client!deviceVars, Client!modVars, Client!historyVars, PLC!Items, Client!Items,
   PLC!Id, Client!Id, PLC!Single, Client!Single, PLC!Return, Client!Return,
   PLC!SIEMENS_STATUS, Client!SIEMENS_STATUS, PLC!WriteOps, Client!WriteOps,
   PLC!IsDataItemWritable, Client!IsDataItemWritable, PLC!RequestItems,
   Client!RequestItems, PLC!Sent, Client!Sent, PLC!Store, Client!Store,
   PLC!ModbusThread, Client!ModbusThread, PLC!Call, Client!Call,
   PLC!GateOffline, Client!GateOffline, PLC!GateOnline, Client!GateOnline,
   PLC!Deliver, Client!Deliver, PLC!ReadSiemensStatus, Client!ReadSiemensStatus,
   PLC!GetStatus, Client!GetStatus, PLC!Fetch, Client!Fetch, PLC!ResourceGate,
   Client!ResourceGate, PLC!LockForWrite, Client!LockForWrite, PLC!FillBuffer,
   Client!FillBuffer, PLC!RefuseFill, Client!RefuseFill, PLC!WriteReturns,
   Client!WriteReturns, PLC!WriteFails, Client!WriteFails

LEMMA SameSpec == PLC!Spec => Client!Spec
<1>1. PLC!Init => Client!Init
  BY DEF PLC!Init, Client!Init, PLC!Items, Client!Items, PLC!Zeros, Client!Zeros,
     PLC!size, Client!size, PLC!SizeOf, Client!SizeOf, PLC!NoRequest,
     Client!NoRequest
<1>2. [PLC!Next]_(PLC!vars) => [Client!Next]_(Client!vars)
  <2>1. PLC!Environment => Client!Environment
    BY DEF PLC!Environment, Client!Environment, PLC!DeviceStores,
       Client!DeviceStores, PLC!LinkBreaks, Client!LinkBreaks, PLC!Items,
       Client!Items, PLC!sharedVars, PLC!itemVars, PLC!runVars, PLC!modVars,
       PLC!historyVars, Client!sharedVars, Client!itemVars, Client!runVars,
       Client!modVars, Client!historyVars
  <2>2. UNCHANGED PLC!vars => UNCHANGED Client!vars
    BY DEF PLC!vars, PLC!sharedVars, PLC!itemVars, PLC!runVars, PLC!modVars,
       PLC!deviceVars, PLC!historyVars, Client!vars, Client!sharedVars,
       Client!itemVars, Client!runVars, Client!modVars, Client!deviceVars,
       Client!historyVars
  <2> QED
    BY <2>1, <2>2, SameRunThread, SameModbusThread DEF PLC!Next, Client!Next
<1> QED
  BY <1>1, <1>2, PTL DEF PLC!Spec, Client!Spec

\* Where the data of a write's items begins.
LEMMA PayloadOffsetRounds ==
    ASSUME NEW ids
    PROVE  /\ Client!PayloadOffset(ids, 1) = 0
           /\ \A k \in Nat \ {0} :
                /\ Client!PayloadOffset(ids, k) \in Nat
                /\ Client!PayloadOffset(ids, k + 1) =
                     Client!PayloadOffset(ids, k) + Client!size(ids[k])
<1> DEFINE bytes == [k \in Nat |-> Client!size(ids[k])]
           Rounds(g) == g = [k \in Nat |-> IF k <= 1 THEN 0
                                           ELSE g[k - 1] + Client!size(ids[k - 1])]
<1>1. \A k \in Nat : bytes[k] \in Nat
  BY DEF Client!size, Client!SizeOf
<1>2. ASSUME NEW g PROVE Rounds(g) <=> IsOffsets(g, bytes)
  <2>1. \A k \in Nat : k > 1 => bytes[k - 1] = Client!size(ids[k - 1])
    OBVIOUS
  <2> HIDE DEF bytes
  <2>2. [k \in Nat |-> IF k <= 1 THEN 0 ELSE g[k - 1] + bytes[k - 1]]
        = [k \in Nat |-> IF k <= 1 THEN 0
                         ELSE g[k - 1] + Client!size(ids[k - 1])]
    BY <2>1
  <2> QED
    BY <2>2 DEF IsOffsets
<1>3. PICK g : Rounds(g) /\ \A k \in Nat : Client!PayloadOffset(ids, k) = g[k]
  <2> DEFINE g == CHOOSE g : Rounds(g)
  <2>1. Rounds(g)
    <3> HIDE DEF bytes, Rounds
    <3> QED
      BY <1>1, <1>2, OffsetsExist
  <2>2. \A k \in Nat : Client!PayloadOffset(ids, k) = g[k]
    BY DEF Client!PayloadOffset
  <2> QED
    BY <2>1, <2>2
<1>4. IsOffsets(g, bytes)
  BY <1>2, <1>3
<1>5. /\ g[1] = 0
      /\ \A k \in Nat \ {0} : g[k] \in Nat /\ g[k + 1] = g[k] + bytes[k]
  <2> HIDE DEF bytes, Rounds
  <2> QED
    BY <1>1, <1>4, OffsetsRounds
<1> QED
  BY <1>3, <1>5

\* They grow from item to item.
LEMMA PayloadOffsetsGrow ==
    ASSUME NEW ids, NEW m \in Nat \ {0}, NEW n \in Nat, m <= n
    PROVE  Client!PayloadOffset(ids, m) <= Client!PayloadOffset(ids, n)
<1> DEFINE P(k) == Client!PayloadOffset(ids, k)
           T == {d \in Nat : P(m) <= P(m + d)}
<1>1. \A k \in Nat \ {0} : P(k) \in Nat /\ P(k + 1) = P(k) + Client!size(ids[k])
  BY PayloadOffsetRounds
<1>2. \A k : Client!size(ids[k]) \in Nat
  BY DEF Client!size, Client!SizeOf
<1> HIDE DEF P
<1>3. 0 \in T
  BY <1>1
<1>4. \A d \in Nat : d \in T => d + 1 \in T
  <2> SUFFICES ASSUME NEW d \in Nat, P(m) <= P(m + d) PROVE P(m) <= P(m + (d + 1))
    OBVIOUS
  <2>1. PICK k \in Nat \ {0} : k = m + d /\ k + 1 = m + (d + 1)
    OBVIOUS
  <2>2. P(k) \in Nat /\ P(k + 1) = P(k) + Client!size(ids[k]) /\ P(m) \in Nat
    BY <1>1
  <2> QED
    BY <1>2, <2>1, <2>2
<1>5. \A d \in Nat : d \in T
  <2> HIDE DEF T
  <2> QED
    BY <1>3, <1>4, SetInduction
<1>6. n - m \in Nat /\ m + (n - m) = n
  OBVIOUS
<1>7. P(m) <= P(n)
  BY <1>5, <1>6
<1> QED
  BY <1>7 DEF P

\* The data of an item of a call is the piece of the call's data that begins
\* where the items before it end, and there is enough of it.
LEMMA PayloadPiece ==
    ASSUME NEW r \in Requests, r.op = "writeBytes", Client!SizeMatches(r, 65536),
           NEW n \in DOMAIN r.ids
    PROVE  LET pos == Client!PayloadOffset(r.ids, n)
           IN  /\ pos \in Nat /\ pos + Client!size(r.ids[n]) <= Len(r.data)
               /\ Client!Payload(r, n) =
                    SubSeq(r.data, pos + 1, pos + Client!size(r.ids[n]))
<1> DEFINE pos == Client!PayloadOffset(r.ids, n)
           s == Client!size(r.ids[n])
           piece == SubSeq(r.data, pos + 1, pos + s)
<1>1. /\ r.ids \in Seq(PLC!Items \cup {PLC!SIEMENS_STATUS}) /\ r.data \in Value
      /\ r.count \in Nat \ {0} /\ r.count <= 123 /\ Len(r.data) = 2 * r.count
  BY CallsAssumption DEF WellFormed
<1>2. n \in Nat \ {0} /\ Len(r.ids) \in Nat /\ n + 1 <= Len(r.ids) + 1
  BY <1>1
<1>3. s \in Nat
  BY DEF Client!size, Client!SizeOf
<1>4. pos \in Nat /\ Client!PayloadOffset(r.ids, n + 1) = pos + s
  <2>1. n \in Nat \ {0}
    BY <1>2
  <2>2. \A k \in Nat \ {0} :
          /\ Client!PayloadOffset(r.ids, k) \in Nat
          /\ Client!PayloadOffset(r.ids, k + 1) =
               Client!PayloadOffset(r.ids, k) + Client!size(r.ids[k])
    BY PayloadOffsetRounds
  <2> QED
    BY <2>1, <2>2
<1>5. Client!PayloadOffset(r.ids, n + 1) <= Client!PayloadOffset(r.ids, Len(r.ids) + 1)
  BY <1>2, PayloadOffsetsGrow
<1>6. Client!PayloadOffset(r.ids, Len(r.ids) + 1) = 2 * r.count
  <2>1. PICK c \in Nat : c = r.count /\ c <= 123
    BY <1>1
  <2>2. (2 * c) % 65536 = 2 * c
    BY <2>1
  <2> QED
    BY <2>1, <2>2 DEF Client!SizeMatches
<1> HIDE DEF pos, s
<1>7. pos + s <= Len(r.data)
  BY <1>1, <1>4, <1>5, <1>6
<1>8. piece \in Value
  <2>1. pos + s \in Nat /\ pos <= pos + s
    BY <1>3, <1>4
  <2> QED
    BY <1>1, <1>4, <1>7, <2>1, PieceType
<1>9. SubSeq(piece, 1, Len(piece)) = piece
  <2> HIDE DEF piece
  <2> QED
    BY <1>8 DEF Value
<1>10. Client!Payload(r, n) = Client!ConvertForWrite(piece)
  BY DEF Client!Payload, pos, s
<1>11. Client!ConvertForWrite(piece) = piece
  <2> HIDE DEF piece
  <2> QED
    BY <1>9 DEF Client!ConvertForWrite
<1> QED
  BY <1>4, <1>7, <1>10, <1>11 DEF pos, s

\* The theorems about the Siemens side ask for no more than the gateway's own
\* assumptions.
LEMMA ClientAssumptions ==
    /\ Client!ConfigAssumption /\ Client!GroupsAssumption
    /\ Client!DeviceAssumption /\ Client!RequestsAssumption
<1>1. /\ Client!Items = PLC!Items /\ Client!SIEMENS_STATUS = PLC!SIEMENS_STATUS
      /\ Client!Value = Value /\ Client!Byte = Byte
      /\ Client!SIEMENSDATATYPES = SIEMENSDATATYPES
  BY DEF Client!Items, PLC!Items, Client!SIEMENS_STATUS, PLC!SIEMENS_STATUS,
         Client!Value, Value, Client!Byte, Byte, Client!SIEMENSDATATYPES,
         SIEMENSDATATYPES
<1>2. Client!ConfigAssumption /\ Client!GroupsAssumption /\ Client!DeviceAssumption
  BY SiemensAssumption
  DEF PLC!ConfigAssumption, PLC!GroupsAssumption, PLC!DeviceAssumption,
      Client!ConfigAssumption, Client!GroupsAssumption, Client!DeviceAssumption,
      Client!Items, PLC!Items, Client!Value, PLC!Value, Client!Byte, PLC!Byte,
      Client!SIEMENSDATATYPES, PLC!SIEMENSDATATYPES
<1>3. ASSUME NEW r \in Requests, NEW n \in DOMAIN r.ids, r.op \in Client!WriteOps,
             r.op = "writeBytes" => Client!SizeMatches(r, 65536)
      PROVE  Client!Payload(r, n) \in Value
  <2>1. /\ r.ids \in Seq(PLC!Items \cup {PLC!SIEMENS_STATUS}) /\ r.data \in Value
        /\ r.op = "writeBits" => r.data # <<>>
    BY CallsAssumption DEF WellFormed
  <2>2. CASE r.op = "writeBits"
    <3>1. r.data \in Seq(Byte) /\ Len(r.data) \in Nat \ {0} /\ r.data[1] \in Byte
      BY <2>1, <2>2 DEF Value
    <3>2. PICK b : b = r.data[1]
      OBVIOUS
    <3>3. b \in 0 .. 255 /\ b % 2 \in 0 .. 255
      <4>1. b \in 0 .. 255
        BY <3>1, <3>2 DEF Byte
      <4> QED
        BY <4>1
    <3>4. Client!Payload(r, n) \in {<<b % 2>>, <<0>>}
      BY <2>2, <3>2 DEF Client!Payload
    <3>5. <<b % 2>> \in Seq(0 .. 255) /\ <<0>> \in Seq(0 .. 255)
      BY <3>3
    <3> QED
      BY <3>4, <3>5 DEF Value, Byte
  <2>3. CASE r.op = "writeBytes"
    <3> DEFINE pos == Client!PayloadOffset(r.ids, n)
               s == Client!size(r.ids[n])
    <3>1. /\ pos \in Nat /\ pos + s <= Len(r.data)
          /\ Client!Payload(r, n) = SubSeq(r.data, pos + 1, pos + s)
      BY <1>3, <2>3, PayloadPiece
    <3>2. s \in Nat
      BY DEF Client!size, Client!SizeOf
    <3> HIDE DEF pos, s
    <3>3. pos + s \in Nat /\ pos <= pos + s
      BY <3>1, <3>2
    <3> QED
      BY <2>1, <3>1, <3>3, PieceType
  <2> QED
    BY <1>3, <2>2, <2>3 DEF Client!WriteOps
<1>4. ASSUME NEW r \in Requests
      PROVE  /\ r.op \in Client!ReadOps \cup Client!WriteOps
             /\ r.ids \in Seq(Client!Items \cup {Client!SIEMENS_STATUS})
             /\ r.op \in Client!ReadOps => r.ids # <<>>
             /\ Client!SIEMENS_STATUS \in {r.ids[n] : n \in DOMAIN r.ids} =>
                  r.op = "readBits"
             /\ \A m, n \in DOMAIN r.ids : r.ids[m] = r.ids[n] => m = n
  BY <1>1, CallsAssumption DEF WellFormed, Client!ReadOps, Client!WriteOps
<1>5. Client!RequestsAssumption
  BY <1>1, <1>3, <1>4 DEF Client!RequestsAssumption
<1> QED
  BY <1>2, <1>5

-----------------------------------------------------------------------------
(* The calls of the handlers.                                              *)

\* The tables are about the items of the configuration.
LEMMA TableItems ==
    ASSUME Tables!IndInv
    PROVE  /\ Tables!Items = PLC!Items
           /\ \A i \in PLC!Items : /\ Tables!Item(i).type = Config[i + 1].type
                                   /\ Tables!size(i) = Client!size(i)
<1> DEFINE c == [n \in DOMAIN Config |->
                   [type |-> Config[n].type, access |-> Config[n].access]]
<1>1. config = c
  BY DEF Tables!IndInv, Tables!TablesInv
<1>2. Len(Config) \in Nat /\ DOMAIN Config = 1 .. Len(Config)
  BY ConfigAssumption
<1>3. Len(c) = Len(Config)
  BY <1>2
<1>4. Tables!Items = PLC!Items
  BY <1>1, <1>3 DEF Tables!Items, PLC!Items
<1>5. ASSUME NEW i \in PLC!Items
      PROVE  /\ Tables!Item(i).type = Config[i + 1].type
             /\ Tables!size(i) = Client!size(i)
  <2>1. i + 1 \in DOMAIN Config
    BY <1>2 DEF PLC!Items
  <2>2. Tables!Item(i).type = Config[i + 1].type
    BY <1>1, <2>1 DEF Tables!Item
  <2> QED
    BY <2>2 DEF Tables!size, Tables!SizeOf, Client!size, Client!SizeOf
<1> QED
  BY <1>4, <1>5

LEMMA SameWindows ==
    \A table, address, count :
      Map!RegisterIds(table, address, count) = Tables!RegisterIds(table, address, count)
BY DEF Map!RegisterIds, Tables!RegisterIds, Map!Found, Tables!Found

\* What the theorems about the tables say of the two maps of registers.
LEMMA WordTables ==
    ASSUME Tables!IndInv, NEW q, Words(q)
    PROVE  \E current \in Nat, kind \in {"S7HOLDREG", "S7INPUTREG"} :
             /\ Tables!MapInv(Table(q), current, ResourceId, kind)
             /\ current = IF q.fc = READ_INPUT_REGISTERS
                          THEN CurrentInpuutRegsAddress ELSE CurrentHoldingAddress
             /\ Tables!CompleteInv /\ Tables!NoByteRegisters =>
                  Tables!Packed(Table(q), current, ResourceId, kind)
<1>1. /\ CurrentHoldingAddress \in Nat /\ CurrentInpuutRegsAddress \in Nat
      /\ Tables!MapInv(HoldingRegs, CurrentHoldingAddress, ResourceId, "S7HOLDREG")
      /\ Tables!MapInv(InputRegs, CurrentInpuutRegsAddress, ResourceId, "S7INPUTREG")
  BY DEF Tables!IndInv, Tables!TablesInv
<1>2. Table(q) = IF q.fc = READ_INPUT_REGISTERS THEN InputRegs ELSE HoldingRegs
  BY DEF Table, Words, WordReads, WordWrites, CoilWrites, READ_COILS,
         READ_DISCRETE_INPUTS, READ_HOLDING_REGISTERS, READ_INPUT_REGISTERS,
         WRITE_SINGLE_COIL, WRITE_SINGLE_REGISTER, WRITE_MULTIPLE_COILS,
         WRITE_MULTIPLE_REGISTERS
<1>3. CASE q.fc = READ_INPUT_REGISTERS
  BY <1>1, <1>2, <1>3 DEF Tables!CompleteInv
<1>4. CASE q.fc # READ_INPUT_REGISTERS
  BY <1>1, <1>2, <1>4 DEF Tables!CompleteInv
<1> QED
  BY <1>3, <1>4

\* The ids of a query for registers are distinct items that are no bits, whatever
\* its count; there are some if it is for any.
LEMMA WordIds ==
    ASSUME Tables!IndInv, NEW q, Words(q), q.address \in DOMAIN Table(q),
           q.address \in Nat, q.count \in Nat
    PROVE  /\ ResourceIds(q) \in Seq(PLC!Items)
           /\ q.count # 0 => ResourceIds(q) # <<>>
           /\ \A n \in DOMAIN ResourceIds(q) :
                Config[ResourceIds(q)[n] + 1].type # "BOOL"
           /\ \A m, n \in DOMAIN ResourceIds(q) :
                ResourceIds(q)[m] = ResourceIds(q)[n] => m = n
<1>1. PICK current \in Nat, kind \in {"S7HOLDREG", "S7INPUTREG"} :
        Tables!MapInv(Table(q), current, ResourceId, kind)
  BY WordTables
<1>2. PICK table : table = Table(q)
  OBVIOUS
<1>3. PICK ids : ids = Tables!RegisterIds(table, q.address, q.count)
  OBVIOUS
<1>4. PICK found : found = Tables!Found(table, q.address, q.count)
  OBVIOUS
<1>5. ids = ResourceIds(q)
  <2>1. q.fc # WRITE_MULTIPLE_COILS
    BY DEF Words, WordReads, WordWrites, READ_HOLDING_REGISTERS,
           READ_INPUT_REGISTERS, WRITE_SINGLE_REGISTER, WRITE_MULTIPLE_COILS,
           WRITE_MULTIPLE_REGISTERS
  <2>2. ResourceIds(q) = Map!RegisterIds(Table(q), q.address, q.count)
    BY <2>1 DEF ResourceIds
  <2> QED
    BY <1>2, <1>3, <2>2, SameWindows
<1>6. config \in {[n \in DOMAIN Config |->
                     [type |-> Config[n].type, access |-> Config[n].access]]}
  BY DEF Tables!IndInv, Tables!TablesInv
<1>7. /\ Tables!InWindow(found, table, q.address, q.count)
      /\ DOMAIN ids = 1 .. Len(found) /\ DOMAIN found = 1 .. Len(found)
      /\ Len(found) \in Nat
      /\ \A n \in DOMAIN ids :
           /\ found[n] \in DOMAIN table /\ found[n] \in Nat
           /\ ids[n] = table[found[n]] /\ ids[n] \in Tables!Items
           /\ Tables!DetermineModbusRegType(Tables!Item(ids[n])) = kind
  <2>1. Tables!OfWindow(found, ids, table, q.address, q.count, current, kind)
    BY <1>1, <1>2, <1>3, <1>4, <1>6, ConfigShape, Tables!IdsOfWindow
  <2> QED
    BY <2>1 DEF Tables!OfWindow
<1>8. q.count # 0 => Len(found) \in Nat \ {0}
  BY <1>2, <1>7, ConfigShape, Tables!FirstOfWindow
<1>9. ids \in Seq(PLC!Items) /\ (q.count # 0 => ids # <<>>)
  <2>1. ids = [n \in 1 .. Len(found) |-> ids[n]]
    BY <1>3, <1>4, <1>7 DEF Tables!RegisterIds
  <2>2. \A n \in 1 .. Len(found) : ids[n] \in PLC!Items
    BY <1>7, TableItems
  <2>3. ids \in [1 .. Len(found) -> PLC!Items]
    BY <2>1, <2>2
  <2>4. ids \in Seq(PLC!Items) /\ Len(ids) = Len(found)
    BY <1>7, <2>3
  <2> QED
    BY <1>8, <2>4
<1>10. ASSUME NEW n \in DOMAIN ids PROVE Config[ids[n] + 1].type # "BOOL"
  <2>1. ids[n] \in PLC!Items /\ Tables!Item(ids[n]).type # "BOOL"
    BY <1>7, TableItems DEF Tables!DetermineModbusRegType
  <2> QED
    BY <2>1, TableItems
<1>11. ASSUME NEW m \in DOMAIN ids, NEW n \in DOMAIN ids, ids[m] = ids[n]
       PROVE  m = n
  <2>1. found[m] = found[n]
    BY <1>1, <1>2, <1>7, <1>11 DEF Tables!MapInv
  <2>2. m < n => found[m] < found[n]
    BY <1>7 DEF Tables!InWindow
  <2>3. n < m => found[n] < found[m]
    BY <1>7 DEF Tables!InWindow
  <2> QED
    BY <1>7, <2>1, <2>2, <2>3
<1> QED
  BY <1>5, <1>9, <1>10, <1>11

\* The function codes are different numbers.
LEMMA FunctionCodes ==
    /\ READ_COILS = 1 /\ READ_DISCRETE_INPUTS = 2 /\ READ_HOLDING_REGISTERS = 3
    /\ READ_INPUT_REGISTERS = 4 /\ WRITE_SINGLE_COIL = 5
    /\ WRITE_SINGLE_REGISTER = 6 /\ WRITE_MULTIPLE_COILS = 15
    /\ WRITE_MULTIPLE_REGISTERS = 16
    /\ BitReads = {1, 2} /\ WordReads = {3, 4} /\ CoilWrites = {5, 15}
    /\ WordWrites = {6, 16} /\ Reads = {1, 2, 3, 4} /\ Writes = {5, 6, 15, 16}
BY DEF READ_COILS, READ_DISCRETE_INPUTS, READ_HOLDING_REGISTERS,
   READ_INPUT_REGISTERS, WRITE_SINGLE_COIL, WRITE_SINGLE_REGISTER,
   WRITE_MULTIPLE_COILS, WRITE_MULTIPLE_REGISTERS, BitReads, WordReads,
   CoilWrites, WordWrites, Reads, Writes

\* The numbers of a query.
LEMMA QueryNumbers ==
    ASSUME NEW q \in Queries
    PROVE  /\ q.address \in Nat /\ q.count \in Nat /\ q.data \in Value
           /\ q.fc \in {WRITE_SINGLE_COIL, WRITE_SINGLE_REGISTER} => q.count = 1
BY QueriesAssumption

\* What the protocol says of them, and of a query's data.
LEMMA KeptNumbers ==
    ASSUME NEW q \in Kept
    PROVE  /\ q \in Queries /\ q.address \in Nat /\ q.count \in Nat \ {0}
           /\ q.address + q.count <= 65536 /\ q.count <= 2000
           /\ q.fc \in WordReads => q.count <= 125
           /\ q.fc \in {WRITE_SINGLE_COIL, WRITE_SINGLE_REGISTER} => q.count = 1
           /\ q.data \in Value
           /\ q.fc \in WordWrites => q.count <= 123 /\ Len(q.data) = 2 * q.count
           /\ q.fc = WRITE_MULTIPLE_COILS => Len(q.data) = (q.count + 7) \div 8
<1>1. q \in Queries /\ KeepsProtocol(q)
  BY DEF Kept
<1>2. /\ MaxCount(q) \in Nat /\ MaxCount(q) <= 2000
      /\ q.fc \in WordReads => MaxCount(q) = 125
      /\ q.fc \in WordWrites => MaxCount(q) = 123
  <2>1. WordReads = {3, 4} /\ WordWrites = {6, 16} /\ WRITE_MULTIPLE_COILS = 15
    BY FunctionCodes
  <2> QED
    BY <2>1 DEF MaxCount
<1>3. q.count \in Nat \ {0} /\ q.count <= MaxCount(q)
  <2>1. PICK most \in Nat : most = MaxCount(q)
    BY <1>2
  <2>2. PICK count \in 1 .. most : count = q.count
    BY <1>1, <2>1 DEF KeepsProtocol
  <2> QED
    BY <2>1, <2>2
<1>4. /\ q.address + q.count <= 65536
      /\ q.fc \in WordWrites => Len(q.data) = 2 * q.count
      /\ q.fc = WRITE_MULTIPLE_COILS => Len(q.data) = (q.count + 7) \div 8
  BY <1>1 DEF KeepsProtocol
<1> QED
  BY <1>1, <1>2, <1>3, <1>4, QueryNumbers

\* A piece of a sequence of ids.
LEMMA PieceOfIds ==
    ASSUME NEW S, NEW table \in Seq(S), NEW m \in Nat, NEW n \in Nat,
           n <= Len(table)
    PROVE  LET piece == SubSeq(table, m + 1, n)
           IN  /\ piece \in Seq(S)
               /\ Len(piece) = IF m < n THEN n - m ELSE 0
               /\ \A k \in DOMAIN piece : m + k \in DOMAIN table
                                          /\ piece[k] = table[m + k]
<1> DEFINE piece == SubSeq(table, m + 1, n)
<1>1. CASE m < n
  <2>1. n - (m + 1) + 1 = n - m /\ n - m \in Nat
    BY <1>1
  <2>2. piece \in Seq(S) /\ Len(piece) = n - m
    BY <1>1, <2>1
  <2>3. ASSUME NEW k \in DOMAIN piece PROVE m + k \in DOMAIN table /\ piece[k] = table[m + k]
    <3>1. k \in 1 .. n - m
      <4> HIDE DEF piece
      <4> QED
        BY <2>2, <2>3
    <3>2. m + k \in 1 .. Len(table)
      BY <1>1, <3>1
    <3>3. piece[k] = table[m + 1 + k - 1] /\ m + 1 + k - 1 = m + k
      BY <1>1, <2>1, <3>1
    <3> QED
      BY <3>2, <3>3
  <2> QED
    BY <1>1, <2>2, <2>3
<1>2. CASE ~(m < n)
  <2>1. piece = <<>>
    BY <1>2
  <2> QED
    BY <1>2, <2>1
<1> QED
  BY <1>1, <1>2

\* The ids of a query for bits are distinct bits, perhaps with the status among
\* the input contacts.
LEMMA BitIds ==
    ASSUME Tables!IndInv, NEW q \in Kept, q.fc \in BitReads \cup CoilWrites,
           Addressed(q)
    PROVE  /\ ResourceIds(q) \in Seq(PLC!Items \cup {PLC!SIEMENS_STATUS})
           /\ q.fc # WRITE_MULTIPLE_COILS => Len(ResourceIds(q)) = q.count
           /\ \A n \in DOMAIN ResourceIds(q) :
                /\ q.address + n \in DOMAIN Table(q)
                /\ ResourceIds(q)[n] = Table(q)[q.address + n]
                /\ IF ResourceIds(q)[n] = PLC!SIEMENS_STATUS
                   THEN q.fc = READ_DISCRETE_INPUTS
                   ELSE Config[ResourceIds(q)[n] + 1].type = "BOOL"
           /\ \A m, n \in DOMAIN ResourceIds(q) :
                ResourceIds(q)[m] = ResourceIds(q)[n] => m = n
<1> DEFINE S == PLC!Items \cup {PLC!SIEMENS_STATUS}
<1>1. PICK table, kind :
        /\ table = Table(q)
        /\ table \in Seq(S) /\ Tables!SeqInv(table, ResourceId, kind)
        /\ kind \in {"S7COIL", "S7INCONT"}
        /\ q.fc # READ_DISCRETE_INPUTS => table = Coils /\ table \in Seq(PLC!Items)
  <2>1. Tables!Items = PLC!Items /\ Tables!SIEMENS_STATUS = PLC!SIEMENS_STATUS
    BY TableItems DEF Tables!SIEMENS_STATUS, PLC!SIEMENS_STATUS
  <2>2. /\ Coils \in Seq(PLC!Items) /\ Tables!SeqInv(Coils, ResourceId, "S7COIL")
        /\ Tables!SeqInv(InputContacts, ResourceId, "S7INCONT")
    BY <2>1 DEF Tables!IndInv, Tables!TablesInv
  <2>3. Coils \in Seq(S) /\ InputContacts \in Seq(S)
    BY <2>1, <2>2 DEF Tables!SeqInv
  <2>4. CASE q.fc = READ_DISCRETE_INPUTS
    <3>1. Table(q) = InputContacts
      BY <2>4, FunctionCodes DEF Table
    <3> QED
      BY <2>2, <2>3, <2>4, <3>1
  <2>5. CASE q.fc # READ_DISCRETE_INPUTS
    <3>1. Table(q) = Coils
      BY <2>5, FunctionCodes DEF Table
    <3> QED
      BY <2>2, <2>3, <2>5, <3>1
  <2> QED
    BY <2>4, <2>5
<1>0. PICK m \in Nat : m = q.address
  BY KeptNumbers
<1>2. PICK n \in Nat :
        /\ n <= Len(table)
        /\ ResourceIds(q) = SubSeq(table, m + 1, n)
        /\ q.fc # WRITE_MULTIPLE_COILS => n = m + q.count /\ m < n
  <2>1. q.address \in Nat /\ q.count \in Nat \ {0} /\ q.address + q.count <= 65536
    BY KeptNumbers
  <2>2. ~Words(q)
    BY FunctionCodes DEF Words
  <2>3. (q.address + q.count - 1) % 65536 < Len(table)
    BY <1>1, <2>2 DEF Addressed
  <2>4. PICK last \in Nat : last = q.address + q.count - 1 /\ last < 65536
    BY <2>1
  <2>5. last % 65536 = last
    BY <2>4
  <2>6. Len(table) \in Nat
    BY <1>1
  <2>7. last + 1 <= Len(table)
    BY <2>3, <2>4, <2>5, <2>6
  <2>8. CASE q.fc = WRITE_MULTIPLE_COILS
    <3>1. table = Coils
      BY <1>1, <2>8, FunctionCodes
    <3>2. ResourceIds(q) = SubSeq(table, q.address + 1, q.address + q.count - 1)
      BY <2>2, <2>8, <3>1 DEF ResourceIds
    <3>3. last <= Len(table)
      BY <2>6, <2>7
    <3>4. ResourceIds(q) = SubSeq(table, m + 1, last)
      BY <1>0, <2>4, <3>2
    <3> QED
      BY <2>8, <3>3, <3>4
  <2>9. CASE q.fc # WRITE_MULTIPLE_COILS
    <3>1. ResourceIds(q) = SubSeq(table, q.address + 1, q.address + q.count)
      BY <1>1, <2>2, <2>9 DEF ResourceIds
    <3>2. q.address + q.count = last + 1 /\ q.address < q.address + q.count
      BY <2>1, <2>4
    <3>3. PICK n \in Nat : n = q.address + q.count
      BY <2>1
    <3>4. /\ ResourceIds(q) = SubSeq(table, m + 1, n) /\ n <= Len(table)
          /\ n = m + q.count /\ m < n
      BY <1>0, <2>7, <3>1, <3>2, <3>3
    <3> QED
      BY <3>4
  <2> QED
    BY <2>8, <2>9
<1>3. PICK piece : piece = ResourceIds(q)
  OBVIOUS
<1>4. /\ piece \in Seq(S) /\ Len(piece) = (IF m < n THEN n - m ELSE 0)
      /\ \A k \in DOMAIN piece : m + k \in DOMAIN table /\ piece[k] = table[m + k]
      /\ DOMAIN piece \subseteq Nat
  <2> HIDE DEF S
  <2>1. SubSeq(table, m + 1, n) = piece
    BY <1>2, <1>3
  <2>2. /\ piece \in Seq(S) /\ Len(piece) = (IF m < n THEN n - m ELSE 0)
        /\ \A k \in DOMAIN piece : m + k \in DOMAIN table /\ piece[k] = table[m + k]
    <3>1. table \in Seq(S) /\ n <= Len(table)
      BY <1>1, <1>2
    <3>2. LET p == SubSeq(table, m + 1, n)
          IN  /\ p \in Seq(S)
              /\ Len(p) = IF m < n THEN n - m ELSE 0
              /\ \A k \in DOMAIN p : m + k \in DOMAIN table /\ p[k] = table[m + k]
      BY <3>1, PieceOfIds
    <3> QED
      BY <2>1, <3>2
  <2>3. DOMAIN piece \subseteq Nat
    BY <2>2
  <2> QED
    BY <2>2, <2>3
<1>5. q.fc # WRITE_MULTIPLE_COILS => Len(piece) = q.count
  <2>1. q.count \in Nat \ {0}
    BY KeptNumbers
  <2> QED
    BY <1>2, <1>4, <2>1
<1>6. ASSUME NEW k \in DOMAIN piece
      PROVE  IF piece[k] = PLC!SIEMENS_STATUS THEN q.fc = READ_DISCRETE_INPUTS
             ELSE Config[piece[k] + 1].type = "BOOL"
  <2>1. m + k \in DOMAIN table /\ piece[k] = table[m + k]
    BY <1>4
  <2>2. PLC!SIEMENS_STATUS \notin PLC!Items
    BY DEF PLC!SIEMENS_STATUS, PLC!Items
  <2>3. CASE piece[k] = PLC!SIEMENS_STATUS
    <3>1. ASSUME table \in Seq(PLC!Items) PROVE FALSE
      <4>1. table[m + k] \in PLC!Items
        BY <2>1, <3>1
      <4> QED
        BY <2>1, <2>2, <2>3, <4>1
    <3> QED
      BY <1>1, <2>3, <3>1
  <2>4. CASE piece[k] # PLC!SIEMENS_STATUS
    <3>1. piece[k] \in Tables!Items
          /\ Tables!DetermineModbusRegType(Tables!Item(piece[k])) = kind
      BY <1>1, <2>1, <2>4 DEF Tables!SeqInv, Tables!SIEMENS_STATUS,
                              PLC!SIEMENS_STATUS
    <3>2. Tables!Item(piece[k]).type = "BOOL"
      BY <1>1, <3>1 DEF Tables!DetermineModbusRegType
    <3> QED
      BY <2>4, <3>1, <3>2, TableItems
  <2> QED
    BY <2>3, <2>4
<1>7. ASSUME NEW i \in DOMAIN piece, NEW j \in DOMAIN piece, piece[i] = piece[j]
      PROVE  i = j
  <2>1. m + i = m + j
    BY <1>1, <1>4, <1>7 DEF Tables!SeqInv
  <2> QED
    BY <1>4, <2>1
<1> QED
  BY <1>0, <1>1, <1>2, <1>3, <1>4, <1>5, <1>6, <1>7

\* The call of a query that reaches items and keeps the protocol is well formed,
\* whatever tables the configuration has led to.
LEMMA CallOfQuery ==
    ASSUME Tables!IndInv, NEW q \in Kept, q.fc \in Reads \cup Writes, Addressed(q)
    PROVE  WellFormed(RequestOf(q))
<1> DEFINE r == RequestOf(q)
<1>1. /\ q.fc \in {1, 2, 3, 4, 5, 6, 15, 16}
      /\ r.op = IF q.fc \in {1, 2} THEN "readBits"
                ELSE IF q.fc \in {3, 4} THEN "readBytes"
                ELSE IF q.fc \in {5, 15} THEN "writeBits" ELSE "writeBytes"
      /\ r.ids = ResourceIds(q) /\ r.count = q.count
      /\ r.data = IF q.fc \in Reads THEN <<>> ELSE Writedata(q)
  BY FunctionCodes DEF RequestOf, Op
<1>2. /\ q.address \in Nat /\ q.count \in Nat \ {0} /\ q.data \in Value
      /\ q.count <= 2000
      /\ q.fc \in WordReads => q.count <= 125
      /\ q.fc \in WordWrites => q.count <= 123
  BY KeptNumbers
<1>3. r.data \in Value
  <2>1. <<>> \in Value /\ <<0>> \in Value /\ <<1>> \in Value
    BY DEF Value, Byte
  <2> QED
    BY <1>1, <1>2, <2>1 DEF Writedata
<1>4. r.op = "writeBits" => r.data # <<>>
  <2> SUFFICES ASSUME r.op = "writeBits" PROVE r.data # <<>>
    OBVIOUS
  <2>1. q.fc \in {5, 15}
    BY <1>1
  <2>2. r.data = Writedata(q)
    BY <1>1, <2>1, FunctionCodes
  <2>3. CASE q.fc = 5
    BY <2>2, <2>3, FunctionCodes DEF Writedata
  <2>4. CASE q.fc = 15
    <3>1. r.data = q.data /\ Len(q.data) = (q.count + 7) \div 8
      BY <2>2, <2>4, FunctionCodes, KeptNumbers DEF Writedata
    <3>2. (q.count + 7) \div 8 >= 1
      BY <1>2
    <3> QED
      BY <3>1, <3>2
  <2> QED
    BY <2>1, <2>3, <2>4
<1>5. r.op = "writeBytes" => Len(r.data) = 2 * r.count
  BY <1>1, FunctionCodes, KeptNumbers DEF Writedata
<1>6. /\ r.op \in {"readBits", "readBytes", "writeBits", "writeBytes"}
      /\ r.count \in Nat \ {0} /\ r.count <= 2000
      /\ r.op = "readBytes" => r.count <= 125
      /\ r.op = "writeBytes" => r.count <= 123
  BY <1>1, <1>2, FunctionCodes
<1>7. CASE Words(q)
  <2>1. q.address \in DOMAIN Table(q) /\ r.op \in {"readBytes", "writeBytes"}
    BY <1>1, <1>7, FunctionCodes DEF Words, Addressed
  <2>2. /\ r.ids \in Seq(PLC!Items) /\ r.ids # <<>>
        /\ \A n \in DOMAIN r.ids : Config[r.ids[n] + 1].type # "BOOL"
        /\ \A m, n \in DOMAIN r.ids : r.ids[m] = r.ids[n] => m = n
    BY <1>1, <1>2, <1>7, <2>1, WordIds
  <2> HIDE DEF r
  <2>3. \A n \in DOMAIN r.ids : r.ids[n] \in PLC!Items
    BY <2>2
  <2>4. PLC!SIEMENS_STATUS \notin PLC!Items
    BY DEF PLC!SIEMENS_STATUS, PLC!Items
  <2>5. r.ids \in Seq(PLC!Items \cup {PLC!SIEMENS_STATUS})
    BY <2>2
  <2>6. WellFormed(r)
    BY <1>3, <1>4, <1>5, <1>6, <2>1, <2>2, <2>3, <2>4, <2>5 DEF WellFormed
  <2> QED
    BY <2>6 DEF r
<1>8. CASE ~Words(q)
  <2>1. /\ q.fc \in BitReads \cup CoilWrites
        /\ r.op = (IF q.fc \in BitReads THEN "readBits" ELSE "writeBits")
        /\ q.fc = READ_DISCRETE_INPUTS => r.op = "readBits"
        /\ r.op = "readBits" => q.fc # WRITE_MULTIPLE_COILS
    BY <1>1, <1>8, FunctionCodes DEF Words
  <2>2. /\ r.ids \in Seq(PLC!Items \cup {PLC!SIEMENS_STATUS})
        /\ q.fc # WRITE_MULTIPLE_COILS => Len(r.ids) = q.count
        /\ \A n \in DOMAIN r.ids :
             IF r.ids[n] = PLC!SIEMENS_STATUS THEN q.fc = READ_DISCRETE_INPUTS
             ELSE Config[r.ids[n] + 1].type = "BOOL"
        /\ \A m, n \in DOMAIN r.ids : r.ids[m] = r.ids[n] => m = n
    BY <1>1, <2>1, BitIds
  <2> HIDE DEF r
  <2>3. r.op = "readBits" => r.ids # <<>>
    BY <1>2, <2>1, <2>2
  <2>4. WellFormed(r)
    BY <1>3, <1>4, <1>6, <2>1, <2>2, <2>3 DEF WellFormed
  <2> QED
    BY <2>4 DEF r
<1> QED
  BY <1>7, <1>8

\* How the query being served, the call made for it and the tables go together.
HandlerInv ==
    /\ handler \in {"starting", "idle", "called", "not_called"}
    /\ handler \in {"starting", "idle"} => TCP_Query = NoQuery
    /\ handler \in {"called", "not_called"} => TCP_Query \in Queries
    /\ handler = "starting" <=> DeviceMemory = Map!NoMemory
    /\ handler # "called" => modPc = "idle"
    /\ handler = "called" =>
         /\ TCP_Query \in Kept
         /\ TCP_Query.fc \in Reads \cup Writes /\ Addressed(TCP_Query)
         /\ request = RequestOf(TCP_Query)
    /\ handler = "not_called" =>
         (TCP_Query.fc \in Reads \cup Writes => ~Addressed(TCP_Query))


\* The run thread and the environment do not touch the call.
LEMMA BackgroundStays == Background => UNCHANGED PLC!modVars
BY DEF Background, PLC!RunThread, PLC!Environment, PLC!ConnectReturns,
   PLC!MarkOnline, PLC!StartCycle, PLC!ReadFails, PLC!ReadReturns, PLC!ItemValid,
   PLC!ItemInvalid, PLC!CheckDataChange, PLC!GoOffline, PLC!SetDataItemStatus,
   PLC!DisconnectReturns, PLC!TryToReconnect, PLC!Wake, PLC!DeviceStores,
   PLC!LinkBreaks, PLC!modVars

\* A call that proceeds remains the same call.
LEMMA CallStepStays == CallStep => request' = request
BY DEF CallStep, PLC!ModbusThread, PLC!Call, PLC!GateOffline, PLC!GateOnline,
   PLC!ReadSiemensStatus, PLC!GetStatus, PLC!Fetch, PLC!ResourceGate,
   PLC!LockForWrite, PLC!FillBuffer, PLC!RefuseFill, PLC!WriteReturns,
   PLC!WriteFails

\* A step that leaves handlers, tables and call alone keeps the invariant.
LEMMA HandlerFrame ==
    ASSUME HandlerInv, UNCHANGED <<mapVars, handlerVars>>, request' = request,
           modPc' = modPc \/ handler = "called"
    PROVE  HandlerInv'
<1>1. /\ TCP_Query' = TCP_Query /\ handler' = handler /\ DeviceMemory' = DeviceMemory
      /\ UNCHANGED mapVars
  BY DEF handlerVars, mapVars
<1>2. Addressed(TCP_Query)' = Addressed(TCP_Query)
      /\ RequestOf(TCP_Query)' = RequestOf(TCP_Query)
  BY <1>1 DEF mapVars, Addressed, RequestOf, ResourceIds, Table, Op, Words,
       Writedata, Map!RegisterIds, Map!Found
<1> QED
  BY <1>1, <1>2 DEF HandlerInv

LEMMA HandlerInit == Init => HandlerInv
BY DEF Init, HandlerInv, PLC!Init, Map!Init

LEMMA HandlerNext == Tables!IndInv /\ HandlerInv /\ [Next]_vars => HandlerInv'
<1> SUFFICES ASSUME Tables!IndInv, HandlerInv, [Next]_vars PROVE HandlerInv'
  OBVIOUS
<1>1. CASE Background
  <2>1. UNCHANGED <<mapVars, handlerVars>> /\ UNCHANGED PLC!modVars
    BY <1>1, BackgroundStays DEF Background
  <2> QED
    BY <2>1, HandlerFrame DEF PLC!modVars
<1>2. CASE CallStep
  <2>1. UNCHANGED <<mapVars, handlerVars>> /\ request' = request /\ handler = "called"
    BY <1>2, CallStepStays DEF CallStep, HandlerInv
  <2> QED
    BY <2>1, HandlerFrame
<1>3. CASE UNCHANGED vars
  <2>1. UNCHANGED <<mapVars, handlerVars>> /\ request' = request /\ modPc' = modPc
    BY <1>3 DEF vars, plcVars
  <2> QED
    BY <2>1, HandlerFrame
<1>4. CASE BuildTables
  <2>1. DeviceMemory' = DeviceMemory /\ UNCHANGED <<plcVars, handlerVars>>
    BY <1>4 DEF BuildTables, Map!PushCoil, Map!PushInputContact,
                Map!InsertHoldingReg, Map!InsertInputReg, Map!NextResource
  <2>2. DeviceMemory = Map!NoMemory
    <3>1. ResourceId < Len(config) /\ ResourceId \in 0 .. Len(config)
          /\ Len(config) \in Nat
      <4>1. ResourceId < Len(config)
        BY <1>4 DEF BuildTables, Map!PushCoil, Map!PushInputContact,
                    Map!InsertHoldingReg, Map!InsertInputReg, Map!NextResource
      <4>2. config \in Seq([type : Tables!SIEMENSDATATYPES, access : BOOLEAN])
        BY ConfigShape DEF Tables!IndInv, Tables!TablesInv, Tables!ConfigsAssumption
      <4> QED
        BY <4>1, <4>2 DEF Tables!IndInv, Tables!TablesInv
    <3> QED
      BY <3>1 DEF Tables!IndInv, Tables!MemoryInv, Tables!NoMemory, Map!NoMemory
  <2> QED
    BY <2>1, <2>2 DEF HandlerInv, plcVars, handlerVars
<1>5. CASE StartServer
  <2>1. /\ DeviceMemory = Map!NoMemory /\ DeviceMemory'.bits = Len(Coils)
        /\ handler' = "idle" /\ TCP_Query' = TCP_Query /\ modPc' = modPc
    BY <1>5 DEF StartServer, Map!NewMapping, plcVars
  <2>2. Len(Coils) \in Nat
    BY DEF Tables!IndInv, Tables!TablesInv
  <2>3. DeviceMemory' # Map!NoMemory
    BY <2>1, <2>2 DEF Map!NoMemory
  <2> QED
    BY <2>1, <2>3 DEF HandlerInv
<1>6. CASE Respond
  BY <1>6 DEF Respond, Responding, HandlerInv, plcVars, mapVars
<1>7. ASSUME NEW q \in Kept, ReceiveAddressed(q) PROVE HandlerInv'
  <2>1. /\ handler = "idle" /\ q.fc \in Reads \cup Writes /\ Addressed(q)
        /\ TCP_Query' = q /\ handler' = "called" /\ request' = RequestOf(q)
        /\ UNCHANGED mapVars
    BY <1>7 DEF ReceiveAddressed, PLC!Call
  <2>2. Addressed(TCP_Query)' = Addressed(q)
    BY <2>1 DEF mapVars, Addressed, Table, Words
  <2>3. RequestOf(TCP_Query)' = RequestOf(q)
    <3>1. Table(TCP_Query)' = Table(q)
      BY <2>1 DEF mapVars, Table
    <3>2. Words(TCP_Query)' = Words(q)
      BY <2>1 DEF Words
    <3>3. ResourceIds(TCP_Query)' = ResourceIds(q)
      BY <2>1, <3>1, <3>2 DEF mapVars, ResourceIds, Map!RegisterIds, Map!Found
    <3>4. Op(TCP_Query)' = Op(q) /\ Writedata(TCP_Query)' = Writedata(q)
      BY <2>1 DEF Op, Writedata
    <3> QED
      BY <2>1, <3>3, <3>4 DEF RequestOf
  <2> QED
    BY <2>1, <2>2, <2>3, KeptNumbers DEF HandlerInv, mapVars, Kept, KeepsProtocol, MaxCount
<1>8. ASSUME NEW q \in Queries, ReceiveOther(q) PROVE HandlerInv'
  <2>1. /\ handler = "idle" /\ (q.fc \in Reads \cup Writes => ~Addressed(q))
        /\ TCP_Query' = q /\ handler' = "not_called" /\ modPc' = modPc
        /\ UNCHANGED mapVars
    BY <1>8 DEF ReceiveOther, plcVars
  <2>2. Addressed(TCP_Query)' = Addressed(q)
    BY <2>1 DEF mapVars, Addressed, Table, Words
  <2> QED
    BY <2>1, <2>2 DEF HandlerInv, mapVars
<1> QED
  BY <1>1, <1>2, <1>3, <1>4, <1>5, <1>6, <1>7, <1>8 DEF Next, Kept

LEMMA HandlersInductive == Spec => [](Tables!IndInv /\ Tables!CompleteInv /\ HandlerInv)
<1>1. Spec => [](Tables!IndInv /\ Tables!CompleteInv)
  BY HandlersImplementTables, ConfigShape, Tables!Complete, PTL
<1> QED
  BY <1>1, HandlerInit, HandlerNext, PTL DEF Spec

\* The tables, and not the clients, keep the handlers from calling the Siemens
\* side in a way it does not expect (the handlers, ModbusServer.cpp:127-398).  A
\* query for registers names distinct items that are no bits, whatever its count
\* and its data are; one that keeps the protocol makes a call of items of one kind,
\* with as much data as it takes.  The handlers of bits do rely on the protocol:
\* the end of a range past address 65535 looks to them as if it were in the table.
CallsAreWellFormed ==
    \A q \in Queries :
      q.fc \in Reads \cup Writes /\ Addressed(q) =>
        /\ Words(q) =>
             LET ids == ResourceIds(q)
             IN  /\ ids \in Seq(PLC!Items)
                 /\ \A n \in DOMAIN ids : Config[ids[n] + 1].type # "BOOL"
                 /\ \A m, n \in DOMAIN ids : ids[m] = ids[n] => m = n
        /\ KeepsProtocol(q) => WellFormed(RequestOf(q))

THEOREM HandlersCallWell == Spec => []CallsAreWellFormed
<1>1. ASSUME Tables!IndInv PROVE CallsAreWellFormed
  <2> SUFFICES ASSUME NEW q \in Queries, q.fc \in Reads \cup Writes, Addressed(q)
               PROVE  /\ Words(q) =>
                           /\ ResourceIds(q) \in Seq(PLC!Items)
                           /\ \A n \in DOMAIN ResourceIds(q) :
                                Config[ResourceIds(q)[n] + 1].type # "BOOL"
                           /\ \A m, n \in DOMAIN ResourceIds(q) :
                                ResourceIds(q)[m] = ResourceIds(q)[n] => m = n
                      /\ KeepsProtocol(q) => WellFormed(RequestOf(q))
    BY DEF CallsAreWellFormed
  <2>1. q.address \in Nat /\ q.count \in Nat
    BY QueryNumbers
  <2>2. Words(q) => q.address \in DOMAIN Table(q)
    BY DEF Addressed
  <2> QED
    BY <1>1, <2>1, <2>2, WordIds, CallOfQuery DEF Kept
<1> QED
  BY <1>1, HandlersInductive, PTL

\* So that, if all these calls are among Requests, the gateway makes no others.
\* The data of a call is of any kind here that a query can carry.
Calls ==
    [op : {"readBits", "readBytes", "writeBits", "writeBytes"},
     ids : Seq(PLC!Items \cup {PLC!SIEMENS_STATUS}), count : Nat, data : Value]
AllCalls == {r \in Calls : WellFormed(r)} \subseteq Requests

LEMMA CallsCovered == ASSUME AllCalls PROVE Spec => []CallsAreRequests
<1>1. ASSUME CallsAreWellFormed PROVE CallsAreRequests
  <2> SUFFICES ASSUME NEW q \in Kept, q.fc \in Reads \cup Writes, Addressed(q)
               PROVE  RequestOf(q) \in Requests
    BY DEF CallsAreRequests
  <2>1. WellFormed(RequestOf(q))
    BY <1>1 DEF CallsAreWellFormed, Kept
  <2>2. RequestOf(q) \in Calls
    <3>1. RequestOf(q) =
            [op |-> RequestOf(q).op, ids |-> RequestOf(q).ids,
             count |-> RequestOf(q).count, data |-> RequestOf(q).data]
      BY DEF RequestOf
    <3>2. /\ RequestOf(q).op \in {"readBits", "readBytes", "writeBits", "writeBytes"}
          /\ RequestOf(q).ids \in Seq(PLC!Items \cup {PLC!SIEMENS_STATUS})
          /\ RequestOf(q).count \in Nat /\ RequestOf(q).data \in Value
      BY <2>1 DEF WellFormed
    <3> QED
      BY <3>1, <3>2 DEF Calls
  <2> QED
    BY <2>1, <2>2 DEF AllCalls
<1> QED
  BY <1>1, HandlersCallWell, PTL

\* Then the Siemens side does in the gateway what it does on its own.
THEOREM HandlersImplementClient == ASSUME AllCalls PROVE Spec => ImplementsPLC
BY CallsCovered, HandlersImplementPLC, PTL

-----------------------------------------------------------------------------
(* What the clients get: the replies.                                      *)

\* Data in a reply was read for this query, for every function code but that of
\* the holding registers, whose handler reports no error for an address it does
\* not find (ReadHoldingRegs, ModbusServer.cpp:195-238).
THEOREM OthersAreRead ==
    Spec => [](TCP_Query.fc # READ_HOLDING_REGISTERS => RepliesAreRead)
<1>1. HandlerInv => (TCP_Query.fc # READ_HOLDING_REGISTERS => RepliesAreRead)
  <2> SUFFICES ASSUME HandlerInv, TCP_Query.fc # READ_HOLDING_REGISTERS,
                      Responding, Answered, handler # "called"
               PROVE  FALSE
    BY DEF RepliesAreRead
  <2>1. handler = "not_called"
    BY DEF Responding
  <2>2. Result \in {"InvalidModbusAddr", "UnSoppotedMopdbusFC"}
    BY <2>1 DEF Result
  <2>3. SendReply.exception = Exception(Result)
    BY <2>2 DEF SendReply
  <2>4. Exception(Result) # "none"
    BY <2>2 DEF Exception
  <2> QED
    BY <2>3, <2>4 DEF Answered
<1> QED
  BY <1>1, HandlersInductive, PTL

-----------------------------------------------------------------------------
(* What a call leaves behind.                                              *)

\* The Siemens side keeps its invariants in the gateway.
SiemensInv ==
    /\ Client!TypeOK /\ Client!WriteAnswerIsTrue
    /\ Client!Origins /\ Client!Answers

ServingInv ==
    Tables!IndInv /\ Tables!CompleteInv /\ HandlerInv /\ SiemensInv

LEMMA Serving == Spec /\ []CallsAreRequests => []ServingInv
<1>1. Spec /\ []CallsAreRequests => Client!Spec
  BY HandlersImplementPLC, SameSpec, PTL DEF ImplementsPLC
<1>2. Client!Spec => []Client!TypeOK
  BY ClientAssumptions, Client!TypeCorrect, SMTT(60)
<1>3. Client!Spec => []Client!WriteAnswerIsTrue
  BY ClientAssumptions, Client!WriteAnswersAreTrue, SMTT(60)
<1>4. Client!Spec => []Client!Origins
  BY ClientAssumptions, Client!DataKeepsToItsItem, SMTT(60)
<1>5. Client!Spec => []Client!Answers
  BY ClientAssumptions, Client!AnswersAreComplete, SMTT(60)
<1> QED
  BY <1>1, <1>2, <1>3, <1>4, <1>5, HandlersInductive, PTL
  DEF ServingInv, SiemensInv

\* The call of the query being served is one of Requests.
LEMMA CallOfServing ==
    ASSUME ServingInv, handler = "called"
    PROVE  /\ TCP_Query \in Kept /\ TCP_Query.fc \in Reads \cup Writes
           /\ Addressed(TCP_Query)
           /\ request = RequestOf(TCP_Query) /\ request \in Requests
           /\ WellFormed(request)
<1>1. /\ TCP_Query \in Kept /\ TCP_Query.fc \in Reads \cup Writes
      /\ Addressed(TCP_Query) /\ request = RequestOf(TCP_Query)
  BY DEF ServingInv, HandlerInv
<1>2. WellFormed(request)
  BY <1>1, CallOfQuery DEF ServingInv
<1>3. request \in Requests \cup {Client!NoRequest}
  BY DEF ServingInv, SiemensInv, Client!TypeOK
<1>4. request # Client!NoRequest
  BY <1>2 DEF WellFormed, Client!NoRequest
<1> QED
  BY <1>1, <1>2, <1>3, <1>4

LEMMA SameSizes == \A i : PLC!size(i) = Client!size(i) /\ Client!size(i) \in {1, 2, 4}
BY DEF PLC!size, Client!size, PLC!SizeOf, Client!SizeOf

LEMMA SameData == \A v : Client!GetData(v) = GetData(v) /\ Client!Zeros(v) = Zeros(v)
BY DEF Client!GetData, GetData, Client!Reverse, Reverse, Client!Zeros, Zeros

\* What a client has written to an item is a value of it; and if the item is no
\* bit, it was sent in a write of registers.
LEMMA WrittenValues ==
    ASSUME NEW i \in PLC!Items, NEW v \in Client!Written(i)
    PROVE  /\ v \in ItemValues(i)
           /\ Config[i + 1].type # "BOOL" => v \in Sent(i)
<1>0. PICK r \in Requests :
        /\ r.op \in {"writeBits", "writeBytes"}
        /\ r.op = "writeBytes" => Client!SizeMatches(r, 65536)
        /\ \E n \in DOMAIN r.ids : r.ids[n] = i /\ v = Client!Payload(r, n)
  BY DEF Client!Written, Client!WriteOps
<1>1. PICK n \in DOMAIN r.ids : r.ids[n] = i /\ v = Client!Payload(r, n)
  BY <1>0
<1>2. v \in Value
  BY DEF Client!Written, Client!Value, Value, Client!Byte, Byte
<1>3. i # PLC!SIEMENS_STATUS
  BY DEF PLC!Items, PLC!SIEMENS_STATUS
<1>4. WellFormed(r)
  BY CallsAssumption
<1>5. CASE r.op = "writeBits"
  <2>1. Config[i + 1].type = "BOOL"
    BY <1>1, <1>3, <1>4, <1>5 DEF WellFormed
  <2>2. r.data \in Value /\ r.data # <<>>
    BY <1>4, <1>5 DEF WellFormed
  <2>3. r.data[1] \in Nat
    <3>1. r.data \in Seq(Byte) /\ Len(r.data) \in Nat \ {0}
      BY <2>2 DEF Value
    <3>2. r.data[1] \in Byte
      BY <3>1
    <3> QED
      BY <3>2 DEF Byte
  <2>4. PICK b \in {0, 1} : b = r.data[1] % 2
    BY <2>3
  <2>5. v \in {<<b>>, <<0>>}
    BY <1>1, <1>5, <2>4 DEF Client!Payload
  <2>6. Len(v) = 1 /\ v[1] \in {0, 1}
    BY <2>4, <2>5
  <2>7. PLC!size(i) = 1
    BY <2>1 DEF PLC!size, PLC!SizeOf
  <2> QED
    BY <1>2, <2>1, <2>6, <2>7 DEF ItemValues
<1>6. CASE r.op = "writeBytes"
  <2>1. Config[i + 1].type # "BOOL"
    BY <1>1, <1>3, <1>4, <1>6 DEF WellFormed
  <2> DEFINE pos == Client!PayloadOffset(r.ids, n)
             s == Client!size(i)
  <2>2. /\ pos \in Nat /\ pos + s <= Len(r.data)
        /\ v = SubSeq(r.data, pos + 1, pos + s)
    BY <1>0, <1>1, <1>6, PayloadPiece
  <2>3. s \in Nat /\ s = PLC!size(i)
    BY SameSizes
  <2>4. r.data \in Value
    BY <1>4 DEF WellFormed
  <2>5. Len(v) = s
    <3> HIDE DEF pos, s
    <3>1. PICK e \in Nat : e = pos + s /\ pos <= e /\ e - pos = s
      BY <2>2, <2>3
    <3>2. v = SubSeq(r.data, pos + 1, e) /\ e <= Len(r.data)
      BY <2>2, <3>1
    <3>3. Len(SubSeq(r.data, pos + 1, e)) = e - pos
      BY <2>2, <2>4, <3>1, <3>2, PieceType
    <3> QED
      BY <3>1, <3>2, <3>3
  <2>6. v \in Sent(i)
    <3>1. PLC!SizeMatches(r, 65536) /\ v = PLC!Payload(r, n)
      BY <1>0, <1>1, <1>6, SamePayloads
    <3> QED
      BY <1>1, <1>6, <3>1 DEF Sent
  <2> QED
    BY <1>2, <2>1, <2>3, <2>5, <2>6 DEF ItemValues
<1> QED
  BY <1>0, <1>5, <1>6

\* Turning the bytes of a value round leaves a value.
LEMMA DataOfValue ==
    ASSUME NEW i \in PLC!Items, NEW v \in ItemValues(i)
    PROVE  GetData(v) \in ItemValues(i)
<1>1. v \in Seq(Byte) /\ Len(v) = PLC!size(i) /\ Len(v) \in {1, 2, 4}
  BY SameSizes DEF ItemValues, Value
<1>2. CASE Len(v) \in {2, 4}
  <2>1. GetData(v) = [k \in 1 .. Len(v) |-> v[(Len(v) - k) + 1]]
    BY <1>2 DEF GetData, Reverse
  <2>2. \A k \in 1 .. Len(v) : v[(Len(v) - k) + 1] \in Byte
    <3>1. \A k \in 1 .. Len(v) : (Len(v) - k) + 1 \in 1 .. Len(v)
      BY <1>2
    <3> QED
      BY <1>1, <3>1
  <2>3. GetData(v) \in Seq(Byte) /\ Len(GetData(v)) = Len(v)
    <3>1. PICK w \in [1 .. Len(v) -> Byte] : w = GetData(v)
      BY <2>1, <2>2
    <3>2. Len(v) \in Nat
      BY <1>1
    <3>3. w \in Seq(Byte) /\ Len(w) = Len(v)
      BY <3>1, <3>2
    <3> QED
      BY <3>1, <3>3
  <2>4. Config[i + 1].type # "BOOL"
    BY <1>1, <1>2 DEF PLC!size, PLC!SizeOf
  <2> QED
    BY <1>1, <2>3, <2>4 DEF ItemValues, Value
<1>3. CASE Len(v) \notin {2, 4}
  BY <1>3 DEF GetData
<1> QED
  BY <1>2, <1>3

\* The zeros an item begins with are a value of it, and turned round they are zeros.
LEMMA ZerosAreValues ==
    ASSUME NEW i \in PLC!Items
    PROVE  /\ Zeros(PLC!size(i)) \in ItemValues(i)
           /\ GetData(Zeros(PLC!size(i))) = Zeros(PLC!size(i))
<1>1. PICK s \in {1, 2, 4} : s = PLC!size(i)
  BY SameSizes
<1>2. PICK z \in [1 .. s -> {0}] : z = Zeros(s) /\ z = [k \in 1 .. s |-> 0]
  BY DEF Zeros
<1>3. z \in Seq(Byte) /\ Len(z) = s /\ z[1] = 0
  <2>1. s \in Nat /\ {0} \subseteq Byte /\ 1 \in 1 .. s
    BY <1>1 DEF Byte
  <2> QED
    BY <1>2, <2>1
<1>4. Reverse(z) = z
  <2>1. Reverse(z) = [k \in 1 .. s |-> z[(s - k) + 1]]
    BY <1>3 DEF Reverse
  <2>2. \A k \in 1 .. s : z[(s - k) + 1] = 0
    <3>1. \A k \in 1 .. s : (s - k) + 1 \in 1 .. s
      BY <1>1
    <3> QED
      BY <1>2, <3>1
  <2> QED
    BY <1>2, <2>1, <2>2
<1> QED
  BY <1>1, <1>2, <1>3, <1>4 DEF ItemValues, Value, GetData

LEMMA MapSizes ==
    ASSUME Tables!IndInv, NEW i \in PLC!Items
    PROVE  /\ Map!size(i) = PLC!size(i) /\ Tables!size(i) = PLC!size(i)
           /\ Map!Registers(i) = PLC!size(i) \div 2
           /\ Tables!Registers(i) = PLC!size(i) \div 2
<1>1. Tables!size(i) = PLC!size(i)
  BY TableItems, SameSizes
<1>2. Map!size(i) = Tables!size(i)
  BY DEF Map!size, Tables!size, Map!Item, Tables!Item, Map!SizeOf, Tables!SizeOf
<1> QED
  BY <1>1, <1>2 DEF Map!Registers, Tables!Registers

\* An entry of an answer is a value of its item, and if the item is no bit one that
\* the image may hold for it.
LEMMA EntryValue ==
    ASSUME Tables!IndInv, NEW i \in PLC!Items, NEW entry, Client!Entry(i, entry)
    PROVE  /\ entry \in ItemValues(i)
           /\ Config[i + 1].type # "BOOL" => entry \in Known(i)
<1>1. i # Client!SIEMENS_STATUS
  BY DEF PLC!Items, Client!SIEMENS_STATUS
<1>2. PICK v \in Client!Origin(i) \cup {Zeros(PLC!size(i))} : entry = GetData(v)
  BY <1>1, SameData, SameSizes DEF Client!Entry
<1>3. Map!size(i) = PLC!size(i)
  BY MapSizes
<1>4. CASE v = Zeros(PLC!size(i))
  BY <1>2, <1>3, <1>4, ZerosAreValues DEF Known
<1>5. CASE v \in Client!Written(i)
  <2>1. v \in ItemValues(i) /\ (Config[i + 1].type # "BOOL" => v \in Sent(i))
    BY <1>5, WrittenValues
  <2> QED
    BY <1>2, <2>1, DataOfValue DEF Known
<1>6. CASE v \in DeviceValues[i]
  <2>1. v \in ItemValues(i)
    <3>1. DeviceValues[i] \subseteq Value
      BY SiemensAssumption DEF PLC!DeviceAssumption, PLC!Value, Value, PLC!Byte, Byte
    <3> QED
      BY <1>6, <3>1, ValuesAssumption
  <2> QED
    BY <1>2, <1>6, <2>1, DataOfValue DEF Known
<1> QED
  BY <1>2, <1>4, <1>5, <1>6 DEF Client!Origin

-----------------------------------------------------------------------------
(* The data of a read call.                                                *)

\* Where the items of a call lie: the Siemens side and the tables agree on the
\* data of a write, and an answer takes at least as much room.
LEMMA OffsetsAgree ==
    ASSUME Tables!IndInv, NEW ids \in Seq(PLC!Items)
    PROVE  \A k \in Nat : k <= Len(ids) =>
             /\ Client!PayloadOffset(ids, k + 1) = Tables!Bytes(ids, k)
             /\ Client!PayloadOffset(ids, k + 1) <= Tables!ReadOffset(ids, k + 1)
<1> DEFINE P(k) == /\ Client!PayloadOffset(ids, k + 1) = Tables!Bytes(ids, k)
                   /\ Client!PayloadOffset(ids, k + 1) <= Tables!ReadOffset(ids, k + 1)
           T == {k \in Nat : k <= Len(ids) => P(k)}
<1>1. 0 \in T
  <2>1. Tables!Bytes(ids, 0) = 0 /\ Tables!ReadOffset(ids, 1) = 0
    BY ConfigShape, Tables!BytesRounds, Tables!ReadOffsetRounds
  <2>2. Client!PayloadOffset(ids, 1) = 0
    BY PayloadOffsetRounds
  <2> QED
    BY <2>1, <2>2
<1>2. \A k \in Nat : k \in T => k + 1 \in T
  <2> SUFFICES ASSUME NEW k \in Nat, k + 1 <= Len(ids), k <= Len(ids) => P(k)
               PROVE  P(k + 1)
    OBVIOUS
  <2>1. PICK j \in Nat \ {0} : j = k + 1 /\ j <= Len(ids) /\ j \in DOMAIN ids
    OBVIOUS
  <2>2. PICK s \in Nat : s = Client!size(ids[j]) /\ s = Tables!size(ids[j])
    <3>1. ids[j] \in PLC!Items
      BY <2>1
    <3> QED
      BY <3>1, TableItems, SameSizes
  <2>3. /\ Client!PayloadOffset(ids, j) \in Nat
        /\ Client!PayloadOffset(ids, j + 1) = Client!PayloadOffset(ids, j) + s
    BY <2>1, <2>2, PayloadOffsetRounds
  <2>4. Tables!Bytes(ids, j) = Tables!Bytes(ids, k) + s
    BY <2>1, <2>2, ConfigShape, Tables!BytesRounds
  <2>5. /\ Tables!ReadOffset(ids, j) \in Nat
        /\ Tables!ReadOffset(ids, j + 1) =
             Tables!ReadOffset(ids, j) + (IF s = 1 THEN 2 ELSE s)
    BY <2>1, <2>2, ConfigShape, Tables!ReadOffsetRounds
  <2>6. /\ Client!PayloadOffset(ids, j) = Tables!Bytes(ids, k)
        /\ Client!PayloadOffset(ids, j) <= Tables!ReadOffset(ids, j)
    BY <2>1
  <2>7. s <= (IF s = 1 THEN 2 ELSE s) /\ (IF s = 1 THEN 2 ELSE s) \in Nat
    OBVIOUS
  <2>8. Client!PayloadOffset(ids, j + 1) = Tables!Bytes(ids, j)
    BY <2>3, <2>4, <2>6
  <2>9. Client!PayloadOffset(ids, j + 1) <= Tables!ReadOffset(ids, j + 1)
    BY <2>3, <2>5, <2>6, <2>7
  <2> QED
    BY <2>1, <2>8, <2>9
<1>3. \A k \in Nat : k \in T
  <2> HIDE DEF T
  <2> QED
    BY <1>1, <1>2, SetInduction
<1> QED
  BY <1>3

\* A call that has been made for a query.
CallMade == ServingInv /\ Responding /\ handler = "called" /\ result = "OK"

\* What a successful read of registers has delivered.
LEMMA WordsDelivered ==
    ASSUME CallMade, TCP_Query.fc \in WordReads
    PROVE  /\ request.ids \in Seq(PLC!Items)
           /\ Len(Readdata) = Len(request.ids) /\ DOMAIN Readdata = DOMAIN request.ids
           /\ request.count <= 125 /\ request.count \in Nat \ {0}
           /\ Client!SizeMatches(request, 256)
           /\ \A n \in DOMAIN request.ids :
                Readdata[n] \in ItemValues(request.ids[n]) \cap Known(request.ids[n])
<1>1. /\ request.op = "readBytes" /\ WellFormed(request)
      /\ request = RequestOf(TCP_Query) /\ Addressed(TCP_Query)
      /\ TCP_Query \in Kept
  BY CallOfServing, FunctionCodes DEF CallMade, RequestOf, Op
<1>2. /\ request.ids \in Seq(PLC!Items)
      /\ \A n \in DOMAIN request.ids : Config[request.ids[n] + 1].type # "BOOL"
  <2>1. Words(TCP_Query)
    BY DEF Words
  <2>2. TCP_Query.address \in DOMAIN Table(TCP_Query)
    BY <1>1, <2>1 DEF Addressed
  <2>3. TCP_Query.address \in Nat /\ TCP_Query.count \in Nat \ {0}
    BY <1>1, KeptNumbers
  <2>4. request.ids = ResourceIds(TCP_Query)
    BY <1>1 DEF RequestOf
  <2> QED
    BY <2>1, <2>2, <2>3, <2>4, WordIds DEF CallMade, ServingInv
<1>3. /\ Len(Readdata) = Len(request.ids) /\ Client!SizeMatches(request, 256)
      /\ \A n \in DOMAIN Readdata : Client!Entry(request.ids[n], Readdata[n])
  <2>1. modPc = "idle" /\ result = "OK"
    BY DEF CallMade, Responding
  <2>2. request.op \in Client!ReadOps
    BY <1>1 DEF Client!ReadOps
  <2> QED
    BY <1>1, <2>1, <2>2 DEF CallMade, ServingInv, SiemensInv, Client!Answers
<1>4. DOMAIN Readdata = DOMAIN request.ids
  <2>1. Readdata \in Seq(Client!Value)
    BY DEF CallMade, ServingInv, SiemensInv, Client!TypeOK
  <2> QED
    BY <1>2, <1>3, <2>1
<1>5. ASSUME NEW n \in DOMAIN request.ids
      PROVE  Readdata[n] \in ItemValues(request.ids[n]) \cap Known(request.ids[n])
  <2>1. request.ids[n] \in PLC!Items
    BY <1>2
  <2>2. Client!Entry(request.ids[n], Readdata[n])
    BY <1>3, <1>4
  <2> QED
    BY <1>2, <2>1, <2>2, EntryValue DEF CallMade, ServingInv
<1>6. request.count <= 125 /\ request.count \in Nat \ {0}
  BY <1>1 DEF WellFormed
<1> QED
  BY <1>2, <1>3, <1>4, <1>5, <1>6

\* The bytes of an entry as the handler is given them.
Padded(entry) == IF Len(entry) = 1 THEN Append(entry, 0) ELSE entry

LEMMA PaddedBytes ==
    ASSUME NEW entry \in Seq(Byte)
    PROVE  /\ Padded(entry) \in Seq(Byte)
           /\ Len(Padded(entry)) = IF Len(entry) = 1 THEN 2 ELSE Len(entry)
           /\ Len(entry) <= Len(Padded(entry))
           /\ \A k \in 1 .. Len(entry) : Padded(entry)[k] = entry[k]
<1>1. 0 \in Byte /\ Len(entry) \in Nat
  BY DEF Byte
<1>2. CASE Len(entry) = 1
  <2>1. Append(entry, 0) \in Seq(Byte) /\ Len(Append(entry, 0)) = 2
    <3>1. Append(entry, 0) \in Seq(Byte)
      BY <1>1
    <3>2. Len(Append(entry, 0)) = Len(entry) + 1
      OBVIOUS
    <3> QED
      BY <1>2, <3>1, <3>2
  <2>2. \A k \in 1 .. Len(entry) : Append(entry, 0)[k] = entry[k]
    BY <1>1, <1>2
  <2> QED
    BY <1>2, <2>1, <2>2 DEF Padded
<1>3. CASE Len(entry) # 1
  BY <1>1, <1>3 DEF Padded
<1> QED
  BY <1>2, <1>3

\* The handler gets the bytes of each item at the item's offset, and no fewer than
\* it copies to the image.
LEMMA BytesDelivered ==
    ASSUME CallMade, TCP_Query.fc \in WordReads
    PROVE  /\ ByteData \in Value /\ 2 * request.count <= Len(ByteData)
           /\ \A n \in DOMAIN request.ids :
                /\ Tables!ReadOffset(request.ids, n) \in Nat
                /\ \A k \in 1 .. Len(Readdata[n]) :
                     ByteData[Tables!ReadOffset(request.ids, n) + k] = Readdata[n][k]
<1>1. PICK ids : ids = request.ids
  OBVIOUS
<1>2. PICK data : data = Readdata
  OBVIOUS
<1>3. /\ ids \in Seq(PLC!Items) /\ Len(data) = Len(ids) /\ DOMAIN data = DOMAIN ids
      /\ \A n \in DOMAIN ids : data[n] \in ItemValues(ids[n])
  BY <1>1, <1>2, WordsDelivered
<1>4. PICK N \in Nat : N = Len(ids) /\ DOMAIN ids = 1 .. N /\ DOMAIN data = 1 .. N
  <2>1. Len(ids) \in Nat /\ DOMAIN ids = 1 .. Len(ids)
    BY <1>3
  <2> QED
    BY <1>3, <2>1
<1>5. \A n \in 1 .. N :
        /\ ids[n] \in PLC!Items /\ data[n] \in Seq(Byte)
        /\ Len(data[n]) = Tables!size(ids[n])
  <2>1. \A n \in 1 .. N : ids[n] \in PLC!Items /\ data[n] \in ItemValues(ids[n])
    BY <1>3, <1>4
  <2>2. \A i \in PLC!Items : PLC!size(i) = Tables!size(i)
    BY MapSizes DEF CallMade, ServingInv
  <2> QED
    BY <2>1, <2>2 DEF ItemValues, Value
<1> DEFINE pads == [n \in DOMAIN data |-> Padded(data[n])]
           off == [k \in Nat |-> Tables!ReadOffset(ids, k)]
<1>6. ByteData = FlattenSeq(pads)
  BY <1>2 DEF ByteData, Padded
<1>7. pads \in Seq(Seq(Byte)) /\ Len(pads) = N
  <2>1. \A n \in 1 .. N : Padded(data[n]) \in Seq(Byte)
    BY <1>5, PaddedBytes
  <2>2. pads \in [1 .. N -> Seq(Byte)]
    BY <1>4, <2>1
  <2> QED
    BY <2>2
<1>8. \A n \in 1 .. N :
        /\ Len(pads[n]) = (IF Tables!size(ids[n]) = 1 THEN 2 ELSE Tables!size(ids[n]))
        /\ Len(data[n]) <= Len(pads[n])
        /\ \A k \in 1 .. Len(data[n]) : pads[n][k] = data[n][k]
  <2> SUFFICES ASSUME NEW n \in 1 .. N
               PROVE  /\ Len(pads[n]) = (IF Tables!size(ids[n]) = 1 THEN 2
                                         ELSE Tables!size(ids[n]))
                      /\ Len(data[n]) <= Len(pads[n])
                      /\ \A k \in 1 .. Len(data[n]) : pads[n][k] = data[n][k]
    OBVIOUS
  <2>1. pads[n] = Padded(data[n])
    BY <1>4
  <2>2. PICK entry \in Seq(Byte) : entry = data[n] /\ Len(entry) = Tables!size(ids[n])
    BY <1>5
  <2> HIDE DEF pads
  <2>3. /\ Len(Padded(entry)) = (IF Len(entry) = 1 THEN 2 ELSE Len(entry))
        /\ Len(entry) <= Len(Padded(entry))
        /\ \A k \in 1 .. Len(entry) : Padded(entry)[k] = entry[k]
    BY PaddedBytes
  <2> QED
    BY <2>1, <2>2, <2>3
<1>9. /\ off[1] = 0
      /\ \A k \in 1 .. N : off[k + 1] = off[k] + Len(pads[k])
  <2>1. /\ Tables!ReadOffset(ids, 1) = 0
        /\ \A k \in Nat \ {0} :
             /\ Tables!ReadOffset(ids, k) \in Nat
             /\ Tables!ReadOffset(ids, k + 1) =
                  Tables!ReadOffset(ids, k) + (IF Tables!size(ids[k]) = 1 THEN 2
                                               ELSE Tables!size(ids[k]))
    BY ConfigShape, Tables!ReadOffsetRounds
  <2>2. \A k \in 1 .. N : k \in Nat \ {0} /\ k + 1 \in Nat
    OBVIOUS
  <2>3. \A k \in 1 .. N : off[k] = Tables!ReadOffset(ids, k)
                          /\ off[k + 1] = Tables!ReadOffset(ids, k + 1)
    BY <2>2
  <2>5. off[1] = Tables!ReadOffset(ids, 1)
    OBVIOUS
  <2> HIDE DEF off, pads
  <2>4. ASSUME NEW k \in 1 .. N PROVE off[k + 1] = off[k] + Len(pads[k])
    <3>1. Tables!ReadOffset(ids, k + 1) =
            Tables!ReadOffset(ids, k) + (IF Tables!size(ids[k]) = 1 THEN 2
                                         ELSE Tables!size(ids[k]))
      BY <2>1, <2>2
    <3>2. Len(pads[k]) = IF Tables!size(ids[k]) = 1 THEN 2 ELSE Tables!size(ids[k])
      BY <1>8
    <3>3. off[k] = Tables!ReadOffset(ids, k)
          /\ off[k + 1] = Tables!ReadOffset(ids, k + 1)
      BY <2>3
    <3> QED
      BY <3>1, <3>2, <3>3
  <2>6. off[1] = 0
    BY <2>1, <2>5
  <2> QED
    BY <2>4, <2>6
<1>10. PiecesPlaced(ByteData, N, Byte, pads, off)
  <2> HIDE DEF pads, off
  <2> QED
    BY <1>6, <1>7, <1>9, FlattenPlaces
<1>11. ByteData \in Value /\ Len(ByteData) = Tables!ReadOffset(ids, N + 1)
  BY <1>10 DEF PiecesPlaced, Value
<1>12. 2 * request.count <= Len(ByteData)
  <2>1. Client!PayloadOffset(ids, N + 1) <= Tables!ReadOffset(ids, N + 1)
    BY <1>3, <1>4, OffsetsAgree DEF CallMade, ServingInv
  <2>2. PICK c \in Nat : c = request.count /\ c <= 125
    BY WordsDelivered
  <2>3. Client!PayloadOffset(ids, N + 1) = (2 * c) % 256
    BY <1>1, <1>4, <2>2, WordsDelivered DEF Client!SizeMatches
  <2>4. (2 * c) % 256 = 2 * c
    BY <2>2
  <2> QED
    BY <1>11, <2>1, <2>2, <2>3, <2>4
<1>13. ASSUME NEW n \in 1 .. N
       PROVE  /\ Tables!ReadOffset(ids, n) \in Nat
              /\ \A k \in 1 .. Len(data[n]) :
                   ByteData[Tables!ReadOffset(ids, n) + k] = data[n][k]
  <2>1. /\ off[n] \in Nat
        /\ \A k \in 1 .. Len(pads[n]) : ByteData[off[n] + k] = pads[n][k]
    BY <1>10 DEF PiecesPlaced
  <2>2. off[n] = Tables!ReadOffset(ids, n)
    OBVIOUS
  <2>3. \A k \in 1 .. Len(data[n]) : k \in 1 .. Len(pads[n])
    <3>1. Len(data[n]) <= Len(pads[n]) /\ Len(data[n]) \in Nat /\ Len(pads[n]) \in Nat
      <4> HIDE DEF pads
      <4>1. pads[n] \in Seq(Byte)
        BY <1>7
      <4> QED
        BY <1>5, <1>8, <4>1
    <3> HIDE DEF pads
    <3> QED
      BY <3>1
  <2> HIDE DEF pads, off
  <2> QED
    BY <1>8, <2>1, <2>2, <2>3
<1> QED
  BY <1>1, <1>2, <1>4, <1>11, <1>12, <1>13

\* What a successful read of bits has delivered: one bit for every address.
LEMMA BitsDelivered ==
    ASSUME CallMade, TCP_Query.fc \in BitReads
    PROVE  /\ Len(request.ids) = TCP_Query.count
           /\ DOMAIN request.ids = 1 .. TCP_Query.count
           /\ DOMAIN BitData = 1 .. TCP_Query.count
           /\ \A n \in 1 .. TCP_Query.count :
                /\ BitData[n] \in {0, 1} /\ Readdata[n] = <<BitData[n]>>
                /\ request.ids[n] = Table(TCP_Query)[TCP_Query.address + n]
<1>1. /\ request.op = "readBits" /\ request.ids = ResourceIds(TCP_Query)
      /\ Addressed(TCP_Query) /\ TCP_Query \in Kept
  BY CallOfServing, FunctionCodes DEF CallMade, RequestOf, Op
<1>2. PICK count \in Nat : count = TCP_Query.count
  BY <1>1, KeptNumbers
<1>3. TCP_Query.fc # WRITE_MULTIPLE_COILS /\ TCP_Query.fc \in BitReads \cup CoilWrites
  BY FunctionCodes
<1>4. /\ request.ids \in Seq(PLC!Items \cup {PLC!SIEMENS_STATUS})
      /\ Len(request.ids) = count
      /\ \A n \in DOMAIN request.ids :
           /\ request.ids[n] = Table(TCP_Query)[TCP_Query.address + n]
           /\ request.ids[n] # PLC!SIEMENS_STATUS =>
                Config[request.ids[n] + 1].type = "BOOL"
  BY <1>1, <1>2, <1>3, BitIds DEF CallMade, ServingInv
<1>5. DOMAIN request.ids = 1 .. count
  BY <1>4
<1>6. Readdata \in Seq(Client!Value) /\ Len(Readdata) = count
  <2>1. modPc = "idle" /\ result = "OK"
    BY DEF CallMade, Responding
  <2>2. request.op \in Client!ReadOps
    BY <1>1 DEF Client!ReadOps
  <2> QED
    BY <1>4, <2>1, <2>2 DEF CallMade, ServingInv, SiemensInv, Client!Answers,
                            Client!TypeOK
<1>7. DOMAIN Readdata = 1 .. count
  BY <1>6
<1>8. ASSUME NEW n \in 1 .. count
      PROVE  Readdata[n][1] \in {0, 1} /\ Readdata[n] = <<Readdata[n][1]>>
  <2>1. Client!Entry(request.ids[n], Readdata[n])
    BY <1>7 DEF CallMade, ServingInv, SiemensInv, Client!Answers
  <2>2. CASE request.ids[n] = PLC!SIEMENS_STATUS
    <3>1. Readdata[n] \in {<<0>>, <<1>>}
      BY <2>1, <2>2 DEF Client!Entry, Client!SIEMENS_STATUS, PLC!SIEMENS_STATUS
    <3> QED
      BY <3>1
  <2>3. CASE request.ids[n] # PLC!SIEMENS_STATUS
    <3>1. PICK i \in PLC!Items : i = request.ids[n] /\ Config[i + 1].type = "BOOL"
      BY <1>4, <1>5, <2>3
    <3>2. PICK v \in ItemValues(i) : v = Readdata[n]
      BY <2>1, <3>1, EntryValue DEF CallMade, ServingInv
    <3>3. v \in Seq(Byte) /\ Len(v) = 1 /\ v[1] \in {0, 1}
      BY <3>1 DEF ItemValues, Value, PLC!size, PLC!SizeOf
    <3>4. v = <<v[1]>>
      BY <3>3
    <3> QED
      BY <3>2, <3>3, <3>4
  <2> QED
    BY <2>2, <2>3
<1>9. DOMAIN BitData = 1 .. count /\ \A n \in 1 .. count : BitData[n] = Readdata[n][1]
  BY <1>7 DEF BitData
<1> QED
  BY <1>2, <1>4, <1>5, <1>8, <1>9

-----------------------------------------------------------------------------
(* The types of the image.                                                 *)

Cells(p) == IF p \in {"bits", "input_bits"} THEN {0, 1} ELSE Byte
Filled(image) == \A p \in Parts : image[p] \in [DOMAIN image[p] -> Cells(p)]
ImageFilled == handler # "starting" => Filled(tab)

LEMMA OverwriteFills ==
    ASSUME DOMAIN tab = Parts, Filled(tab), NEW p \in Parts, NEW place, NEW new,
           \A k \in DOMAIN new : new[k] \in Cells(p)
    PROVE  Filled([tab EXCEPT ![p] = Overwrite(@, place, new)])
<1> DEFINE image == [tab EXCEPT ![p] = Overwrite(@, place, new)]
<1>1. \A o \in Parts : image[o] = IF o = p THEN Overwrite(tab[p], place, new) ELSE tab[o]
  OBVIOUS
<1>2. PICK old \in [DOMAIN tab[p] -> Cells(p)] : old = tab[p]
  BY DEF Filled
<1>3. Overwrite(tab[p], place, new) \in [DOMAIN tab[p] -> Cells(p)]
  <2>1. Overwrite(old, place, new) \in [DOMAIN old -> Cells(p)]
    BY <1>2 DEF Overwrite
  <2> QED
    BY <1>2, <2>1
<1> HIDE DEF image
<1>4. Filled(image)
  BY <1>1, <1>3 DEF Filled
<1> QED
  BY <1>4 DEF image

\* Where a query belongs, by its function code.
LEMMA PartOfQuery ==
    ASSUME NEW q, q.fc \in Reads \cup Writes
    PROVE  /\ Part(q) \in Parts
           /\ Words(q) <=> Part(q) \in {"registers", "input_registers"}
           /\ Words(q) <=> q.fc \in WordReads \cup WordWrites
           /\ ~Words(q) <=> q.fc \in BitReads \cup CoilWrites
BY FunctionCodes DEF Part, Parts, Words

\* A read brings bits to the bits and bytes to the registers.
LEMMA CopiedFills ==
    ASSUME CallMade, TCP_Query.fc \in Reads, DOMAIN tab = Parts, Filled(tab)
    PROVE  Filled(Copied(TCP_Query))
<1> DEFINE p == Part(TCP_Query)
           new == IF Words(TCP_Query)
                  THEN SubSeq(ByteData, 1, 2 * TCP_Query.count) ELSE BitData
<1>1. p \in Parts /\ (Words(TCP_Query) <=> p \in {"registers", "input_registers"})
  BY PartOfQuery
<1>2. CASE Words(TCP_Query)
  <2>1. TCP_Query.fc \in WordReads
    BY <1>2, FunctionCodes DEF Words
  <2>2. request.count = TCP_Query.count
    BY CallOfServing DEF CallMade, RequestOf
  <2>3. PICK m \in Nat : m = 2 * TCP_Query.count
    <3>1. request.count \in Nat
      BY <2>1, WordsDelivered
    <3> QED
      BY <2>2, <3>1
  <2>4. ByteData \in Value /\ m <= Len(ByteData)
    BY <2>1, <2>2, <2>3, BytesDelivered
  <2>5. SubSeq(ByteData, 0 + 1, m) \in Value
    <3>1. 0 \in Nat /\ 0 <= m
      OBVIOUS
    <3> QED
      BY <2>4, <3>1, PieceType
  <2>6. new \in Seq(Byte)
    BY <1>2, <2>3, <2>5 DEF Value
  <2>7. Cells(p) = Byte
    BY <1>1, <1>2 DEF Cells
  <2>8. \A k \in DOMAIN new : new[k] \in Cells(p)
    <3> HIDE DEF new, p
    <3> QED
      BY <2>6, <2>7
  <2> QED
    BY <1>1, <2>8, OverwriteFills DEF Copied
<1>3. CASE ~Words(TCP_Query)
  <2>1. TCP_Query.fc \in BitReads
    BY <1>3, FunctionCodes DEF Words
  <2>2. \A k \in DOMAIN BitData : BitData[k] \in {0, 1}
    BY <2>1, BitsDelivered
  <2>3. Cells(p) = {0, 1}
    BY <1>1, <1>3 DEF Cells, Parts
  <2>4. \A k \in DOMAIN new : new[k] \in Cells(p)
    BY <1>3, <2>2, <2>3
  <2> QED
    BY <1>1, <2>4, OverwriteFills DEF Copied
<1> QED
  BY <1>2, <1>3

\* So does a write.
LEMMA StoredFills ==
    ASSUME NEW q \in Kept, q.fc \in Writes, DOMAIN tab = Parts, Filled(tab)
    PROVE  Filled(Stored(q))
<1> DEFINE p == Part(q)
<1>1. p \in Parts /\ (Words(q) <=> p \in {"registers", "input_registers"})
  BY PartOfQuery
<1>2. PICK count \in Nat \ {0} : count = q.count
  BY KeptNumbers
<1>3. q.data \in Value
  BY KeptNumbers
<1>4. \A k \in DOMAIN ImageData(q) : ImageData(q)[k] \in Cells(p)
  <2>1. CASE q.fc = WRITE_SINGLE_COIL
    <3>1. ImageData(q) \in {<<0>>, <<1>>}
      BY <2>1, FunctionCodes DEF ImageData, Writedata
    <3>2. Cells(p) = {0, 1}
      BY <1>1, <2>1, FunctionCodes DEF Cells, Parts, Words
    <3> QED
      BY <3>1, <3>2
  <2>2. CASE q.fc = WRITE_MULTIPLE_COILS
    <3>1. ImageData(q) = [n \in 1 .. count |-> Bit(q.data, n)]
      BY <1>2, <2>2, FunctionCodes DEF ImageData
    <3>2. Len(q.data) = (count + 7) \div 8
      BY <1>2, <2>2, KeptNumbers
    <3>3. count <= 8 * Len(q.data)
      BY <3>2
    <3>4. \A n \in 1 .. count : Bit(q.data, n) \in {0, 1}
      BY <1>3, <3>3, BitType
    <3>5. Cells(p) = {0, 1}
      BY <1>1, <2>2, FunctionCodes DEF Cells, Parts, Words
    <3> QED
      BY <3>1, <3>4, <3>5
  <2>3. CASE q.fc \in WordWrites
    <3>1. ImageData(q) = SwapPairs(q.data)
      BY <2>3, FunctionCodes DEF ImageData
    <3>2. Len(q.data) = 2 * count
      BY <1>2, <2>3, KeptNumbers
    <3>3. SwapPairs(q.data) \in Seq(Byte)
      BY <1>3, <3>2, SwapPairsType DEF Value
    <3>4. Cells(p) = Byte
      BY <1>1, <2>3, FunctionCodes DEF Cells, Parts, Words
    <3> QED
      BY <3>1, <3>3, <3>4
  <2> QED
    BY <2>1, <2>2, <2>3, FunctionCodes
<1> QED
  BY <1>1, <1>4, OverwriteFills DEF Stored

\* A write that is confirmed has been called for, and the call succeeded.
LEMMA ConfirmedCall ==
    ASSUME ServingInv, Responding, Confirmed
    PROVE  CallMade /\ TCP_Query.fc \in Writes
<1>1. handler \in {"called", "not_called"} /\ modPc = "idle"
  BY DEF Responding
<1>2. TCP_Query.fc \in Writes /\ SendReply.exception = "none"
  BY DEF Confirmed
<1>3. Result = "OK"
  <2>1. Result # "OK" => SendReply.exception = Exception(Result)
    BY DEF SendReply
  <2>2. Result \in {"OK", "InvalidSize", "DeviceIsOffLine", "InvalidS7DataItem",
                    "InvalidModbusAddr", "UnSoppotedMopdbusFC"}
    BY <1>1 DEF ServingInv, SiemensInv, Client!TypeOK, Client!ModbusErrorCodes,
                Result
  <2>3. Result # "OK" => Exception(Result) # "none"
    BY <2>2 DEF Exception
  <2> QED
    BY <1>2, <2>1, <2>3
<1>4. handler = "called" /\ result = "OK"
  BY <1>1, <1>2, <1>3, FunctionCodes DEF Result
<1> QED
  BY <1>2, <1>4 DEF CallMade

\* What a reply does to the image.
LEMMA ReplyCases ==
    ASSUME ServingInv, Respond
    PROVE  \/ CallMade /\ TCP_Query.fc \in Reads /\ tab' = Copied(TCP_Query)
           \/ CallMade /\ TCP_Query.fc \in Writes /\ tab' = Stored(TCP_Query)
           \/ tab' = tab
<1>1. tab' = IF Confirmed THEN Stored(TCP_Query) ELSE Image
  BY DEF Respond
<1>2. handler \in {"called", "not_called"} /\ modPc = "idle"
  BY DEF Respond, Responding
<1>3. CASE Confirmed
  BY <1>1, <1>3, ConfirmedCall DEF Respond
<1>4. CASE ~Confirmed /\ Image # tab
  <2>1. handler = "called" /\ result = "OK" /\ TCP_Query.fc \in Reads
        /\ tab' = Copied(TCP_Query)
    BY <1>1, <1>4 DEF Image
  <2> QED
    BY <2>1 DEF CallMade, Respond
<1> QED
  BY <1>1, <1>3, <1>4

\* A step that makes no reply leaves the image alone once it is there.
LEMMA ImageFrame ==
    ASSUME [Next]_vars
    PROVE  \/ Respond
           \/ StartServer
           \/ tab' = tab /\ (handler' = "starting" <=> handler = "starting")
<1>1. CASE Background \/ CallStep \/ BuildTables
  BY <1>1 DEF Background, CallStep, BuildTables, handlerVars
<1>2. CASE UNCHANGED vars
  BY <1>2 DEF vars, handlerVars
<1>3. ASSUME NEW q \in Queries, ReceiveAddressed(q) \/ ReceiveOther(q)
      PROVE  tab' = tab /\ (handler' = "starting" <=> handler = "starting")
  BY <1>3 DEF ReceiveAddressed, ReceiveOther
<1> QED
  BY <1>1, <1>2, <1>3 DEF Next

LEMMA FilledStep ==
    ServingInv /\ ImageSizes /\ ImageFilled /\ [Next]_vars => ImageFilled'
<1> SUFFICES ASSUME ServingInv, ImageSizes, ImageFilled, [Next]_vars PROVE ImageFilled'
  OBVIOUS
<1>1. CASE tab' = tab /\ (handler' = "starting" <=> handler = "starting")
  BY <1>1 DEF ImageFilled, Filled
<1>2. CASE StartServer
  <2>1. /\ tab' = [bits            |-> Zeros(DeviceMemory'.bits),
                   input_bits      |-> Zeros(DeviceMemory'.input_bits),
                   registers       |-> Zeros(2 * DeviceMemory'.registers),
                   input_registers |-> Zeros(2 * DeviceMemory'.input_registers)]
    BY <1>2 DEF StartServer
  <2>2. \A p \in Parts : \A n : Zeros(n) \in [DOMAIN Zeros(n) -> Cells(p)]
    <3>1. \A p \in Parts : 0 \in Cells(p)
      BY DEF Cells, Byte
    <3> QED
      BY <3>1 DEF Zeros
  <2>3. \A p \in Parts : \E n : tab'[p] = Zeros(n)
    BY <2>1 DEF Parts
  <2> QED
    BY <2>2, <2>3 DEF ImageFilled, Filled
<1>3. CASE Respond
  <2>1. DOMAIN tab = Parts /\ Filled(tab)
    BY <1>3 DEF Respond, Responding, ImageSizes, ImageFilled
  <2>2. ASSUME CallMade, TCP_Query.fc \in Reads, tab' = Copied(TCP_Query)
        PROVE  Filled(tab')
    BY <2>1, <2>2, CopiedFills
  <2>3. ASSUME CallMade, TCP_Query.fc \in Writes, tab' = Stored(TCP_Query)
        PROVE  Filled(tab')
    <3>1. TCP_Query \in Kept
      BY <2>3, CallOfServing DEF CallMade
    <3> QED
      BY <2>1, <2>3, <3>1, StoredFills
  <2>4. Filled(tab')
    BY <1>3, <2>1, <2>2, <2>3, ReplyCases
  <2> QED
    BY <2>4 DEF ImageFilled, Filled
<1> QED
  BY <1>1, <1>2, <1>3, ImageFrame

\* Sizes and contents together are the types of the image.
LEMMA ImageTypes == ServingInv /\ ImageSizes /\ ImageFilled => TypeOK
<1> SUFFICES ASSUME ServingInv, ImageSizes, ImageFilled PROVE TypeOK
  OBVIOUS
<1>1. NoQuery \notin Queries
  <2>1. NoQuery.fc = 256
    BY DEF NoQuery
  <2>2. ASSUME NEW q \in Queries PROVE q.fc # 256
    <3>1. PICK c \in 0 .. 255 : c = q.fc
      BY QueriesAssumption DEF Byte
    <3> QED
      BY <3>1
  <2> QED
    BY <2>1, <2>2
<1>2. /\ handler \in {"starting", "idle", "called", "not_called"}
      /\ TCP_Query \in Queries \cup {NoQuery}
      /\ handler \in {"starting", "idle"} <=> TCP_Query = NoQuery
      /\ handler # "called" => modPc = "idle"
      /\ handler = "starting" <=> DeviceMemory = Map!NoMemory
  BY <1>1 DEF ServingInv, HandlerInv
<1>3. ASSUME handler # "starting"
      PROVE  /\ tab.bits \in [1 .. Len(Coils) -> {0, 1}]
             /\ tab.input_bits \in [1 .. Len(InputContacts) -> {0, 1}]
             /\ tab.registers \in [1 .. 2 * CurrentHoldingAddress -> Byte]
             /\ tab.input_registers \in [1 .. 2 * CurrentInpuutRegsAddress -> Byte]
  <2>1. DeviceMemory = [bits            |-> Len(Coils),
                        input_bits      |-> Len(InputContacts),
                        registers       |-> CurrentHoldingAddress,
                        input_registers |-> CurrentInpuutRegsAddress]
    BY <1>2, <1>3 DEF ServingInv, Tables!IndInv, Tables!MemoryInv,
                      Tables!NoMemory, Map!NoMemory
  <2> QED
    BY <1>3, <2>1 DEF ImageSizes, ImageFilled, Filled, Parts, Cells
<1> QED
  BY <1>2, <1>3 DEF TypeOK

LEMMA ImageTable ==
    ASSUME ServingInv, ImageSizes, ImageFilled, handler # "starting", NEW p \in Parts
    PROVE  tab[p] \in Seq(Cells(p))
<1>1. /\ tab.bits \in [1 .. Len(Coils) -> {0, 1}]
      /\ tab.input_bits \in [1 .. Len(InputContacts) -> {0, 1}]
      /\ tab.registers \in [1 .. 2 * CurrentHoldingAddress -> Byte]
      /\ tab.input_registers \in [1 .. 2 * CurrentInpuutRegsAddress -> Byte]
  BY ImageTypes DEF TypeOK
<1>2. /\ Coils \in Seq(Tables!Items)
      /\ InputContacts \in Seq(Tables!Items \cup {Tables!SIEMENS_STATUS})
      /\ CurrentHoldingAddress \in Nat /\ CurrentInpuutRegsAddress \in Nat
  BY DEF ServingInv, Tables!IndInv, Tables!TablesInv, Tables!SeqInv
<1>3. /\ Len(Coils) \in Nat /\ Len(InputContacts) \in Nat
      /\ 2 * CurrentHoldingAddress \in Nat /\ 2 * CurrentInpuutRegsAddress \in Nat
  BY <1>2
<1>4. PICK n \in Nat : tab[p] \in [1 .. n -> Cells(p)]
  <2>1. CASE p = "bits"
    BY <1>1, <1>3, <2>1 DEF Cells
  <2>2. CASE p = "input_bits"
    BY <1>1, <1>3, <2>2 DEF Cells
  <2>3. CASE p = "registers"
    BY <1>1, <1>3, <2>3 DEF Cells
  <2>4. CASE p = "input_registers"
    BY <1>1, <1>3, <2>4 DEF Cells
  <2> QED
    BY <2>1, <2>2, <2>3, <2>4 DEF Parts
<1> QED
  BY <1>4

\* The image keeps the sizes of the tables and holds bits and bytes, and a call is
\* in progress only while a query is being served, for every configuration and
\* whatever is read, written and refused (ModbusServer.cpp:49-108, 127-524).
THEOREM GatewayTypeCorrect == Spec /\ []CallsAreRequests => []TypeOK
<1>1. Init => ImageFilled
  BY DEF Init, ImageFilled
<1>2. Spec /\ []CallsAreRequests => [](ServingInv /\ ImageSizes /\ ImageFilled)
  BY <1>1, Serving, ImageKeepsSizes, FilledStep, PTL DEF Spec
<1> QED
  BY <1>2, ImageTypes, PTL

-----------------------------------------------------------------------------
(* Windows of registers.                                                   *)

\* No register item of the configuration has one byte only.  With such items a
\* window need not be aligned: they are read as two bytes each and written as one,
\* although they take no register.
NoByteItems == \A i \in PLC!Items : Config[i + 1].type = "BOOL" \/ PLC!size(i) # 1

LEMMA NoByteTables == ASSUME NoByteItems, Tables!IndInv PROVE Tables!NoByteRegisters
BY TableItems, SameSizes DEF NoByteItems, Tables!NoByteRegisters

\* The n-th item of the call lies at address a, and there, counted in bytes from
\* the query's address, a read puts it and a write takes it from.
PlacedIn(n, a) ==
    /\ a \in DOMAIN Table(TCP_Query) /\ a \in Nat /\ TCP_Query.address <= a
    /\ request.ids[n] = Table(TCP_Query)[a]
    /\ Tables!ReadOffset(request.ids, n) = 2 * (a - TCP_Query.address)
    /\ Client!PayloadOffset(request.ids, n) = 2 * (a - TCP_Query.address)
    /\ 2 * (a - TCP_Query.address) + PLC!size(request.ids[n]) <= 2 * TCP_Query.count

LEMMA WindowOfCall ==
    ASSUME NoByteItems, ServingInv, handler = "called", Words(TCP_Query),
           NEW w \in {256, 65536}, Client!SizeMatches(request, w)
    PROVE  /\ request.ids \in Seq(PLC!Items)
           /\ \A n \in DOMAIN request.ids : \E a : PlacedIn(n, a)
           /\ \A a \in Window(TCP_Query) \cap DOMAIN Table(TCP_Query) :
                \E n \in DOMAIN request.ids : PlacedIn(n, a)
<1>1. /\ TCP_Query \in Kept /\ Addressed(TCP_Query)
      /\ request = RequestOf(TCP_Query) /\ WellFormed(request)
      /\ TCP_Query.fc \in Reads \cup Writes
  BY CallOfServing
<1>a. TCP_Query.address \in Nat /\ TCP_Query.count \in Nat \ {0}
  BY <1>1, KeptNumbers
<1>b. PICK address \in Nat : address = TCP_Query.address
  BY <1>a
<1>c. PICK count \in Nat \ {0} : count = TCP_Query.count
  BY <1>a
<1>d. PICK table : table = Table(TCP_Query)
  OBVIOUS
<1>e. PICK ids : ids = request.ids
  OBVIOUS
<1>2. /\ table = Table(TCP_Query) /\ address = TCP_Query.address
      /\ count = TCP_Query.count /\ ids = request.ids
  BY <1>b, <1>c, <1>d, <1>e
<1>3. ids = Tables!RegisterIds(table, address, count) /\ request.count = count
      /\ request.op \in {"readBytes", "writeBytes"} /\ address \in DOMAIN table
  <2>1. TCP_Query.fc # WRITE_MULTIPLE_COILS
    BY FunctionCodes DEF Words
  <2>2. ids = Map!RegisterIds(Table(TCP_Query), address, count)
    BY <1>1, <1>2, <2>1 DEF RequestOf, ResourceIds
  <2>3. request.op \in {"readBytes", "writeBytes"}
    BY <1>1, FunctionCodes DEF Words, RequestOf, Op
  <2> QED
    BY <1>1, <1>2, <2>2, <2>3, SameWindows DEF RequestOf, Addressed
<1>4. count <= 125
  BY <1>1, <1>2, <1>3 DEF WellFormed
<1>5. PICK current \in Nat, kind \in {"S7HOLDREG", "S7INPUTREG"} :
        /\ Tables!MapInv(table, current, ResourceId, kind)
        /\ Tables!Packed(table, current, ResourceId, kind)
  BY <1>2, NoByteTables, WordTables DEF ServingInv
<1>6. config \in {[n \in DOMAIN Config |->
                     [type |-> Config[n].type, access |-> Config[n].access]]}
  BY DEF ServingInv, Tables!IndInv, Tables!TablesInv
<1>7. ids \in Seq(PLC!Items)
  <2>1. ResourceIds(TCP_Query) \in Seq(PLC!Items)
    BY <1>2, <1>3, WordIds DEF ServingInv
  <2>2. ids = ResourceIds(TCP_Query)
    BY <1>1, <1>2 DEF RequestOf
  <2> QED
    BY <2>1, <2>2
<1>8. PICK found : found = Tables!Found(table, address, count)
  OBVIOUS
<1>9. /\ Tables!InWindow(found, table, address, count)
      /\ DOMAIN ids = 1 .. Len(found) /\ DOMAIN found = 1 .. Len(found)
      /\ Len(found) \in Nat
      /\ \A n \in DOMAIN ids :
           /\ found[n] \in DOMAIN table /\ found[n] \in Nat
           /\ ids[n] = table[found[n]]
  <2>1. Tables!OfWindow(found, ids, table, address, count, current, kind)
    BY <1>3, <1>5, <1>6, <1>8, ConfigShape, Tables!IdsOfWindow
  <2> QED
    BY <2>1 DEF Tables!OfWindow
<1>10. Tables!WindowAligned(table, address, count)
  <2>1. Len(ids) \in Nat
    BY <1>7
  <2>2. Client!PayloadOffset(ids, Len(ids) + 1) = Tables!Bytes(ids, Len(ids))
    BY <1>7, <2>1, OffsetsAgree DEF ServingInv
  <2>3. Client!PayloadOffset(ids, Len(ids) + 1) = (2 * count) % w
    BY <1>2, <1>3 DEF Client!SizeMatches
  <2>4. (2 * count) % w = 2 * count
    BY <1>4
  <2>5. Tables!Accepted(table, address, count)
    BY <1>3, <2>2, <2>3, <2>4 DEF Tables!Accepted
  <2>6. Tables!NoByteRegisters
    BY NoByteTables DEF ServingInv
  <2> QED
    BY <1>5, <1>6, <2>5, <2>6, ConfigShape, Tables!WindowIsAligned
<1>11. ASSUME NEW n \in DOMAIN ids PROVE PlacedIn(n, found[n])
  <2>1. /\ Tables!ReadOffset(ids, n) = 2 * (found[n] - address)
        /\ Tables!WriteOffset(ids, n) = 2 * (found[n] - address)
        /\ Tables!ReadOffset(ids, n) + Tables!size(ids[n]) <= 2 * count
    BY <1>3, <1>9, <1>10 DEF Tables!WindowAligned
  <2>2. PICK m \in Nat : n = m + 1 /\ m = n - 1 /\ m <= Len(ids)
    <3>1. n - 1 \in Nat /\ n = (n - 1) + 1 /\ n - 1 <= Len(ids)
      BY <1>7
    <3> QED
      BY <3>1
  <2>3. Client!PayloadOffset(ids, n) = Tables!WriteOffset(ids, n)
    BY <1>7, <2>2, OffsetsAgree DEF ServingInv, Tables!WriteOffset
  <2>4. Tables!size(ids[n]) = PLC!size(ids[n])
    BY <1>7, MapSizes DEF ServingInv
  <2>5. address <= found[n]
    BY <1>9 DEF Tables!InWindow
  <2> QED
    BY <1>2, <1>9, <2>1, <2>3, <2>4, <2>5 DEF PlacedIn
<1>12. ASSUME NEW a \in Window(TCP_Query) \cap DOMAIN Table(TCP_Query)
       PROVE  \E n \in DOMAIN request.ids : PlacedIn(n, a)
  <2>1. address <= a /\ a < address + count /\ a \in DOMAIN table
    BY <1>2 DEF Window
  <2>2. PICK n \in DOMAIN found : found[n] = a
    BY <1>9, <2>1 DEF Tables!InWindow
  <2> QED
    BY <1>2, <1>9, <1>11, <2>2
<1> QED
  BY <1>2, <1>7, <1>11, <1>12

-----------------------------------------------------------------------------
(* Writes.                                                                 *)

\* A single coil is written with what the client sent for it.
LEMMA CoilReached ==
    ASSUME CallMade, TCP_Query.fc = WRITE_SINGLE_COIL,
           NEW w \in WriteItems(TCP_Query)
    PROVE  Reached(w)
<1>1. /\ TCP_Query \in Kept /\ Addressed(TCP_Query)
      /\ request = RequestOf(TCP_Query)
  BY CallOfServing DEF CallMade
<1>2. w = <<Coils[TCP_Query.address + 1], Writedata(TCP_Query)>>
  BY FunctionCodes DEF WriteItems
<1>3. /\ request.op = "writeBits" /\ request.ids = ResourceIds(TCP_Query)
      /\ request.data = Writedata(TCP_Query) /\ TCP_Query.count = 1
      /\ Table(TCP_Query) = Coils /\ TCP_Query.fc \in BitReads \cup CoilWrites
      /\ TCP_Query.fc # WRITE_MULTIPLE_COILS
  BY <1>1, FunctionCodes, KeptNumbers DEF RequestOf, Op, Table
<1>4. /\ Len(request.ids) = 1 /\ 1 \in DOMAIN request.ids
      /\ request.ids[1] = Coils[TCP_Query.address + 1]
  <2>1. /\ ResourceIds(TCP_Query) \in Seq(PLC!Items \cup {PLC!SIEMENS_STATUS})
        /\ Len(ResourceIds(TCP_Query)) = 1
        /\ \A n \in DOMAIN ResourceIds(TCP_Query) :
             ResourceIds(TCP_Query)[n] = Coils[TCP_Query.address + n]
    BY <1>1, <1>3, BitIds DEF CallMade, ServingInv
  <2>2. 1 \in DOMAIN ResourceIds(TCP_Query)
    BY <2>1
  <2> QED
    BY <1>3, <2>1, <2>2
<1>5. PLC!Payload(request, 1) = Writedata(TCP_Query)
  <2>1. Writedata(TCP_Query) \in {<<0>>, <<1>>}
    BY DEF Writedata
  <2>2. PLC!Payload(request, 1) = <<Writedata(TCP_Query)[1] % 2>>
    BY <1>3, <1>4 DEF PLC!Payload
  <2> QED
    BY <2>1, <2>2
<1>6. request.ids[1] \in applied
  <2>1. applied = Client!RequestItems
    BY <1>3 DEF CallMade, Responding, ServingInv, SiemensInv,
                Client!WriteAnswerIsTrue, Client!WriteOps
  <2> QED
    BY <1>4, <2>1 DEF Client!RequestItems
<1> QED
  BY <1>2, <1>4, <1>5, <1>6 DEF Reached

\* Registers are: the data of a write lies in the query where its item lies in the
\* window.
LEMMA RegisterReached ==
    ASSUME NoByteItems, CallMade, TCP_Query.fc \in WordWrites,
           NEW w \in WriteItems(TCP_Query)
    PROVE  Reached(w)
<1>1. /\ TCP_Query \in Kept /\ request = RequestOf(TCP_Query)
      /\ request \in Requests
  BY CallOfServing DEF CallMade
<1>2. /\ request.op = "writeBytes" /\ request.data = TCP_Query.data
      /\ Words(TCP_Query)
  BY <1>1, FunctionCodes DEF RequestOf, Op, Writedata, Words
<1>3. PICK a \in Window(TCP_Query) \cap DOMAIN Table(TCP_Query) :
        w = <<Table(TCP_Query)[a],
              SubSeq(TCP_Query.data, 2 * (a - TCP_Query.address) + 1,
                     2 * (a - TCP_Query.address) + Map!size(Table(TCP_Query)[a]))>>
  BY FunctionCodes DEF WriteItems, WordItems
<1>4. Client!SizeMatches(request, 65536) /\ applied = Client!RequestItems
  BY <1>2 DEF CallMade, Responding, ServingInv, SiemensInv, Client!Answers,
              Client!WriteAnswerIsTrue, Client!WriteOps
<1>5. /\ request.ids \in Seq(PLC!Items)
      /\ \E n \in DOMAIN request.ids : PlacedIn(n, a)
  BY <1>2, <1>4, WindowOfCall DEF CallMade
<1>6. PICK n \in DOMAIN request.ids : PlacedIn(n, a)
  BY <1>5
<1>7. /\ request.ids[n] = Table(TCP_Query)[a]
      /\ Client!PayloadOffset(request.ids, n) = 2 * (a - TCP_Query.address)
  BY <1>6 DEF PlacedIn
<1>8. Client!size(request.ids[n]) = Map!size(Table(TCP_Query)[a])
  BY <1>5, <1>7, MapSizes, SameSizes DEF CallMade, ServingInv
<1>9. PLC!Payload(request, n) = w[2]
  BY <1>1, <1>2, <1>3, <1>4, <1>7, <1>8, PayloadPiece, SamePayloads
<1>10. request.ids[n] \in applied
  BY <1>4 DEF Client!RequestItems
<1> QED
  BY <1>3, <1>7, <1>9, <1>10 DEF Reached

\* A write of registers or of a single coil that is confirmed has stored in the
\* controller, item for item, what the client sent for it: whatever the run thread,
\* the controller and the link do during the call, and, for registers, for every
\* configuration whose register items have two bytes or four (WriteRegisters,
\* WriteSingleCoil and WriteSingleRegister, ModbusServer.cpp:308-398;
\* WriteBytesFromModbus, PLC.cpp).
THEOREM WritesReachTheirItems ==
    Spec /\ []CallsAreRequests
      => []((Words(TCP_Query) => NoByteItems) => ConfirmedWriteReached)
<1>1. ServingInv => ((Words(TCP_Query) => NoByteItems) => ConfirmedWriteReached)
  <2> SUFFICES ASSUME ServingInv, Words(TCP_Query) => NoByteItems,
                      Responding, Confirmed,
                      TCP_Query.fc # WRITE_MULTIPLE_COILS,
                      NEW w \in WriteItems(TCP_Query)
               PROVE  Reached(w)
    BY DEF ConfirmedWriteReached
  <2>1. CallMade /\ TCP_Query.fc \in Writes
    BY ConfirmedCall
  <2>2. \/ TCP_Query.fc = WRITE_SINGLE_COIL
        \/ TCP_Query.fc \in WordWrites /\ NoByteItems
    BY <2>1, FunctionCodes DEF Words
  <2> QED
    BY <2>1, <2>2, CoilReached, RegisterReached
<1> QED
  BY <1>1, Serving, PTL

-----------------------------------------------------------------------------
(* Replies.                                                                *)

\* A read that is answered after a call is answered with what the call delivered.
LEMMA AnswerOfCall ==
    ASSUME CallMade, Answered, ImageSizes, ImageFilled
    PROVE  SendReply.values = IF Words(TCP_Query)
                              THEN SwapPairs(SubSeq(ByteData, 1, 2 * TCP_Query.count))
                              ELSE BitData
<1> DEFINE p == Part(TCP_Query)
           new == IF Words(TCP_Query)
                  THEN SubSeq(ByteData, 1, 2 * TCP_Query.count) ELSE BitData
           place == Place(TCP_Query)
<1>1. TCP_Query \in Kept /\ TCP_Query.fc \in Reads
  BY CallOfServing DEF CallMade, Answered
<1>2. p \in Parts /\ (Words(TCP_Query) <=> p \in {"registers", "input_registers"})
      /\ (Words(TCP_Query) => TCP_Query.fc \in WordReads)
      /\ (~Words(TCP_Query) => TCP_Query.fc \in BitReads)
  BY <1>1, PartOfQuery, FunctionCodes
<1>3. PICK address \in Nat, count \in Nat \ {0} :
        address = TCP_Query.address /\ count = TCP_Query.count
  <2>1. TCP_Query.address \in Nat /\ TCP_Query.count \in Nat \ {0}
    BY <1>1, KeptNumbers
  <2> QED
    BY <2>1
<1>4. PICK width \in {1, 2} : width = Width(TCP_Query)
                              /\ (Words(TCP_Query) <=> width = 2)
  BY DEF Width
<1>5. PICK old \in Seq(Cells(p)) : old = tab[p]
  BY <1>2, ImageTable DEF CallMade
<1>6. /\ SendReply.values = Answer(Image, TCP_Query)
      /\ place + width * count <= Len(old)
  <2>1. SendReply.exception = "none" /\ TCP_Query.fc \in Reads
    BY DEF Answered
  <2>2. InImage(TCP_Query)
    BY <2>1 DEF SendReply, CallMade, Result, Refusal
  <2> QED
    BY <1>3, <1>4, <1>5, <2>1, <2>2 DEF SendReply, InImage
<1>7. Image[p] = Overwrite(old, place, new)
  <2>1. Image = Copied(TCP_Query) /\ DOMAIN tab = Parts
    BY <1>1 DEF Image, CallMade, ImageSizes
  <2> QED
    BY <1>2, <1>5, <2>1 DEF Copied
<1>8. new \in Seq(Cells(p)) /\ Len(new) = width * count
  <2>1. CASE Words(TCP_Query)
    <3>1. ByteData \in Value /\ 2 * count <= Len(ByteData)
      <4>1. request.count = count
        BY <1>3, CallOfServing DEF CallMade, RequestOf
      <4> QED
        BY <1>2, <2>1, <4>1, BytesDelivered
    <3>2. PICK m \in Nat : m = 2 * count /\ 0 <= m /\ m - 0 = m
      OBVIOUS
    <3>3. SubSeq(ByteData, 0 + 1, m) \in Value /\ Len(SubSeq(ByteData, 0 + 1, m)) = m
      BY <3>1, <3>2, PieceType
    <3>4. new = SubSeq(ByteData, 0 + 1, m)
      BY <1>3, <2>1, <3>2
    <3>5. Cells(p) = Byte
      BY <1>2, <2>1 DEF Cells
    <3> QED
      BY <1>4, <2>1, <3>2, <3>3, <3>4, <3>5 DEF Value
  <2>2. CASE ~Words(TCP_Query)
    <3>1. DOMAIN BitData = 1 .. count /\ \A n \in 1 .. count : BitData[n] \in {0, 1}
      BY <1>2, <1>3, <2>2, BitsDelivered
    <3>2. BitData \in [1 .. count -> {0, 1}]
      BY <3>1 DEF BitData
    <3>3. BitData \in Seq({0, 1}) /\ Len(BitData) = count
      BY <3>2
    <3>4. Cells(p) = {0, 1}
      BY <1>2, <2>2 DEF Cells, Parts
    <3> QED
      BY <1>4, <2>2, <3>3, <3>4
  <2> QED
    BY <2>1, <2>2
<1>9. PICK start \in Nat, end \in Nat :
        /\ start = place /\ end = start + width * count
  BY <1>3, <1>4 DEF Place
<1>10. SubSeq(Image[p], start + 1, end) = new
  <2> HIDE DEF new, place, p
  <2>1. end = start + Len(new) /\ end <= Len(old)
    BY <1>6, <1>8, <1>9
  <2>2. Image[p] = Overwrite(old, start, new)
    BY <1>7, <1>9
  <2>3. PICK S : S = Cells(p) /\ old \in Seq(S) /\ new \in Seq(S)
    BY <1>5, <1>8
  <2>4. SubSeq(Overwrite(old, start, new), start + 1, end) = new
    BY <2>1, <2>3, OverwriteRead
  <2> QED
    BY <2>2, <2>4
<1> QED
  BY <1>3, <1>4, <1>6, <1>9, <1>10 DEF Answer
\* A register item has the bytes of whole registers.
LEMMA EvenSizes ==
    ASSUME NoByteItems, NEW i \in PLC!Items, Config[i + 1].type # "BOOL"
    PROVE  \E e \in {1, 2} : PLC!size(i) = 2 * e
<1>1. PLC!size(i) \in {2, 4}
  BY SameSizes DEF NoByteItems
<1> QED
  BY <1>1

\* What a call has delivered for an item is where the item's address says.
LEMMA EntryPlaced ==
    ASSUME NoByteItems, CallMade, TCP_Query.fc \in WordReads,
           NEW n \in DOMAIN request.ids, NEW a, PlacedIn(n, a)
    PROVE  \E e \in {1, 2} :
             /\ PLC!size(request.ids[n]) = 2 * e /\ request.ids[n] \in PLC!Items
             /\ PieceAt(Readdata[n], e, SubSeq(ByteData, 1, 2 * TCP_Query.count),
                        TCP_Query.count, a - TCP_Query.address)
<1>1. TCP_Query.fc \in WordReads /\ TCP_Query \in Kept /\ Addressed(TCP_Query)
      /\ request = RequestOf(TCP_Query) /\ Words(TCP_Query)
  BY CallOfServing, FunctionCodes DEF Words, CallMade
<1>2. request.ids \in Seq(PLC!Items)
  BY WordsDelivered
<1>4. PlacedIn(n, a)
  OBVIOUS
<1>5. PICK i \in PLC!Items : i = request.ids[n]
  BY <1>2
<1>6. PICK address \in Nat, count \in Nat \ {0} :
        address = TCP_Query.address /\ count = TCP_Query.count
  <2>1. TCP_Query.address \in Nat /\ TCP_Query.count \in Nat \ {0}
    BY <1>1, KeptNumbers
  <2> QED
    BY <2>1
<1>7. PICK e \in {1, 2} : PLC!size(i) = 2 * e
  <2>1. Config[i + 1].type # "BOOL"
    <3>1. TCP_Query.address \in DOMAIN Table(TCP_Query)
      BY <1>1 DEF Addressed
    <3>2. request.ids = ResourceIds(TCP_Query)
      BY <1>1 DEF RequestOf
    <3> QED
      BY <1>1, <1>5, <1>6, <3>1, <3>2, WordIds DEF CallMade, ServingInv
  <2> QED
    BY <2>1, EvenSizes
<1>8. PICK d \in Nat : /\ d = a - address /\ d + e <= count
                       /\ Tables!ReadOffset(request.ids, n) = 2 * d
                       /\ request.ids[n] = Table(TCP_Query)[a]
  <2>1. /\ a \in Nat /\ address <= a /\ request.ids[n] = Table(TCP_Query)[a]
        /\ Tables!ReadOffset(request.ids, n) = 2 * (a - address)
        /\ 2 * (a - address) + 2 * e <= 2 * count
    BY <1>4, <1>5, <1>6, <1>7 DEF PlacedIn
  <2>2. PICK d \in Nat : d = a - address
    BY <2>1
  <2> QED
    BY <2>1, <2>2
<1>9. PICK piece \in Value : piece = Readdata[n] /\ Len(piece) = 2 * e
  BY <1>1, <1>5, <1>7, WordsDelivered DEF ItemValues
<1>10. PICK bytes \in Value :
         /\ bytes = SubSeq(ByteData, 1, 2 * count) /\ Len(bytes) = 2 * count
         /\ \A k \in 1 .. 2 * count : bytes[k] = ByteData[k]
  <2>1. ByteData \in Value /\ 2 * count <= Len(ByteData)
    <3>1. request.count = count
      BY <1>1, <1>6 DEF RequestOf
    <3> QED
      BY <1>1, <3>1, BytesDelivered
  <2>2. PICK data \in Value, m \in Nat : data = ByteData /\ m = 2 * count
    BY <2>1
  <2>3. /\ SubSeq(data, 1, m) \in Value /\ Len(SubSeq(data, 1, m)) = m
        /\ \A k \in 1 .. m : SubSeq(data, 1, m)[k] = data[k]
    BY <2>1, <2>2, FirstBytes
  <2> QED
    BY <2>2, <2>3
<1>11. \A k \in 1 .. 2 * e : piece[k] = bytes[2 * d + k]
  <2>1. \A k \in 1 .. 2 * e : ByteData[2 * d + k] = piece[k]
    <3>1. \A k \in 1 .. Len(Readdata[n]) :
            ByteData[Tables!ReadOffset(request.ids, n) + k] = Readdata[n][k]
      BY <1>1, BytesDelivered
    <3> QED
      BY <1>8, <1>9, <3>1
  <2>2. \A k \in 1 .. 2 * e : 2 * d + k \in 1 .. 2 * count
    BY <1>8
  <2> QED
    BY <1>10, <2>1, <2>2
<1>12. PieceAt(piece, e, bytes, count, d)
  <2>1. e \in Nat /\ count \in Nat
    OBVIOUS
  <2> QED
    BY <1>8, <1>9, <1>10, <1>11, <2>1 DEF PieceAt
<1> QED
  BY <1>5, <1>6, <1>7, <1>8, <1>9, <1>10, <1>12

\* So it is in the reply.
LEMMA RegistersCarried ==
    ASSUME NoByteItems, CallMade, Answered, ImageSizes, ImageFilled,
           Words(TCP_Query), NEW a \in Window(TCP_Query) \cap DOMAIN Table(TCP_Query)
    PROVE  \E n \in DOMAIN request.ids :
             /\ request.ids[n] = Table(TCP_Query)[a]
             /\ SwapPairs(Readdata[n]) =
                  SubSeq(SendReply.values, 2 * (a - TCP_Query.address) + 1,
                         2 * (a - TCP_Query.address) + Len(Readdata[n]))
<1>1. TCP_Query.fc \in WordReads
  BY FunctionCodes DEF Words, Answered
<1>2. Client!SizeMatches(request, 256)
  BY <1>1, WordsDelivered
<1>3. \E n \in DOMAIN request.ids : PlacedIn(n, a)
  BY <1>2, WindowOfCall DEF CallMade
<1>4. PICK n \in DOMAIN request.ids : PlacedIn(n, a)
  BY <1>3
<1>5. PICK bytes, d : /\ bytes = SubSeq(ByteData, 1, 2 * TCP_Query.count)
                      /\ d = a - TCP_Query.address
  OBVIOUS
<1>6. PICK e \in {1, 2} : PieceAt(Readdata[n], e, bytes, TCP_Query.count, d)
  BY <1>1, <1>4, <1>5, EntryPlaced
<1>7. PieceSwapped(Readdata[n], e, bytes, d)
  BY <1>6, SwappedPiece
<1>8. SendReply.values = SwapPairs(bytes)
  BY <1>5, AnswerOfCall
<1>9. Len(Readdata[n]) = 2 * e
  BY <1>6 DEF PieceAt
<1>10. SwapPairs(Readdata[n]) =
         SubSeq(SendReply.values, 2 * d + 1, 2 * d + Len(Readdata[n]))
  BY <1>7, <1>8, <1>9 DEF PieceSwapped
<1>11. request.ids[n] = Table(TCP_Query)[a]
  BY <1>4 DEF PlacedIn
<1> QED
  BY <1>5, <1>10, <1>11

\* A read that is answered with data from a call carries at each item's place what
\* the call delivered for that item: for registers, for every configuration whose
\* register items have two bytes or four (ReadCoils, ReadInputBits,
\* ReadHoldingRegs and ReadInputRegs, ModbusServer.cpp:127-281; SendReply,
\* ModbusServer.cpp:400-443).
THEOREM RepliesCarryTheirItems ==
    Spec /\ []CallsAreRequests
      => []((Words(TCP_Query) => NoByteItems) => ReplyCarriesItems)
<1>1. Init => ImageFilled
  BY DEF Init, ImageFilled
<1>2. ServingInv /\ ImageSizes /\ ImageFilled
        => ((Words(TCP_Query) => NoByteItems) => ReplyCarriesItems)
  <2> SUFFICES ASSUME ServingInv, ImageSizes, ImageFilled,
                      Words(TCP_Query) => NoByteItems,
                      Responding, handler = "called", Answered
               PROVE  ReplyCarriesItems
    BY DEF ReplyCarriesItems
  <2>1. CallMade
    <3>1. Result # "OK" => SendReply.exception = Exception(Result)
      BY DEF SendReply
    <3>2. Result \in {"OK", "InvalidSize", "DeviceIsOffLine", "InvalidS7DataItem",
                      "InvalidModbusAddr", "UnSoppotedMopdbusFC"} /\ Result = result
      BY DEF ServingInv, SiemensInv, Client!TypeOK, Client!ModbusErrorCodes, Result
    <3>3. Result # "OK" => Exception(Result) # "none"
      BY <3>2 DEF Exception
    <3> QED
      BY <3>1, <3>2, <3>3 DEF CallMade, Answered
  <2>2. CASE Words(TCP_Query)
    BY <2>1, <2>2, RegistersCarried DEF ReplyCarriesItems
  <2>3. CASE ~Words(TCP_Query)
    <3>1. TCP_Query.fc \in BitReads /\ TCP_Query \in Kept
      BY <2>1, <2>3, CallOfServing, PartOfQuery, FunctionCodes DEF CallMade, Answered
    <3>2. PICK address \in Nat, count \in Nat \ {0} :
            address = TCP_Query.address /\ count = TCP_Query.count
      <4>1. TCP_Query.address \in Nat /\ TCP_Query.count \in Nat \ {0}
        BY <3>1, KeptNumbers
      <4> QED
        BY <4>1
    <3>3. ASSUME NEW a \in Window(TCP_Query)
          PROVE  \E n \in DOMAIN request.ids :
                   /\ request.ids[n] = Table(TCP_Query)[a + 1]
                   /\ Readdata[n] = <<SendReply.values[a - TCP_Query.address + 1]>>
      <4>1. PICK n \in 1 .. count : n = a - address + 1 /\ address + n = a + 1
        BY <3>2 DEF Window
      <4>2. SendReply.values = BitData
        BY <2>1, <2>3, AnswerOfCall
      <4>3. /\ n \in DOMAIN request.ids /\ Readdata[n] = <<BitData[n]>>
            /\ request.ids[n] = Table(TCP_Query)[address + n]
        BY <2>1, <3>1, <3>2, BitsDelivered
      <4> QED
        BY <3>2, <4>1, <4>2, <4>3
    <3> QED
      BY <2>3, <3>3 DEF ReplyCarriesItems
  <2> QED
    BY <2>2, <2>3
<1> QED
  BY <1>1, <1>2, Serving, ImageKeepsSizes, FilledStep, PTL DEF Spec

-----------------------------------------------------------------------------
(* The image of the registers.                                             *)

RegisterParts == {"registers", "input_registers"}
RegisterTable(p) == IF p = "input_registers" THEN InputRegs ELSE HoldingRegs
WholePart(p) == Whole(tab[p], RegisterTable(p))
WholeInv == handler # "starting" => \A p \in RegisterParts : WholePart(p)

\* An item's registers lie among those in use and before those of the next item.
RegistersUsed(p) ==
    IF p = "input_registers" THEN CurrentInpuutRegsAddress ELSE CurrentHoldingAddress
Spans(p, a, e) ==
    /\ a \in Nat /\ RegisterTable(p)[a] \in PLC!Items
    /\ e \in {1, 2} /\ PLC!size(RegisterTable(p)[a]) = 2 * e
    /\ Map!size(RegisterTable(p)[a]) = 2 * e
    /\ a + e <= RegistersUsed(p)
    /\ \A b \in DOMAIN RegisterTable(p) : b \in Nat /\ (a < b => a + e <= b)

LEMMA ItemSpans ==
    ASSUME NoByteItems, Tables!IndInv,
           NEW p \in RegisterParts, NEW a \in DOMAIN RegisterTable(p)
    PROVE  \E e : Spans(p, a, e)
<1>1. PICK table : table = RegisterTable(p)
  OBVIOUS
<1>2. PICK current \in Nat, kind \in {"S7HOLDREG", "S7INPUTREG"} :
        /\ Tables!MapInv(table, current, ResourceId, kind)
        /\ current = RegistersUsed(p)
  <2>1. /\ CurrentHoldingAddress \in Nat /\ CurrentInpuutRegsAddress \in Nat
        /\ Tables!MapInv(HoldingRegs, CurrentHoldingAddress, ResourceId, "S7HOLDREG")
        /\ Tables!MapInv(InputRegs, CurrentInpuutRegsAddress, ResourceId, "S7INPUTREG")
    BY DEF Tables!IndInv, Tables!TablesInv
  <2> QED
    BY <1>1, <2>1 DEF RegisterTable, RegistersUsed
<1>3. /\ DOMAIN table \subseteq Nat /\ table[a] \in Tables!Items
      /\ Tables!DetermineModbusRegType(Tables!Item(table[a])) = kind
      /\ a + Tables!Registers(table[a]) <= current
      /\ \A b \in DOMAIN table : a < b => a + Tables!Registers(table[a]) <= b
  BY <1>1, <1>2 DEF Tables!MapInv, Tables!RegistersDisjoint
<1>4. PICK i \in PLC!Items : i = table[a] /\ Config[i + 1].type # "BOOL"
  <2>1. table[a] \in PLC!Items
    BY <1>3, TableItems
  <2>2. Tables!Item(table[a]).type # "BOOL"
    BY <1>3 DEF Tables!DetermineModbusRegType
  <2> QED
    BY <2>1, <2>2, TableItems
<1>5. PICK e \in {1, 2} : PLC!size(i) = 2 * e
  BY <1>4, EvenSizes
<1>6. Map!size(i) = 2 * e /\ Tables!Registers(i) = e
  <2>1. (2 * e) \div 2 = e
    OBVIOUS
  <2> QED
    BY <1>5, <2>1, MapSizes
<1>7. Spans(p, a, e)
  BY <1>1, <1>2, <1>3, <1>4, <1>5, <1>6 DEF Spans
<1> QED
  BY <1>7

\* The image has room for the registers in use.
LEMMA ImageHasRoom ==
    ASSUME ServingInv, ImageSizes, ImageFilled, handler # "starting",
           NEW p \in RegisterParts
    PROVE  /\ RegistersUsed(p) \in Nat /\ Len(tab[p]) = 2 * RegistersUsed(p)
           /\ tab[p] \in Value
<1>1. PICK current \in Nat : /\ current = RegistersUsed(p)
                             /\ DOMAIN tab[p] = 1 .. 2 * current
  <2>1. CurrentHoldingAddress \in Nat /\ CurrentInpuutRegsAddress \in Nat
    BY DEF ServingInv, Tables!IndInv, Tables!TablesInv
  <2>2. /\ DOMAIN tab.registers = 1 .. 2 * CurrentHoldingAddress
        /\ DOMAIN tab.input_registers = 1 .. 2 * CurrentInpuutRegsAddress
    BY ImageTypes DEF TypeOK
  <2> QED
    BY <2>1, <2>2 DEF RegistersUsed, RegisterParts
<1>2. tab[p] \in Seq(Cells(p)) /\ Cells(p) = Byte
  BY ImageTable DEF RegisterParts, Parts, Cells
<1>3. 2 * current \in Nat
  OBVIOUS
<1> QED
  BY <1>1, <1>2, <1>3 DEF Value

\* The new bytes at an item's place are a value that is known for it.
KnownAt(new, n, a) ==
    Piece(new, 2 * (a - TCP_Query.address),
          2 * (a - TCP_Query.address) + PLC!size(request.ids[n]))
      \in Known(request.ids[n])

\* If so, the registers of a window can be overwritten: items inside become known
\* values, and the others are not touched, the one before the window included.
LEMMA WindowStaysWhole ==
    ASSUME NoByteItems, ServingInv, ImageSizes, ImageFilled, WholeInv,
           handler = "called", Words(TCP_Query),
           NEW w \in {256, 65536}, Client!SizeMatches(request, w),
           NEW new \in Value, Len(new) = 2 * TCP_Query.count,
           \A n \in DOMAIN request.ids : \A a : PlacedIn(n, a) => KnownAt(new, n, a)
    PROVE  LET p == Part(TCP_Query)
           IN  Whole(Overwrite(tab[p], Place(TCP_Query), new), RegisterTable(p))
<1>1. TCP_Query \in Kept /\ TCP_Query.fc \in Reads \cup Writes
      /\ Addressed(TCP_Query)
  BY CallOfServing
<1>2. PICK p \in RegisterParts : p = Part(TCP_Query)
                                 /\ RegisterTable(p) = Table(TCP_Query)
  BY FunctionCodes DEF Words, Part, Table, RegisterTable, RegisterParts
<1>3. PICK address \in Nat, count \in Nat \ {0} :
        address = TCP_Query.address /\ count = TCP_Query.count
  <2>1. TCP_Query.address \in Nat /\ TCP_Query.count \in Nat \ {0}
    BY <1>1, KeptNumbers
  <2> QED
    BY <2>1
<1>4. PICK place \in Nat : place = 2 * address /\ place = Place(TCP_Query)
  BY <1>3 DEF Place, Width
<1>5. PICK old \in Value : old = tab[p] /\ Len(old) = 2 * RegistersUsed(p)
                           /\ RegistersUsed(p) \in Nat
  BY ImageHasRoom
<1>6. PICK table : table = RegisterTable(p)
  OBVIOUS
<1>7. address \in DOMAIN table
  BY <1>1, <1>2, <1>3, <1>6 DEF Addressed
<1>9. PICK len \in Nat : len = Len(new) /\ len = 2 * count
  BY <1>3 DEF Value
<1>8. ASSUME NEW a \in DOMAIN table
      PROVE  Piece(Overwrite(old, place, new), 2 * a, 2 * a + Map!size(table[a]))
               \in Known(table[a])
  <2>1. PICK e : Spans(p, a, e)
    BY <1>2, <1>6, ItemSpans DEF ServingInv
  <2>2. /\ a \in Nat /\ e \in {1, 2} /\ PLC!size(table[a]) = 2 * e
        /\ Map!size(table[a]) = 2 * e /\ 2 * a + 2 * e <= Len(old)
        /\ a < address => a + e <= address
    BY <1>5, <1>6, <1>7, <2>1 DEF Spans
  <2>3. PICK from \in Nat, to \in Nat : /\ from = 2 * a /\ to = 2 * a + 2 * e
                                        /\ from <= to /\ to <= Len(old)
    BY <2>2
  <2>4. PieceOverwritten(old, new, place, from, to)
    BY <2>3, OverwrittenPiece
  <2>5. CASE address <= a /\ a < address + count
    <3>1. a \in Window(TCP_Query) \cap DOMAIN Table(TCP_Query)
      <4>1. a \in address .. address + count - 1
        BY <2>2, <2>5
      <4>2. a \in DOMAIN Table(TCP_Query)
        BY <1>2, <1>6
      <4> QED
        BY <1>3, <4>1, <4>2, SMTT(30) DEF Window
    <3>2. PICK n \in DOMAIN request.ids : PlacedIn(n, a)
      BY <3>1, WindowOfCall
    <3>3. request.ids[n] = table[a] /\ 2 * (a - address) + 2 * e <= 2 * count
      BY <1>2, <1>3, <1>6, <2>2, <3>2 DEF PlacedIn
    <3>4. place <= from /\ to <= place + Len(new)
      <4>1. place <= from
        BY <1>4, <2>2, <2>3, <2>5
      <4>2. to <= place + len
        <5>1. PICK d \in Nat : d = a - address /\ a = address + d
          BY <2>2, <2>5
        <5>2. 2 * d + 2 * e <= 2 * count
          BY <3>3, <5>1
        <5>3. PICK half \in Nat : half = e
          BY <2>2
        <5>4. to = 2 * (address + d) + 2 * half
          BY <2>3, <5>1, <5>3
        <5>5. 2 * d + 2 * half <= 2 * count
          BY <5>2, <5>3
        <5> QED
          BY <1>4, <1>9, <5>4, <5>5
      <4> QED
        BY <1>9, <4>1, <4>2
    <3>5. Piece(Overwrite(old, place, new), from, to) = Piece(new, from - place, to - place)
      BY <2>4, <3>4 DEF PieceOverwritten
    <3>6. Piece(new, 2 * (a - address), 2 * (a - address) + 2 * e) \in Known(table[a])
      BY <1>3, <2>2, <3>2, <3>3 DEF KnownAt
    <3>7. from - place = 2 * (a - address) /\ to - place = 2 * (a - address) + 2 * e
      BY <1>4, <2>2, <2>3, SMTT(30)
    <3> QED
      BY <2>2, <2>3, <3>5, <3>6, <3>7, SMTT(30)
  <2>6. CASE ~(address <= a /\ a < address + count)
    <3>1. to <= place \/ place + Len(new) <= from
      <4>1. CASE a < address
        BY <1>4, <2>2, <2>3, <4>1
      <4>2. CASE a >= address + count
        <5>1. place + len <= from
          BY <1>4, <1>9, <2>2, <2>3, <4>2
        <5> QED
          BY <1>9, <5>1
      <4> QED
        BY <2>2, <2>6, <4>1, <4>2
    <3>2. Piece(Overwrite(old, place, new), from, to) = Piece(old, from, to)
      BY <2>4, <3>1 DEF PieceOverwritten
    <3>3. Piece(old, 2 * a, 2 * a + Map!size(table[a])) \in Known(table[a])
      BY <1>2, <1>5, <1>6 DEF WholeInv, WholePart, Whole, Piece
    <3> QED
      BY <2>2, <2>3, <3>2, <3>3
  <2> QED
    BY <2>5, <2>6
<1> QED
  BY <1>2, <1>4, <1>5, <1>6, <1>8 DEF Whole, Piece

\* What a read copies to the image are values that are known.
LEMMA CopiedIsKnown ==
    ASSUME NoByteItems, CallMade, TCP_Query.fc \in WordReads,
           NEW n \in DOMAIN request.ids, NEW a, PlacedIn(n, a)
    PROVE  KnownAt(SubSeq(ByteData, 1, 2 * TCP_Query.count), n, a)
<1>1. PICK new, d : /\ new = SubSeq(ByteData, 1, 2 * TCP_Query.count)
                    /\ d = a - TCP_Query.address
  OBVIOUS
<1>2. PICK e \in {1, 2} : /\ PLC!size(request.ids[n]) = 2 * e
                          /\ PieceAt(Readdata[n], e, new, TCP_Query.count, d)
  BY <1>1, EntryPlaced
<1>3. Piece(new, 2 * d, 2 * d + 2 * e) = Readdata[n]
  BY <1>2, PieceFound
<1>4. Readdata[n] \in Known(request.ids[n])
  BY WordsDelivered
<1> QED
  BY <1>1, <1>2, <1>3, <1>4 DEF KnownAt

\* So are what a confirmed write stores in it: the client's bytes, turned round.
LEMMA StoredIsKnown ==
    ASSUME NoByteItems, CallMade, TCP_Query.fc \in WordWrites,
           NEW n \in DOMAIN request.ids, NEW a, PlacedIn(n, a)
    PROVE  KnownAt(SwapPairs(TCP_Query.data), n, a)
<1>1. /\ TCP_Query \in Kept /\ request = RequestOf(TCP_Query)
      /\ request \in Requests /\ Words(TCP_Query) /\ Addressed(TCP_Query)
  BY CallOfServing, FunctionCodes DEF CallMade, Words
<1>2. request.op = "writeBytes" /\ request.data = TCP_Query.data
  BY <1>1, FunctionCodes DEF RequestOf, Op, Writedata
<1>3. Client!SizeMatches(request, 65536)
  BY <1>2 DEF CallMade, Responding, ServingInv, SiemensInv, Client!Answers
<1>4. PICK address \in Nat, count \in Nat \ {0} :
        address = TCP_Query.address /\ count = TCP_Query.count
  <2>1. TCP_Query.address \in Nat /\ TCP_Query.count \in Nat \ {0}
    BY <1>1, KeptNumbers
  <2> QED
    BY <2>1
<1>5. PICK data \in Value : data = TCP_Query.data /\ Len(data) = 2 * count
  BY <1>1, <1>4, KeptNumbers
<1>6. PICK i \in PLC!Items : i = request.ids[n] /\ Config[i + 1].type # "BOOL"
  <2>1. TCP_Query.address \in DOMAIN Table(TCP_Query)
    BY <1>1 DEF Addressed
  <2>2. request.ids = ResourceIds(TCP_Query)
    BY <1>1 DEF RequestOf
  <2>3. /\ ResourceIds(TCP_Query) \in Seq(PLC!Items)
        /\ \A m \in DOMAIN ResourceIds(TCP_Query) :
             Config[ResourceIds(TCP_Query)[m] + 1].type # "BOOL"
    BY <1>1, <1>4, <2>1, WordIds DEF CallMade, ServingInv
  <2> QED
    BY <2>2, <2>3
<1>7. PICK e \in {1, 2} : PLC!size(i) = 2 * e
  BY <1>6, EvenSizes
<1>8. PICK d \in Nat : /\ d = a - address /\ d + e <= count
                       /\ Client!PayloadOffset(request.ids, n) = 2 * d
  <2>1. /\ a \in Nat /\ address <= a
        /\ Client!PayloadOffset(request.ids, n) = 2 * (a - address)
        /\ 2 * (a - address) + 2 * e <= 2 * count
    BY <1>4, <1>6, <1>7 DEF PlacedIn
  <2>2. PICK d \in Nat : d = a - address
    BY <2>1
  <2> QED
    BY <2>1, <2>2
<1>9. Client!size(i) = 2 * e
  BY <1>7, SameSizes
<1>10. PICK piece : piece = Client!Payload(request, n)
  OBVIOUS
<1>11. piece = SubSeq(data, 2 * d + 1, 2 * d + 2 * e)
  <2>1. Client!Payload(request, n) =
          SubSeq(request.data, Client!PayloadOffset(request.ids, n) + 1,
                 Client!PayloadOffset(request.ids, n) + Client!size(request.ids[n]))
    BY <1>1, <1>2, <1>3, PayloadPiece
  <2> QED
    BY <1>2, <1>5, <1>6, <1>8, <1>9, <1>10, <2>1
<1>12. PieceAt(piece, e, data, count, d)
  <2>1. PICK m \in Nat, l \in Nat :
          /\ m = 2 * d /\ l = 2 * d + 2 * e /\ l <= 2 * count /\ m <= l
          /\ l - m = 2 * e
    BY <1>8
  <2>2. /\ SubSeq(data, m + 1, l) \in Value
        /\ Len(SubSeq(data, m + 1, l)) = l - m
        /\ \A k \in 1 .. l - m : SubSeq(data, m + 1, l)[k] = data[m + k]
    BY <1>5, <2>1, PieceType
  <2>3. /\ piece \in Value /\ Len(piece) = 2 * e
        /\ \A k \in 1 .. 2 * e : piece[k] = data[2 * d + k]
    BY <1>11, <2>1, <2>2, Zenon
  <2>4. e \in Nat /\ count \in Nat
    OBVIOUS
  <2> QED
    BY <1>5, <1>8, <2>3, <2>4 DEF PieceAt
<1>13. PieceSwapped(piece, e, data, d)
  BY <1>12, SwappedPiece
<1>14. piece \in Sent(i)
  <2>1. PLC!SizeMatches(request, 65536) /\ piece = PLC!Payload(request, n)
    BY <1>3, <1>10, SamePayloads
  <2> QED
    BY <1>1, <1>2, <1>6, <2>1 DEF Sent
<1>15. SwapPairs(piece) \in Known(i)
  BY <1>14 DEF Known
<1> QED
  BY <1>4, <1>5, <1>6, <1>7, <1>8, <1>13, <1>15 DEF KnownAt, PieceSwapped, Piece

\* A reply leaves the registers whole: a part it does not write is as it was, and
\* what it writes are known values.
LEMMA ReplyWhole ==
    ASSUME NoByteItems, ServingInv, ImageSizes, ImageFilled, WholeInv, Respond,
           NEW p \in RegisterParts
    PROVE  Whole(tab'[p], RegisterTable(p))
<1>1. handler # "starting" /\ DOMAIN tab = Parts /\ Whole(tab[p], RegisterTable(p))
  BY DEF Respond, Responding, ImageSizes, WholeInv, WholePart
<1>2. ASSUME CallMade, TCP_Query.fc \in Reads, tab' = Copied(TCP_Query)
      PROVE  Whole(tab'[p], RegisterTable(p))
  <2>1. CASE TCP_Query.fc \in WordReads
    <3>1. Words(TCP_Query) /\ handler = "called"
      BY <1>2, <2>1 DEF Words, CallMade
    <3>2. TCP_Query \in Kept /\ request = RequestOf(TCP_Query)
      BY <3>1, CallOfServing
    <3>3. PICK count \in Nat \ {0} : count = TCP_Query.count /\ count = request.count
      BY <3>2, KeptNumbers DEF RequestOf
    <3>4. PICK new : new = SubSeq(ByteData, 1, 2 * TCP_Query.count)
      OBVIOUS
    <3>5. new \in Value /\ Len(new) = 2 * TCP_Query.count
      <4>1. PICK m \in Nat : m = 2 * count
        OBVIOUS
      <4>2. ByteData \in Value /\ m <= Len(ByteData)
        BY <1>2, <2>1, <3>3, <4>1, BytesDelivered
      <4> QED
        BY <3>3, <3>4, <4>1, <4>2, FirstBytes
    <3>6. \A n \in DOMAIN request.ids : \A a : PlacedIn(n, a) => KnownAt(new, n, a)
      BY <1>2, <2>1, <3>4, CopiedIsKnown
    <3>7. PICK w \in {256, 65536} : Client!SizeMatches(request, w)
      BY <1>2, <2>1, WordsDelivered
    <3>8. Whole(Overwrite(tab[Part(TCP_Query)], Place(TCP_Query), new),
                RegisterTable(Part(TCP_Query)))
      BY <3>1, <3>5, <3>6, <3>7, WindowStaysWhole
    <3>9. tab' = [tab EXCEPT ![Part(TCP_Query)] =
                    Overwrite(@, Place(TCP_Query), new)]
      BY <1>2, <3>1, <3>4 DEF Copied
    <3>10. CASE p = Part(TCP_Query)
      <4>1. p \in Parts
        BY DEF RegisterParts, Parts
      <4> QED
        BY <1>1, <3>8, <3>9, <3>10, <4>1
    <3>11. CASE p # Part(TCP_Query)
      BY <1>1, <3>9, <3>11
    <3> QED
      BY <3>10, <3>11
  <2>2. CASE TCP_Query.fc \in BitReads
    <3>1. ~Words(TCP_Query) /\ p # Part(TCP_Query)
      BY <2>2, FunctionCodes DEF Words, Part, RegisterParts
    <3>2. tab' = [tab EXCEPT ![Part(TCP_Query)] =
                    Overwrite(@, Place(TCP_Query), BitData)]
      BY <1>2, <3>1 DEF Copied
    <3> QED
      BY <1>1, <3>1, <3>2
  <2> QED
    BY <1>2, <2>1, <2>2 DEF Reads
<1>3. ASSUME CallMade, TCP_Query.fc \in Writes, tab' = Stored(TCP_Query)
      PROVE  Whole(tab'[p], RegisterTable(p))
  <2>1. CASE TCP_Query.fc \in WordWrites
    <3>1. Words(TCP_Query) /\ handler = "called"
      BY <1>3, <2>1 DEF Words, CallMade
    <3>2. TCP_Query \in Kept /\ request = RequestOf(TCP_Query)
      BY <3>1, CallOfServing
    <3>3. PICK count \in Nat \ {0} : count = TCP_Query.count
      BY <3>2, KeptNumbers
    <3>4. PICK new \in Value : /\ new = SwapPairs(TCP_Query.data)
                               /\ Len(new) = 2 * TCP_Query.count
      <4>1. TCP_Query.data \in Value /\ Len(TCP_Query.data) = 2 * count
        BY <2>1, <3>2, <3>3, KeptNumbers
      <4> QED
        BY <3>3, <4>1, SwapPairsType
    <3>5. \A n \in DOMAIN request.ids : \A a : PlacedIn(n, a) => KnownAt(new, n, a)
      BY <1>3, <2>1, <3>4, StoredIsKnown
    <3>6. PICK w \in {256, 65536} : Client!SizeMatches(request, w)
      <4>1. request.op = "writeBytes"
        BY <2>1, <3>2, FunctionCodes DEF RequestOf, Op
      <4> QED
        BY <1>3, <4>1
        DEF CallMade, Responding, ServingInv, SiemensInv, Client!Answers
    <3>7. Whole(Overwrite(tab[Part(TCP_Query)], Place(TCP_Query), new),
                RegisterTable(Part(TCP_Query)))
      BY <3>1, <3>4, <3>5, <3>6, WindowStaysWhole
    <3>8. tab' = [tab EXCEPT ![Part(TCP_Query)] =
                    Overwrite(@, Place(TCP_Query), new)]
      <4>1. ImageData(TCP_Query) = new
        BY <2>1, <3>4, FunctionCodes DEF ImageData
      <4> QED
        BY <1>3, <4>1 DEF Stored
    <3>9. CASE p = Part(TCP_Query)
      <4>1. p \in Parts
        BY DEF RegisterParts, Parts
      <4> QED
        BY <1>1, <3>7, <3>8, <3>9, <4>1
    <3>10. CASE p # Part(TCP_Query)
      BY <1>1, <3>8, <3>10
    <3> QED
      BY <3>9, <3>10
  <2>2. CASE TCP_Query.fc \in CoilWrites
    <3>1. p # Part(TCP_Query)
      BY <2>2, FunctionCodes DEF Part, RegisterParts
    <3>2. tab' = [tab EXCEPT ![Part(TCP_Query)] =
                    Overwrite(@, Place(TCP_Query), ImageData(TCP_Query))]
      BY <1>3 DEF Stored
    <3> QED
      BY <1>1, <3>1, <3>2
  <2> QED
    BY <1>3, <2>1, <2>2 DEF Writes
<1> QED
  BY <1>1, <1>2, <1>3, ReplyCases

\* The tables are complete once the image is there.
LEMMA TablesFrame ==
    ASSUME ServingInv, ImageSizes, [Next]_vars, handler # "starting"
    PROVE  UNCHANGED <<config, HoldingRegs, InputRegs>> /\ ~StartServer
<1>1. DeviceMemory # Map!NoMemory
  BY DEF ImageSizes
<1>2. ResourceId = Len(config)
  BY <1>1 DEF ServingInv, Tables!IndInv, Tables!MemoryInv, Tables!NoMemory,
              Map!NoMemory
<1>3. ~BuildTables
  <2>1. ResourceId \in 0 .. Len(config)
    BY DEF ServingInv, Tables!IndInv, Tables!TablesInv
  <2>2. ~(ResourceId < Len(config))
    BY <1>2, <2>1
  <2> QED
    BY <2>2 DEF BuildTables, Map!PushCoil, Map!PushInputContact,
                Map!InsertHoldingReg, Map!InsertInputReg, Map!NextResource
<1>4. ~StartServer
  BY <1>1 DEF StartServer, Map!NewMapping
<1>5. CASE Background \/ CallStep \/ Respond
  BY <1>4, <1>5 DEF Background, CallStep, Respond, mapVars
<1>6. ASSUME NEW q \in Queries, ReceiveAddressed(q) \/ ReceiveOther(q)
      PROVE  UNCHANGED <<config, HoldingRegs, InputRegs>> /\ ~StartServer
  BY <1>4, <1>6 DEF ReceiveAddressed, ReceiveOther, mapVars
<1>7. CASE UNCHANGED vars
  BY <1>4, <1>7 DEF vars, mapVars
<1> QED
  BY <1>3, <1>4, <1>5, <1>6, <1>7 DEF Next

\* The image begins with nothing but zeros, which is a known value of every item.
LEMMA StartWhole ==
    ASSUME NoByteItems, ServingInv, StartServer, NEW p \in RegisterParts
    PROVE  Whole(tab'[p], RegisterTable(p))
<1>1. PICK used \in Nat : used = RegistersUsed(p) /\ tab'[p] = Zeros(2 * used)
  <2>1. /\ CurrentHoldingAddress \in Nat /\ CurrentInpuutRegsAddress \in Nat
    BY DEF ServingInv, Tables!IndInv, Tables!TablesInv
  <2>2. /\ DeviceMemory'.registers = CurrentHoldingAddress
        /\ DeviceMemory'.input_registers = CurrentInpuutRegsAddress
    BY DEF StartServer, Map!NewMapping
  <2>3. /\ tab'.registers = Zeros(2 * DeviceMemory'.registers)
        /\ tab'.input_registers = Zeros(2 * DeviceMemory'.input_registers)
    BY DEF StartServer
  <2> QED
    BY <2>1, <2>2, <2>3 DEF RegisterParts, RegistersUsed
<1>2. ASSUME NEW a \in DOMAIN RegisterTable(p)
      PROVE  SubSeq(tab'[p], 2 * a + 1, 2 * a + Map!size(RegisterTable(p)[a]))
               \in Known(RegisterTable(p)[a])
  <2>1. PICK id : id = RegisterTable(p)[a]
    OBVIOUS
  <2>2. PICK e : Spans(p, a, e)
    BY ItemSpans DEF ServingInv
  <2>3. /\ a \in Nat /\ e \in {1, 2} /\ Map!size(id) = 2 * e /\ a + e <= used
    BY <1>1, <2>1, <2>2 DEF Spans
  <2>4. PICK m \in Nat, l \in Nat, n \in Nat :
          /\ m = 2 * a /\ l = 2 * a + 2 * e /\ n = 2 * used
          /\ m <= l /\ l <= n /\ l - m = Map!size(id)
    BY <2>3
  <2>5. PICK zeros \in Value : /\ zeros = Zeros(n) /\ Len(zeros) = n
                               /\ \A k \in 1 .. n : zeros[k] = 0
    BY ZerosAreZero
  <2>6. /\ SubSeq(zeros, m + 1, l) \in Value /\ Len(SubSeq(zeros, m + 1, l)) = l - m
        /\ \A k \in 1 .. l - m : SubSeq(zeros, m + 1, l)[k] = zeros[m + k]
    BY <2>4, <2>5, PieceType
  <2>7. SubSeq(zeros, m + 1, l) = Zeros(l - m)
    <3>1. PICK d \in Nat : d = l - m
      BY <2>4
    <3>2. PICK piece \in Seq(Byte) : /\ piece = SubSeq(zeros, m + 1, l) /\ Len(piece) = d
                                     /\ \A k \in 1 .. d : piece[k] = zeros[m + k]
      BY <2>6, <3>1 DEF Value
    <3>3. PICK other \in Seq(Byte) : /\ other = Zeros(d) /\ Len(other) = d
                                     /\ \A k \in 1 .. d : other[k] = 0
      BY ZerosAreZero DEF Value
    <3>4. \A k \in 1 .. d : m + k \in 1 .. n
      BY <2>4, <3>1
    <3>5. \A k \in 1 .. d : piece[k] = other[k]
      BY <2>5, <3>2, <3>3, <3>4
    <3> QED
      BY <3>1, <3>2, <3>3, <3>5
  <2>8. Zeros(l - m) \in Known(id)
    BY <2>4 DEF Known
  <2> QED
    BY <1>1, <2>1, <2>3, <2>4, <2>5, <2>7, <2>8
<1> QED
  BY <1>2 DEF Whole

\* So the registers stay whole.
LEMMA WholeStep ==
    ASSUME NoByteItems
    PROVE  ServingInv /\ ImageSizes /\ ImageFilled /\ WholeInv /\ [Next]_vars
             => WholeInv'
<1> SUFFICES ASSUME ServingInv, ImageSizes, ImageFilled, WholeInv, [Next]_vars,
                    handler' # "starting", NEW p \in RegisterParts
             PROVE  WholePart(p)'
  BY DEF WholeInv
<1>1. ASSUME UNCHANGED <<config, HoldingRegs, InputRegs>>,
             Whole(tab'[p], RegisterTable(p))
      PROVE  WholePart(p)'
  <2>1. RegisterTable(p)' = RegisterTable(p)
    BY <1>1 DEF RegisterTable
  <2>2. \A id : Map!size(id)' = Map!size(id)
    BY <1>1 DEF Map!size, Map!Item
  <2>3. \A id : Known(id)' = Known(id)
    BY <2>2 DEF Known
  <2> QED
    BY <1>1, <2>1, <2>2, <2>3 DEF WholePart, Whole
<1>2. CASE StartServer
  BY <1>1, <1>2, StartWhole DEF StartServer, Map!NewMapping
<1>3. CASE handler # "starting"
  <2>1. UNCHANGED <<config, HoldingRegs, InputRegs>> /\ ~StartServer
    BY <1>3, TablesFrame
  <2>2. CASE Respond
    BY <1>1, <2>1, <2>2, ReplyWhole
  <2>3. CASE tab' = tab
    BY <1>1, <1>3, <2>1, <2>3 DEF WholeInv, WholePart
  <2> QED
    BY <2>1, <2>2, <2>3, ImageFrame
<1>4. CASE handler = "starting" /\ ~StartServer
  BY <1>4, ImageFrame DEF Respond, Responding
<1> QED
  BY <1>2, <1>3, <1>4

\* The registers of an item in the image are always one value as a whole: nothing
\* yet, what a read of the item delivered, or what a confirmed write left, whatever
\* windows are copied and stored and whatever the controller and the link do, for
\* every configuration whose register items have two bytes or four (the memcpy to
\* tab_registers and tab_input_registers, ModbusServer.cpp:195-281, and the reply,
\* SendReply, :400-443).
THEOREM ImageStaysWhole ==
    ASSUME NoByteItems PROVE Spec /\ []CallsAreRequests => []ImageIsWhole
<1>1. Init => ImageFilled /\ WholeInv
  BY DEF Init, ImageFilled, WholeInv
<1>2. WholeInv => ImageIsWhole
  BY DEF WholeInv, ImageIsWhole, WholePart, RegisterParts, RegisterTable
<1> QED
  BY <1>1, <1>2, Serving, ImageKeepsSizes, FilledStep, WholeStep, PTL DEF Spec

=============================================================================
