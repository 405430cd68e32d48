------------------------------ MODULE Gateway ------------------------------
(***************************************************************************)
(* The gateway as its Modbus clients see it (ModbusServer.cpp): the        *)
(* handlers of the function codes, composed with the tables of AddressMap  *)
(* and the calls of SiemensPLC.  StartSiemens has started the run thread;  *)
(* StartRunThread builds the tables meanwhile and starts the Modbus        *)
(* thread, which then serves one query at a time: it looks the query up,   *)
(* makes at most one call, copies what a read delivered to the register    *)
(* image and replies.  Only the Modbus thread touches the image, so that   *)
(* the end of a call, the copy and the reply are one step.                 *)
(*                                                                         *)
(* The image keeps registers in memory order: of the two bytes of a        *)
(* register the low one comes first (little-endian CPU), on the wire the   *)
(* high one.                                                               *)
(***************************************************************************)
EXTENDS DataItems, Integers

CONSTANTS
    Config, ListOfDataItemGroups, DeviceValues, MaxVars,  \* see SiemensPLC
    Requests,  \* the calls the handlers can make
    Queries    \* what clients send: [fc, address, count, data]

VARIABLES
    \* SiemensPLC
    Status, ReadWriteMutex, itemStatus, localStatusCopy, localCopy, pdata,
    runPc, group, item, okItems, Error_Count,
    modPc, request, index, Readdata, result,
    connected, device, polled, loaded, applied,
    \* AddressMap
    config, ResourceId, Coils, InputContacts, HoldingRegs, InputRegs,
    CurrentHoldingAddress, CurrentInpuutRegsAddress, DeviceMemory,
    \* The handlers: the image, the query being served and how far it is.
    tab, TCP_Query, handler

PLC == INSTANCE SiemensPLC
Map == INSTANCE AddressMap
         WITH Configs <- {[n \in DOMAIN Config |->
                             [type |-> Config[n].type, access |-> Config[n].access]]}

plcVars ==
    <<Status, ReadWriteMutex, itemStatus, localStatusCopy, localCopy, pdata,
      runPc, group, item, okItems, Error_Count, modPc, request, index, Readdata,
      result, connected, device, polled, loaded, applied>>
mapVars ==
    <<config, ResourceId, Coils, InputContacts, HoldingRegs, InputRegs,
      CurrentHoldingAddress, CurrentInpuutRegsAddress, DeviceMemory>>
handlerVars == <<tab, TCP_Query, handler>>
vars == <<plcVars, mapVars, handlerVars>>

READ_COILS == 1
READ_DISCRETE_INPUTS == 2
READ_HOLDING_REGISTERS == 3
READ_INPUT_REGISTERS == 4
WRITE_SINGLE_COIL == 5
WRITE_SINGLE_REGISTER == 6
WRITE_MULTIPLE_COILS == 15
WRITE_MULTIPLE_REGISTERS == 16
BitReads   == {READ_COILS, READ_DISCRETE_INPUTS}
WordReads  == {READ_HOLDING_REGISTERS, READ_INPUT_REGISTERS}
CoilWrites == {WRITE_SINGLE_COIL, WRITE_MULTIPLE_COILS}
WordWrites == {WRITE_SINGLE_REGISTER, WRITE_MULTIPLE_REGISTERS}
Reads  == BitReads \cup WordReads
Writes == CoilWrites \cup WordWrites

Words(q) == q.fc \in WordReads \cup WordWrites

\* The configuration is a list of items.
ASSUME ConfigAssumption ==
    Config \in Seq([type : SIEMENSDATATYPES, access : BOOLEAN, group : Byte])

\* The fields of a query, as they are in its frame: the protocol asks more of
\* them (KeepsProtocol).  A single write has its value where the others have the
\* count, so that it is a query for one.
ASSUME QueriesAssumption ==
    \A q \in Queries :
      /\ q.fc \in Byte /\ q.data \in Value
      /\ q.address \in Nat /\ q.address < 65536 /\ q.count \in Nat /\ q.count < 65536
      /\ q.fc \in {WRITE_SINGLE_COIL, WRITE_SINGLE_REGISTER} =>
           q.count = 1 /\ Len(q.data) = 2

\* The groups and the controller are as the Siemens side expects them.
ASSUME SiemensAssumption ==
    PLC!ConfigAssumption /\ PLC!GroupsAssumption /\ PLC!DeviceAssumption

\* A call deals with distinct items of one kind, bits or words; a read names an
\* item, and the data of a write is as long as its count calls for.
WellFormed(r) ==
    /\ r.op \in {"readBits", "readBytes", "writeBits", "writeBytes"}
    /\ r.ids \in Seq(PLC!Items \cup {PLC!SIEMENS_STATUS})
    /\ \A m, n \in DOMAIN r.ids : r.ids[m] = r.ids[n] => m = n
    /\ \A n \in DOMAIN r.ids :
         IF r.ids[n] = PLC!SIEMENS_STATUS THEN r.op = "readBits"
         ELSE Config[r.ids[n] + 1].type = "BOOL" <=> r.op \in {"readBits", "writeBits"}
    /\ r.op \in {"readBits", "readBytes"} => r.ids # <<>>
    /\ r.count \in Nat \ {0} /\ r.count <= 2000 /\ r.data \in Value
    /\ r.op = "readBytes" => r.count <= 125
    /\ r.op = "writeBits" => r.data # <<>>
    /\ r.op = "writeBytes" => r.count <= 123 /\ Len(r.data) = 2 * r.count
ASSUME CallsAssumption == \A r \in Requests : WellFormed(r)

\* A value of an item has its size, and a bit is 0 or 1.
ItemValues(i) ==
    {v \in Value : /\ Len(v) = PLC!size(i)
                   /\ Config[i + 1].type = "BOOL" => v[1] \in {0, 1}}
ASSUME ValuesAssumption ==
    \A i \in PLC!Items : \A v \in DeviceValues[i] : v \in ItemValues(i)

-----------------------------------------------------------------------------
(* What the protocol asks of a query.                                      *)

\* What libmodbus takes as a count; it answers ILLEGAL_DATA_VALUE to others, and
\* to a single coil that is to become neither off nor on.
MaxCount(q) ==
    CASE q.fc \in WordReads            -> 125
      [] q.fc = WRITE_MULTIPLE_COILS   -> 1968
      [] q.fc \in WordWrites           -> 123
      [] OTHER                         -> 2000
Acceptable(q) ==
    /\ q.count \in 1 .. MaxCount(q)
    /\ q.fc = WRITE_SINGLE_COIL => q.data \in {<<0, 0>>, <<255, 0>>}

\* A query keeps the protocol if its addresses end at 65535 and its data is as
\* long as its count calls for.  The handlers, which call before libmodbus looks at
\* the query, do not test this: Addressed computes the end of a range in 16 bits
\* and takes the count as it is, and the bytes of a write are those that the frame
\* announces.
KeepsProtocol(q) ==
    /\ q.count \in 1 .. MaxCount(q)
    /\ q.address + q.count <= 65536
    /\ q.fc \in WordWrites => Len(q.data) = 2 * q.count
    /\ q.fc = WRITE_MULTIPLE_COILS => Len(q.data) = (q.count + 7) \div 8

-----------------------------------------------------------------------------
(* Looking a query up.                                                     *)

\* The table a function code addresses.
Table(q) ==
    CASE q.fc \in {READ_COILS} \cup CoilWrites -> Coils
      [] q.fc = READ_DISCRETE_INPUTS           -> InputContacts
      [] q.fc = READ_INPUT_REGISTERS           -> InputRegs
      [] OTHER                                 -> HoldingRegs

\* Bits are found if the last one is in the table, registers if an item begins
\* at the first one.
Addressed(q) ==
    IF Words(q) THEN q.address \in DOMAIN Table(q)
    ELSE (q.address + q.count - 1) % 65536 < Len(Table(q))

\* The items a query reaches.  The handler of several coils takes the iterator
\* before the last one for the end.
ResourceIds(q) ==
    CASE Words(q) -> Map!RegisterIds(Table(q), q.address, q.count)
      [] q.fc = WRITE_MULTIPLE_COILS ->
           SubSeq(Coils, q.address + 1, q.address + q.count - 1)
      [] OTHER -> SubSeq(Table(q), q.address + 1, q.address + q.count)

\* Mutation of Writedata: the wire's value of a coil is handed over as it is.
WritedataRaw(q) == q.data

\* The data a write hands over: any value other than 0 sets a coil.
Writedata(q) ==
    IF q.fc = WRITE_SINGLE_COIL
    THEN IF q.data = <<0, 0>> THEN <<0>> ELSE <<1>>
    ELSE q.data

\* The call of a query.
Op(q) ==
    CASE q.fc \in BitReads   -> "readBits"
      [] q.fc \in WordReads  -> "readBytes"
      [] q.fc \in CoilWrites -> "writeBits"
      [] q.fc \in WordWrites -> "writeBytes"
RequestOf(q) ==
    [op |-> Op(q), ids |-> ResourceIds(q), count |-> q.count,
     data |-> IF q.fc \in Reads THEN <<>> ELSE Writedata(q)]

-----------------------------------------------------------------------------
(* The image and the reply.                                                *)

\* What a read call left in Readdata: one bit per item, or the bytes of the
\* items, of which one that has a single byte takes two.
BitData == [n \in DOMAIN Readdata |-> Readdata[n][1]]
ByteData ==
    FlattenSeq([n \in DOMAIN Readdata |->
                  IF Len(Readdata[n]) = 1 THEN Append(Readdata[n], 0)
                  ELSE Readdata[n]])

\* The part of the image a function code works on, and where its query begins.
Part(q) ==
    CASE q.fc \in {READ_COILS} \cup CoilWrites -> "bits"
      [] q.fc = READ_DISCRETE_INPUTS           -> "input_bits"
      [] q.fc = READ_INPUT_REGISTERS           -> "input_registers"
      [] OTHER                                 -> "registers"
Width(q) == IF Words(q) THEN 2 ELSE 1

\* Mutation of Place: registers are counted like bits.
PlaceUnscaled(q) == q.address
Place(q) == Width(q) * q.address

\* Mutation of Copied: the copy goes to the start of the image.
CopiedToStart(q) ==
    [tab EXCEPT ![Part(q)] =
       Overwrite(@, 0, IF Words(q) THEN SubSeq(ByteData, 1, 2 * q.count) ELSE BitData)]

\* A successful read call is copied to the image before the reply.
Copied(q) ==
    [tab EXCEPT ![Part(q)] =
       Overwrite(@, Place(q),
                 IF Words(q) THEN SubSeq(ByteData, 1, 2 * q.count) ELSE BitData)]

\* What modbus_reply takes from the data of a write, in the image's order.
ImageData(q) ==
    CASE q.fc = WRITE_SINGLE_COIL    -> Writedata(q)
      [] q.fc = WRITE_MULTIPLE_COILS -> [n \in 1 .. q.count |-> Bit(q.data, n)]
      [] OTHER                       -> SwapPairs(q.data)

\* modbus_reply answers a read from the image and stores a write in it.  It
\* refuses what it does not accept, and what is outside the image.
InImage(q) == Place(q) + Width(q) * q.count <= Len(tab[Part(q)])
Refusal(q) ==
    IF ~Acceptable(q) THEN "ILLEGAL_DATA_VALUE"
    ELSE IF InImage(q) THEN "none" ELSE "ILLEGAL_DATA_ADDRESS"
Stored(q) == [tab EXCEPT ![Part(q)] = Overwrite(@, Place(q), ImageData(q))]
Answer(image, q) ==
    LET values == SubSeq(image[Part(q)], Place(q) + 1,
                         Place(q) + Width(q) * q.count)
    IN  IF Words(q) THEN SwapPairs(values) ELSE values

-----------------------------------------------------------------------------
\* No frame has this function code.
NoQuery == [fc |-> 256, address |-> 0, count |-> 1, data |-> <<>>]
NoImage == [bits |-> <<>>, input_bits |-> <<>>, registers |-> <<>>,
            input_registers |-> <<>>]

Init ==
    /\ PLC!Init /\ Map!Init
    /\ tab = NoImage
    /\ TCP_Query = NoQuery
    /\ handler = "starting"

\* The run thread, the controller and the link do not wait for the handlers.
Background ==
    /\ PLC!RunThread \/ PLC!Environment
    /\ UNCHANGED <<mapVars, handlerVars>>

\* StartRunThread deals with one item.
BuildTables ==
    /\ \/ Map!PushCoil \/ Map!PushInputContact
       \/ Map!InsertHoldingReg \/ Map!InsertInputReg
    /\ UNCHANGED <<plcVars, handlerVars>>

\* Mutation of StartServer: the image has a byte for each register.
StartServerBytes ==
    /\ Map!NewMapping
    /\ tab' = [bits            |-> Zeros(DeviceMemory'.bits),
               input_bits      |-> Zeros(DeviceMemory'.input_bits),
               registers       |-> Zeros(DeviceMemory'.registers),
               input_registers |-> Zeros(DeviceMemory'.input_registers)]
    /\ handler' = "idle"
    /\ UNCHANGED <<plcVars, TCP_Query>>

\* It allocates the image, filled with zeros, and starts the Modbus thread.
StartServer ==
    /\ Map!NewMapping
    /\ tab' = [bits            |-> Zeros(DeviceMemory'.bits),
               input_bits      |-> Zeros(DeviceMemory'.input_bits),
               registers       |-> Zeros(2 * DeviceMemory'.registers),
               input_registers |-> Zeros(2 * DeviceMemory'.input_registers)]
    /\ handler' = "idle"
    /\ UNCHANGED <<plcVars, TCP_Query>>

\* A query arrives that reaches items: the handler makes its call.
ReceiveAddressed(q) ==
    /\ handler = "idle"
    /\ q.fc \in Reads \cup Writes
    /\ Addressed(q)
    /\ TCP_Query' = q
    /\ handler' = "called"
    /\ PLC!Call(RequestOf(q))
    /\ UNCHANGED <<mapVars, tab>>

\* A query arrives that makes no call.
ReceiveOther(q) ==
    /\ handler = "idle"
    /\ q.fc \in Reads \cup Writes => ~Addressed(q)
    /\ TCP_Query' = q
    /\ handler' = "not_called"
    /\ UNCHANGED <<plcVars, mapVars, tab>>

\* The call proceeds.
CallStep ==
    /\ modPc # "idle"
    /\ PLC!ModbusThread
    /\ UNCHANGED <<mapVars, handlerVars>>

Responding == handler \in {"called", "not_called"} /\ modPc = "idle"

\* Mutations of Result: ReadInputRegs leaves it OK too; the call's is not used.
ResultOfFC3 ==
    CASE handler = "called" -> result
      [] handler # "called" /\ TCP_Query.fc \in WordReads -> "OK"
      [] OTHER -> "InvalidModbusAddr"
ResultUnchecked == IF handler = "called" THEN "OK" ELSE "InvalidModbusAddr"

\* The handler's result.  ReadHoldingRegs alone leaves it OK for an address it
\* does not find.
Result ==
    CASE handler = "called" -> result
      [] handler # "called" /\ TCP_Query.fc = READ_HOLDING_REGISTERS -> "OK"
      [] handler # "called" /\ TCP_Query.fc \notin Reads \cup Writes ->
           "UnSoppotedMopdbusFC"
      [] OTHER -> "InvalidModbusAddr"

\* Mutation of Image: the reply is made before the copy.
ImageBefore == tab

\* The image the reply is made from.
Image ==
    IF handler = "called" /\ result = "OK" /\ TCP_Query.fc \in Reads
    THEN Copied(TCP_Query) ELSE tab

\* The exception a result is reported with.
Exception(code) ==
    CASE code = "DeviceIsOffLine" -> "SLAVE_OR_SERVER_FAILURE"
      [] code \in {"InvalidModbusAddr", "InvalidS7DataItem"} ->
           "ILLEGAL_DATA_ADDRESS"
      [] code = "InvalidSize" -> "ILLEGAL_DATA_VALUE"
      [] code = "UnSoppotedMopdbusFC" -> "ILLEGAL_FUNCTION"

\* The reply to the current query: an exception, or "none" and the values of a
\* read (a confirmed write repeats the query's head).
SendReply ==
    LET code == IF Result = "OK" THEN Refusal(TCP_Query) ELSE Exception(Result)
    IN  [exception |-> code,
         values |-> IF code = "none" /\ TCP_Query.fc \in Reads
                    THEN Answer(Image, TCP_Query) ELSE <<>>]
Answered == SendReply.exception = "none" /\ TCP_Query.fc \in Reads
Confirmed == SendReply.exception = "none" /\ TCP_Query.fc \in Writes

Respond ==
    /\ Responding
    /\ tab' = IF Confirmed THEN Stored(TCP_Query) ELSE Image
    /\ handler' = "idle"
    /\ TCP_Query' = NoQuery
    /\ UNCHANGED <<plcVars, mapVars>>

\* The environment: a client whose query reaches items keeps the protocol.  What
\* the handlers make of the others is left out; most of it is undefined in C++ (a
\* range outside its vector, bytes that nobody has written).
Next ==
    \/ Background \/ BuildTables \/ StartServer \/ CallStep \/ Respond
    \/ \E q \in Queries : \/ KeepsProtocol(q) /\ ReceiveAddressed(q)
                          \/ ReceiveOther(q)

Spec == Init /\ [][Next]_vars

-----------------------------------------------------------------------------
(* Properties.                                                             *)

\* The handlers' variables have their types: the image keeps its sizes, and a
\* call is in progress only while a query is being served.
TypeOK ==
    /\ handler \in {"starting", "idle", "called", "not_called"}
    /\ TCP_Query \in Queries \cup {NoQuery}
    /\ handler \in {"starting", "idle"} <=> TCP_Query = NoQuery
    /\ handler # "called" => modPc = "idle"
    /\ handler = "starting" <=> DeviceMemory = Map!NoMemory
    /\ handler # "starting" =>
         /\ tab.bits \in [1 .. Len(Coils) -> {0, 1}]
         /\ tab.input_bits \in [1 .. Len(InputContacts) -> {0, 1}]
         /\ tab.registers \in [1 .. 2 * CurrentHoldingAddress -> Byte]
         /\ tab.input_registers \in [1 .. 2 * CurrentInpuutRegsAddress -> Byte]

\* The Siemens side does in the gateway what it does on its own: the handlers
\* make no other calls than those it is proved to be correct for, one at a time.
ImplementsPLC == PLC!Spec

\* The items a query is about, by the tables, each with the data meant for it.
Window(q) == q.address .. q.address + q.count - 1
BitItems(q) ==
    {<<Table(q)[a + 1], <<Bit(q.data, a - q.address + 1)>>>> : a \in Window(q)}
WordItems(q) ==
    {<<Table(q)[a], SubSeq(q.data, 2 * (a - q.address) + 1,
                           2 * (a - q.address) + Map!size(Table(q)[a]))>>
       : a \in Window(q) \cap DOMAIN Table(q)}
WriteItems(q) ==
    CASE q.fc = WRITE_SINGLE_COIL -> {<<Coils[q.address + 1], Writedata(q)>>}
      [] q.fc = WRITE_MULTIPLE_COILS -> BitItems(q)
      [] OTHER -> WordItems(q)

Reached(w) ==
    \E n \in DOMAIN request.ids :
      request.ids[n] = w[1] /\ w[1] \in applied /\ PLC!Payload(request, n) = w[2]

\* A write that is confirmed has stored in the controller, item for item, what
\* the client sent for it.
ConfirmedWriteReached ==
    Responding /\ Confirmed /\ TCP_Query.fc # WRITE_MULTIPLE_COILS =>
      \A w \in WriteItems(TCP_Query) : Reached(w)

\* The same for several coils.
ConfirmedCoilsReached ==
    Responding /\ Confirmed /\ TCP_Query.fc = WRITE_MULTIPLE_COILS =>
      \A w \in WriteItems(TCP_Query) : Reached(w)

\* A read that is answered with data from a call carries at each item's place
\* what the call delivered for that item.
ReplyCarriesItems ==
    Responding /\ handler = "called" /\ Answered =>
      \A a \in Window(TCP_Query) :
        IF Words(TCP_Query)
        THEN a \in DOMAIN Table(TCP_Query) =>
               \E n \in DOMAIN request.ids :
                 /\ request.ids[n] = Table(TCP_Query)[a]
                 /\ SwapPairs(Readdata[n]) =
                      SubSeq(SendReply.values, 2 * (a - TCP_Query.address) + 1,
                             2 * (a - TCP_Query.address) + Len(Readdata[n]))
        ELSE \E n \in DOMAIN request.ids :
               /\ request.ids[n] = Table(TCP_Query)[a + 1]
               /\ Readdata[n] = <<SendReply.values[a - TCP_Query.address + 1]>>

\* Data in a reply was read for this query.
RepliesAreRead ==
    Responding /\ Answered => handler = "called"

\* What can be in the image for a register item: nothing yet, what a read
\* delivered, or what a confirmed write left.
Sent(id) ==
    UNION {{PLC!Payload(r, n) : n \in {k \in DOMAIN r.ids : r.ids[k] = id}} :
             r \in {x \in Requests : x.op = "writeBytes" /\ PLC!SizeMatches(x, 65536)}}
Known(id) ==
    {Zeros(Map!size(id))} \cup {SwapPairs(v) : v \in Sent(id)}
      \cup {GetData(v) : v \in DeviceValues[id] \cup Sent(id)}
Whole(registers, table) ==
    \A a \in DOMAIN table :
      SubSeq(registers, 2 * a + 1, 2 * a + Map!size(table[a])) \in Known(table[a])

\* It is always one of these as a whole, never parts of two, although windows of
\* any place and size are copied to the image.
ImageIsWhole ==
    handler # "starting" =>
      Whole(tab.registers, HoldingRegs) /\ Whole(tab.input_registers, InputRegs)

=============================================================================
