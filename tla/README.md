# Verification of the S7-to-Modbus gateway

The gateway (`src/S7toModBusGW`) polls a Siemens controller with the snap7
library and serves the values it finds to Modbus TCP clients, which may also
write some of them back. It reads its configuration with rapidjson, whose headers
are part of the sources. This directory holds TLA+ models of both, the TLC
configurations that check them on small instances, and proofs of the gateway's main
results for every configuration.

## 1. Inventory

Below, `rj/` is `src/S7toModBusGW/rapidjson-master/include/rapidjson/`; the other
names are under `src/S7toModBusGW/` unless a directory is given.

| component | source | state | operations |
|---|---|---|---|
| Siemens PLC client | `PLC.cpp`, `Include/PLC.h` | `Status`, `ReadWriteMutex`, `ListOfDataItems`, `ListOfDataItemGroups`, the snap7 client, the run thread's `Error_Count` | run thread: connect, poll the groups, go offline, reconnect; for the Modbus thread: `ReadBitsFromModbus`, `ReadBytesFromModbus`, `WriteBitsFromModbus`, `WriteBytesFromModbus` |
| Data items | `dataItem.cpp`, `Include/dataItem.h` | `Status`, `localStatusCopy`, `localCopy`, the transfer buffer `pdata`, type, size, access | `SetStatus`, `CheckDataChange`, `GetData`, `DetermineModbusRegType` |
| Modbus address map | `ModbusServer.cpp:49-108` | `Coils`, `InputContacts`, `HoldingRegs`, `InputRegs`, the sizes of the register image | built once by `StartRunThread`, looked up by every handler |
| Modbus request handlers | `ModbusServer.cpp:127-524` | `DeviceMemory`, the pending query | eight function codes, `SendReply` |
| Modbus listener | `ModbusServer.cpp:530-640` | sockets, `refset`, `fdmax`, `IsConnected` | `Run`: select, accept, receive, 20 s timeout, close |
| LEDs | `LED.cpp` | the output pins, which outlive the process | two threads blink `Status` and `IsConnected`; run and fault lamp |
| Start-up | `main.cpp`, `PLC.cpp:23-86` | how far `main` has come, singletons | licence check, configuration, `StartSiemens`, `StartRunThread`, every exit |
| Start scripts | `src/Start_shells` | `count` of the button's samples, network files | the service that restarts the firmware, `StartFirmware.sh`, `Restart.sh` |
| rapidjson: reader and writer | `rj/reader.h`, `rj/writer.h`, `rj/prettywriter.h`, `rj/internal/` | parser stacks, writer levels | three parsers of one grammar, handlers' events, two writers, number conversion |
| rapidjson: encodings | `rj/encodings.h`, `rj/encodedstream.h` | none | encode, decode, validate, transcode, detect |
| rapidjson: values and documents | `rj/document.h` | a tree of values in memory blocks, the parse stack | copy, move, swap, insert, remove, compare, parse into, accept |
| rapidjson: pointers | `rj/pointer.h` | tokens, name buffer | parse, stringify, compare, create, get, set, swap, erase |
| rapidjson: regular expressions, schemas | `rj/internal/regex.h`, `rj/schema.h` | states of a machine; schemas, references, the contexts of a validator | compile, search; compile a document, validate event by event |
| Former server | `ModbusServer_old.cpp` | - | not built (`CMakeLists.txt` does not list it) |
| Other libraries | snap7, libmodbus, bcrypt, wiringPi | - | vendored, used as services |

How they interact. The service starts `StartFirmware.sh`, which starts the program,
and starts it again when it ends. `main` creates the singletons, checks the licence,
reads the configuration, starts the run thread of the
PLC client and two seconds later the Modbus thread. From then on the two
threads share one `SiemensPLC` object, and, as one process, one table of
descriptors. The run thread takes `ReadWriteMutex`,
reads every poll group with one `ReadMultiVars` call, and copies each value to
its item's local copy. The Modbus thread answers reads from the local copies
without the mutex, and performs writes by calling the same snap7 client while
holding it. The LED threads look at the two status flags; the pins they write keep
their level when the process is gone. `Restart.sh` is a process of its own that
reboots the device. rapidjson is called by one thread, while the configuration is
read.

Hard behaviours, each listed with its line in `PROJECT.json` under `hazards`:

- two threads, one snap7 client, one mutex that covers part of the accesses:
  tests of `Status` precede the lock, reads use no lock, the first connection is
  made without it;
- the transfer buffer of an item is the poll's target and a write's source;
- the item's status is set before its value is copied;
- errors are counted across groups and cycles and reset in one place;
- a multi-variable call succeeds or fails as a whole *and* per item;
- the register of an item comes from an integer division, the size checks
  from the sum of the sizes of the items a window happens to contain;
- loops over `uint8_t`, `uint8_t` byte counts, and the limit of snap7 on the
  items of one call;
- one image serves all replies and outlives the query; windows of any place and
  size are copied over each other in it, in three byte orders;
- the listening socket is closed where a client's should be, its number stays in
  use until the next `select`, and the number is free for the other thread;
- clients' descriptors are never closed, and one failed `accept` is final;
- pins are written one by one, by threads of a process that may end between two
  writes; the status that a lamp shows changes while it is lit;
- the samples of the reset button are counted by a script that starts at 1;
- three parsers keep the same state in a call stack, a stack of counts and a table;
  writers know what comes next from counts alone;
- scans in blocks of 16 bytes, encodings with forbidden sequences, numbers that
  change their type at a digit, wide integers;
- values that own blocks, move, and are inserted into themselves; parses that fail
  halfway; pointers that grow containers while they walk down them;
- schemas that refer to schemas which do not exist yet, and validators that run
  inside validators.

What makes each component correct. *PLC client*: the client library is used by
one thread at a time; what a write sends is what was asked for; the answer of a
write is true; a local copy is what the controller last delivered; after
the cycle that goes offline no item is answered from its copy; every call returns; the gateway notices
outages and recovers from them; in one sentence, it is an image of the controller
whose writes and polls are single steps (`ProcessImage`). *Address map*: each
register belongs to at most
one item and each item has at most one address; the image is large enough;
accepted windows are inside it and aligned with their items. *Handlers*: a reply
carries the values
of the addressed items, read for this query; a confirmed write has reached every
addressed item; no item of the image is made of parts of two values; the calls
they make are those the PLC client is correct for. *Listener*: it always listens
again, a held client's query is answered however busy the others are, nobody
waits for ever, the status for the LED is true. *LEDs, start-up, scripts*: the run
and the fault lamp never contradict each other and no lamp stays lit for ever,
wherever processes end; a good device ends up serving, an unlicensed one shows the
fault; short presses of the button do not add up to a reset. *rapidjson*: the
parsers agree with each other and the writers with what they heard; conversions lose
nothing and refuse what they should; a value does what its documentation says and
every block has one owner; a validator that hears a value piece by piece decides
what the schema says about the whole.

## 2. Modules

| module | contents |
|---|---|
| `DataItems`, `DataItemsProofs` | types, sizes, byte order, poll groups, pieces of byte sequences: pure operators; induction, sums and pieces of data for the proofs |
| `SiemensPLC` | the run thread, the calls of the Modbus thread, the controller and the link |
| `ProcessImage`, `SiemensImage` | what a caller of it may rely on: the abstract specification; the mapping to it |
| `MCSiemensBits`, `MCSiemensLive` | instances of `SiemensPLC` for TLC |
| `SiemensPLCProofs`, `ProcessImageProofs` | its theorems, and that it implements `ProcessImage` |
| `AddressMap`, `MCAddressMap`, `AddressMapProofs` | `StartRunThread` as a state machine with the lookups of the handlers; the configurations TLC enumerates; the theorems |
| `Gateway`, `GatewayProofs` | the handlers and the image, composed with `SiemensPLC` and `AddressMap`; what carries over from them, and the calls that are made; the image, the replies and the confirmed writes |
| `MCGatewayBits`, `MCGatewayWords`, `MCGatewayCoils` | instances of it for TLC |
| `Listener`, `MCListener`, `ListenerProofs` | `Run`, the descriptors of the process, the clients' connections; instance; theorems |
| `Firmware`, `MCFirmware`, `FirmwareProofs` | the process, its service, its lamps, the reset button; instance; theorems |
| `JsonEvents`, `JsonWriter`, `JsonReader`, `JsonReaderProofs` | what handlers hear; the two writers; the three parsers; the theorems about them |
| `JsonScan`, `JsonEncodings`, `JsonStrings` | whitespace, comments and plain characters in blocks; encodings; strings and escapes |
| `JsonNumbers`, `JsonBigInteger` | numbers read and written; the wide integers that decide a rounding |
| `JsonPointer`, `JsonRegex` | pointers as texts and tokens; regular expressions |
| `MCJson` | all of these over tokens and texts of a few pieces |
| `JsonDocument`, `JsonValues` | values in memory blocks; the trees they stand for, and what each call promises of them |
| `JsonPointerValues` | the values of a document that pointers lead to, made and erased |
| `JsonSchemaRules`, `JsonSchema` | what a schema demands of a whole value; schemas compiled, values validated event by event |
| `MCJsonDocument` | calls on two values; a table of schemas |

### SiemensPLC

*State.* One variable per piece of shared state (`Status`, `ReadWriteMutex` with
its holder, `itemStatus`, `localStatusCopy`, `localCopy`, `pdata`), a pc and the
locals for each thread (`runPc`, `group`, `item`, `okItems`, `Error_Count`;
`modPc`, `request`, `index`, `Readdata`, `result`), the controller's memory
`device` and the link `connected`, and three history variables: `polled` (last
delivered value), `loaded` (items copied at least once), `applied` (items the
current call stored).

*Actions.* One step is one access to the shared state, so that every
interleaving of the code's loads, stores, locks and unlocks that another thread
could tell apart is a behaviour. A snap7 call is in progress while its thread's
pc stands at it (`connect`, `read`, `write`, `disconnect`, `reconnect`), and its
return is the step that leaves. The run thread is `ConnectReturns`, `MarkOnline`,
`StartCycle`, `ReadFails` or `ReadReturns`, per item `ItemValid` then
`CheckDataChange`, or `ItemInvalid`; at the third error `GoOffline`,
`SetDataItemStatus` item by item, `DisconnectReturns`; offline `TryToReconnect`;
then `Wake`. A call is `Call`, `GateOffline`/`GateOnline` (the test of `Status`
in the entry function), then for reads `ReadSiemensStatus`, `GetStatus` and
`Fetch` per item, for writes `ResourceGate` (the second test),
`LockForWrite`, `FillBuffer` or `RefuseFill` per item, and `WriteReturns` or
`WriteFails`. `DeviceStores` and `LinkBreaks` are the world outside.

*Peculiarities of the code that are in the model.* A write of several coils
sends zeros, because `CurrentBit` starts at 0 and is only shifted
(`PLC.cpp:494-498`); a write with no ids (which the handler of FC15 produces for
one coil) is answered OK; a refused multiple write reports the controller as
offline where a single one reports an invalid item; the index of the fill loop
wraps at 256; read windows are counted modulo 256 bytes, write windows modulo
65536.

*Abstractions.* Values are byte sequences in memory order. Sleeping has no
duration. `ping` and `ConnectTo` in `TryToReconnect` are one outcome, success or
not. `ReadMultiVars` reads all items of the call at one moment. A failing write
may have stored any subset of its items. The controller's `Result` of an item is
ok or not. The thread start, the configuration file and `determineArea` only
choose constants. The build has no optimisation, so each access to an
unprotected flag is a load or store; an aligned local copy of 1, 2 or 4 bytes is
copied whole, therefore values are not torn.

### ProcessImage

What the Modbus server may rely on, without threads, mutexes or buffers: a write is
one step that stores a set of the asked items together, `"OK"` meaning all of them;
a poll sees a set of items at one moment; a copy takes what the last poll delivered;
a read goes item by item, since nothing in the code makes it see one moment.
`SiemensImage!Image` is the refinement mapping: the abstract variables are `device`,
`polled`, `localCopy`, `Status` and the locals of the call, and the rest of the state
disappears. The two places where it could show are `CheckDataChange`, whose buffer a
write may have filled in the meantime, and `WriteReturns`, whose buffer a poll may
have overwritten.

### AddressMap

The variables are those of `StartRunThread`; each step treats one item
(`PushCoil`, `PushInputContact`, `InsertHoldingReg`, `InsertInputReg`), the last one,
`NewMapping`, allocates the image. `Insert` keeps an entry that exists, like
`std::map::insert`, and `Registers` is the rounded-down half that
`ceil(size/2)` computes. The lookups of the handlers (`RegisterIds`,
`Accepted`, `ReadOffset`, `WriteOffset`) are operators over the tables, and
properties quantify over every window of registers. `Found` is what the loop over a
window finds: the addresses of the table inside it, in ascending order.

### Gateway

*Composition.* `PLC == INSTANCE SiemensPLC` and `Map == INSTANCE AddressMap` share
their variables with the module; `Background` is a step of the run thread, the
controller or the link, `BuildTables` and `StartServer` are `StartRunThread`,
which runs while the poll has already begun. `StartServer` allocates the image
`tab` (libmodbus' `modbus_mapping_t`) with the counts the tables came to.

*A query* is `[fc, address, count, data]`. `ReceiveAddressed` looks it up and makes
its call (`RequestOf`), whose steps are `CallStep`; `ReceiveOther` is a query that
finds nothing, or has a function code the gateway does not know. `Respond` ends
either: `Result` is the handler's return value, `Image` the image after the
`memcpy` or `modbus_set_bits_from_bytes` of a successful read, `SendReply` what
goes to the client. Only the Modbus thread touches `tab` and `TCP_Query`, hence one
step for the end of the call, the copy and the reply. `ImplementsPLC` states the
composition's side condition: the handlers use the object as `SiemensPLC` says, so
that what `SiemensPLCProofs` proves holds in the gateway.

*Peculiarities of the code that are in the model.* FC15 leaves out the last coil
(`ModbusServer.cpp:295`, an exclusive end computed with `- 1`); FC3 alone answers
OK for a register at which no item begins, from whatever is in the image, where
FC4 refuses (`ModbusServer.cpp:231-238`, `275-278`); bits are looked up by the last
one, modulo 65536, registers by the first; an item of one byte takes two in a
read. `GetData` reverses the four bytes of an item where `ConvertForWrite` reverses
none, so that a client gets the two registers of a `D_INT` or `REAL` back in the
other order than it wrote them; no doc says which order is meant, and no property
claims one.

*What clients send.* `QueriesAssumption` only says which values the fields of a frame
can have. The handlers make their call before `modbus_reply` looks at the query: a query
that finds nothing, with a count of 0 or of 126 registers or with a coil that is to become
neither off nor on, is answered `ILLEGAL_DATA_VALUE` (`Acceptable`) where the handler
returned OK, in the last case after the coil was written. Such queries are in the runs.
One restriction remains, the guard `KeepsProtocol` in `Next`: a query that *reaches items*
names at least one address and none past 65535, no more than the protocol allows, and has
as much data as its count calls for. The code does not check this:
`(uint16_t)(RequestAddress + itemCount - 1) < size` (`ModbusServer.cpp:136`, `169`, `293`)
is true of a range that wraps, the count of a register query is not looked at, and the
byte count of a write (`296`, `328`) is not compared with it. What the handlers do
with such a query is for the most part undefined (a range outside a `vector`, bytes that
nobody wrote), and it is left out. It is a guard of the environment, not of the handlers'
actions, so that every theorem about the gateway is one about clients that keep the
protocol in this sense.

*Abstractions.* `modbus_reply` and its checks are external. `Requests` are calls of the shape that
`HandlersCallWell` proves of every call that is made here (`CallsAssumption`); the values
of the controller have the sizes of their items (`ValuesAssumption`), and its groups
and its memory are those `SiemensPLC` assumes (`SiemensAssumption`). A reply is an
operator, not a variable: its only effect is what the properties say of it at the moment
it is sent. Exceptions are names.

### Listener

*State.* `descriptors` is the process's descriptor table: what each number refers
to (`free`, the listening socket, the Siemens side's socket, a client). Numbers are
allocated lowest first, which is what makes the code's stale numbers dangerous.
`server_socket`, `refset`, `rdset`, `IsConnected` are the code's; `plc_socket` is
snap7's. A client is `away`, `up` or `gone`, in the `backlog` until it is accepted,
and in `query` while it waits for an answer.

*Actions.* `ListenSucceeds`/`ListenFails` are the beginning of `Run`; `SelectFails`
(a selected number is closed), `SelectTimesOut` and `SelectReturns` its `select`; the
scan of the ready descriptors takes one per step, in ascending order, by what the
number refers to *now*: `Accept`, `AcceptFails`, `Serve`, `ReceiveFails`. A receive fails
for a client that has gone, and for one that is there but has sent half a frame or what is
none; either closes the listening socket (`ModbusServer.cpp:517-519`). An accept fails
when no descriptor is left, when the listening socket is no longer there and, with
`AcceptMayFail`, for any other reason, with or without losing the connection that it was
to give. `Terminate`
is `close_sigint` and the return, after which `WaitForReqThread` calls `Run` again.
`LinkCloses` and `LinkOpens` are snap7's.

*Abstractions.* Closing the socket and clearing `IsConnected` are one step, the
status being read by the LED only. A connection that is over stays over: a client
that comes back is another client. The limit of the backlog is left out. Time is
left out; a time-out can occur when nothing is ready. What a client has sent is in
`query` until somebody reads it, and is a query or not when it is read. A frame of which
the rest never comes is a failed receive, after the time-out libmodbus has for that.

### Firmware

*State.* `mainPc` is the one line of control of systemd, `StartFirmware.sh` and
`main`; `runLed`, `faultLed` and `lamp` are the output pins, which keep their level
when the process ends; `blinkPc` says where each blink thread stands and `status` is
the flag it shows; `count` and `restartPc` belong to `Restart.sh`. `leftLit`, `held`
and `ended` are history: what was lit when a process ended, for how many samples the
button has been held, how the process ended.

*Actions.* Each writes one pin or takes one decision: `CheckLicence`, `FaultRunLow`
then `FaultHigh` and the exit, `RunFaultLow` then `RunHigh`, `StartSiemens` with a
good, an unreadable or an incomplete configuration, `LampOn` and `LampOff`, `Sample`,
`WriteFactoryFiles`, `Reboot`. `Killed` ends the process at any point. The owner edits
the configuration, somebody presses the button.

*Abstractions.* Two outcomes stand for the licence hash. Sleeping has no duration.
The content of the files is left out. `serving` stands for everything the other
modules describe.

### The reader and the writers of rapidjson

*`JsonReader`* steps the recursive parser, the iterative one and `IterativeParseNext`
side by side: a step reads one lexeme, with one choice of what the handler answers.
`recursive.frames` is the call stack of `ParseArray` and `ParseObject`;
`iterative.stack` holds the counts and states the code pushes; `pull` is the same kept
between calls. `Predict` is the table of states and tokens, by the states that share a row, and `Transit` its actions. The two writers
hear what the recursive parser's handler accepted; what they write is a sequence of
lexemes again. Flags are chosen by `Init`. An assertion that fails is an outcome of its
own.

*`JsonScan`* describes `SkipWhitespace` and the copying of plain characters, with the
16-byte blocks of SSE2 and NEON shortened to four and every alignment. *`JsonStrings`*
reads strings from every source encoding into every target, in place or not, validating
or not, and writes them. *`JsonEncodings`* is the five encodings over units, with marks
and detection. *`JsonNumbers`* reads numbers with the code's case distinctions, the
widths being constants (5 bits for `int`, 14 for `int64_t`, 6 for the exact part of a
double), because the decisions only depend on where a digit goes past a limit; a double
is an integer and a power of ten. *`JsonBigInteger`* has words of 10 bits.
*`JsonPointer`* has indices of 8 bits. *`JsonRegex`* builds the machine of states as
`Compile` does, with the counted operand copied by index, and steps it; unsigned
numbers have 4 bits. In `MCJson`, `Grow` adds a piece to a text and `Convert` hands it to the
conversion, whose whole result the step is checked for (`TextsConvert`, `NumbersConvert`).

### Values and documents of rapidjson

*State.* `heap` maps blocks to sequences of cells; a cell is the data of a value: its
flags, a block it owns, size and capacity. Block 1 holds the values of the program.
*Actions.* A step is any call of `Calls`, the member functions that change a value, on
any value or part of one, with any other as argument that is neither inside it nor
around it, when the function's assertions hold. `Promise` (`JsonValues`) says of the trees what the call does; the invariants
relate both after every reachable sequence of calls. `Populate` is a parse that may fail
after any event, with the parse stack in memory. `Accept` and `==` are operators.
*`JsonPointerValues`* adds `Create` and what is built on it as operators on the heap. The
step `UsePointers` of `MCJsonDocument` takes every state that fewer than
`MaxPointerCalls` calls lead to, and is checked for all pointers (`PointersFindValues`).

*Abstractions.* The allocator is the one that frees each block; a string is long (owns a
block) or short (kept in the value). Numbers and
Booleans, which own nothing, are left out.

### Schemas of rapidjson

`JsonSchema!Init` compiles one document of a table: `CreateSchemaRecursive` over every
object, `HandleRefSchema`, and the resolution of what is left. `Next` then offers the
validator any next event of a value, within the bounds of the case; `validator` has the
contexts the code keeps on its stack, each with the parallel validators of its
`allOf`, `anyOf`, `oneOf`, `not` and dependencies. `JsonSchemaRules` says of the whole
value what draft 4 demands, and which keyword is violated. A hash is what it is computed
from; strings and patterns are tables.

## 3. Runs

| run | instance | what it shows |
|---|---|---|
| `bits` | two coils in different groups, one input contact; FC2 with the status contact, FC5, FC15 of one and three coils, writes of the read-only item | the safety invariants of `SiemensPLC`, and that it implements `ProcessImage` |
| `live` | two coils, two groups, `FairSpec` | `CallsReturn`, `Recovers`, `NoticesOutage` |
| `stale` | the instance of `bits` | **violated**: a read between `SetStatus(true)` and the copy delivers zeros as data |
| `addresses` | all configurations of up to 3 items of 4 sizes and both accesses, up to 5 in one register table | the tables are consistent, accepted windows fit |
| `gateway_bits` | a coil and a `D_INT` to read; FC1 inside and past the table, FC1 of no coil, FC2 on the status, FC5 with on and with neither, FC4 on both registers, one, the other, an unknown code | `ReplyCarriesItems`, `RepliesAreRead`, `ImplementsPLC` |
| `gateway_words` | a `D_INT` and an `INT` to write; FC3 on both and on the middle of one, there also for 126, FC16 on both, FC6 of right and wrong size | multiple writes cut into slices, `ImageIsWhole` |
| `gateway_coils` | three coils, FC15 sets them all | **violated**: confirmed, two are sent 0 and the third is left out |
| `listener` | three clients, four descriptors, a link and accepts that fail, frames that cannot be read | `NumbersAgree`, `StatusIsTrue`, `ServiceReturns`, `QueryAnswered`, `BacklogServed` |
| `listener_leak` | the same with a link that holds and accepts that fail for want of a descriptor only | **violated**: after enough clients the gateway never listens again |
| `firmware` | a hold of three samples, any licence, any edits, deaths at any point | lamps, reset button, `EndsUpServing`, `UnlicensedShowsFault` |
| `json_texts` | every text of a few lexemes for the parsers and writers under every set of flags; every text of a few pieces for each conversion | `ParsersAgree`, `EmitsOneValue`, `WritersCopy`, `TextsConvert`, `NumbersConvert` |
| `json_values` | every sequence of five calls on two values; 77 schemas and every value of up to 8 events | `BlocksOwnedOnce`, `ValuesKeepPromises`, `PointersFindValues`, `ValuesAreValidated` |

*Bounds of the gateway.* Two groups are what it takes for an error in the middle of a
cycle, three items for a group with more than one and a read-only item in a write.
The values of `DeviceValues` differ from every written value in `bits`, so that a value
tells its origin; in the `gateway` runs the controller's program stores the values that
the clients write, which saves states. `Error_Count` needs no bound, it is reset at 3.
Requests are few, but each call chooses anew, so that any sequence of them happens. In
`addresses`, alignment can only go wrong from the second item on and repair
itself with the fifth (a `BYTE` before and behind a longer item), hence five.
Alignment and `EveryItemReadable` leave out configurations with one-byte items in a
register table: `ceil(size/2)` divides integers, such an item gets no register and hides
itself or the next one. In `listener`, four descriptors are the Siemens side's,
the listening socket's and two clients': with three clients they may or may not
run out, so the run has both, and the exceptions of its properties are names of
what happens then (`Short`, `Mixed`). The properties say nothing of how long these last;
that `Short` is final is what `listener_leak` shows. `QueryAnswered` and `BacklogServed`
follow one client (`Observed`), which stands for each: the model tells them apart by
name only. Real processes have some thousand descriptors
and as many clients over time. In `firmware` a hold of three samples stands for the ten
of the script: two presses of less than a hold can add up to one, and `FirmwareProofs`
proves the invariants for every length.

*Bounds of rapidjson.* The parsers nest three deep with two values in a level, enough
for a count in a level that was left and entered again. The pieces of the
conversions are the values next to the limits of each decision (127 and 128, 0xD7FF and
0xE000, a `9` at the place of the last digit), and the texts are long enough to reach
each of them from both sides: four bytes of UTF-8, six characters for a block of four
that begins anywhere, five pieces for comments in one another, eight characters of a number
for sign, integer, fraction and exponent.
`kDefaultCapacity` is 1, so that the first insertion reallocates; three blocks beside
the program's and four cells are a container in a container with a name. Each schema of
the table combines keywords that share state in the validator. The bounds of
all models are in their MC modules and `.cfg` files.

*Fairness.* `SiemensPLC!FairSpec` says that each thread keeps running and each snap7
call returns (the library has timeouts), and that a thread waiting for the mutex gets
it if it is free again and again: strong fairness of `StartCycle`, `MarkOnline`,
`LockForWrite`. The run thread sleeps 100 ms or 1 s between cycles with the mutex
free, the Modbus thread frees it after every write, which is what makes this
reasonable for a default `pthread` mutex. Clients, controller and link are under
no obligation. In `Listener`, `FairSpec` says that the Modbus thread is scheduled,
its 20 s time-out included; clients and link may do anything or nothing. In `Firmware`,
systemd, the program, each blink thread and the script of the button keep going; nobody
has to press the button, edit the file or kill the process, and the properties name the
disturbances they assume to end.

*Deadlock.* It is checked everywhere but for `AddressMap`, which ends when the
image is allocated, and the two runs about rapidjson, where texts, values and calls
come to an end.

## 4. Proofs

Every theorem below is about all values of the constants that satisfy the named
`ASSUME`s of its module, which TLC evaluates on every run.

`DataItemsProofs` has what the others need to know of data. The library's induction
theorems take an operator as a parameter, which none of the provers can instantiate.
The same is said of sets instead: a set of numbers that has 0, and with n also n + 1,
has all of them (`SetInduction`, from the well-foundedness of the natural numbers), and a
function that is defined step by step exists and is unique (`PrimitiveRecursion`). From
these follow what the sums of sizes are (`SumExists`, `OffsetsRounds`), where the pieces of
a concatenation stand (`FlattenPlaces`), and how pieces survive copying, overwriting and
swapping (`OverwrittenPiece`, `SwappedPiece`). This works for recursive functions
and folds over numbers; recursion over trees and texts stays with TLC.

`SiemensPLCProofs` proves `TypeCorrect`, `Strengthening`, `ClientIsExclusive`,
`OutageClearsItems`, `PayloadIsSent`, `CopiesArePolled`, `WriteAnswersAreTrue`,
`WritesAreWritable`, `DataKeepsToItsItem` and `AnswersAreComplete`. The argument is one
inductive invariant,

    IndInv == TypeOK /\ Control /\ Calls /\ Copies

where `Control` (with `MutexInv`, `StatusInv`) ties the mutex's holder, `Status`
and the items' validity to the two pcs; `Calls` (`RequestInv`, `FillInv`) says
what is known at each step of a call, in particular that the buffers up to
`index` hold the payload; `Copies` (`CopyInv`) says that the buffers of a poll in
progress hold what was delivered. None of the safety invariants is inductive
alone: `ClientExclusive` needs the mutex *and*, for the first connection which is
made without it, that no write gets past a `Status` that is still false;
`WriteSendsPayload` needs that the poll changes buffers only while it holds the
mutex; `LocalCopyIsPolled` needs that a write, which changes the same buffers, is
shut out between a read and the copies. `WritesAreWritable` needs that a write in the
client has filled the buffer of each of its items, which `RefuseFill` prevents.

Two more invariants follow the data. `Origins` (`DataKeepsToItsItem`) says of each item's
memory in the controller, buffer and copy that what is there was made for this item:
stored by the controller's program or sent by a client for it, or still the
constructor's zeros. `Answers` (`AnswersAreComplete`) says that an
answer has one entry per item, in the order of the ids, and that `"OK"` means all of them.
They are what the theorems about the gateway's replies start from.

`ProcessImageProofs` proves `ClientIsProcessImage == Spec => ImplementsProcessImage`: the
initial states map to initial states and every step to an abstract step or a stutter, with
`IndInv` and `AnswerInv` (a read has as many entries as its index says) as invariants.
`CheckDataChange` maps to `Publish` because the buffer it copies is `polled`
(`CopyInv`); `WriteReturns` to `Write` because the buffers it sends are the payload
(`FillInv`); filling buffers, locking and the steps of the poll in between are stutters.

The assumptions of both are the named `ASSUME`s of the module: items have a known type,
every item is in one place of one group, the ids of a request are distinct items
(`AddressesAreUnique` is the corresponding result about the tables), and data that
is cut into items is bytes.

`AddressMapProofs` proves `TypeCorrect`, `RegistersAreDisjoint`,
`ImageIsLargeEnough`, `AddressesAreUnique` and `TablesSeparateAccess` for every
configuration, from an invariant that describes the tables after the first
`ResourceId` items (every entry's id is below it, every entry's registers end at
or below the current address, entries are in order).

`WindowsAreSafe` and `EveryItemHasAWindow` are about what the handlers accept: a window
whose first register is in the table and whose found items have as many bytes as it has
registers. That such a window ends inside the image (`WindowFits`) holds with items of
one byte too, by induction over the found items: the bytes up to one of them are at most
those of the registers in front of it, plus its own. That it is aligned
(`WindowIsAligned`) needs more than `IndInv`: `CompleteInv` says that the
tables are packed, each item beginning where the one before ends, so that the found items
follow each other without a gap (`WindowHasNoGaps`) and the sums of their sizes are their
distances (`OffsetsOfWindow`). With a one-byte item the tables are not packed, and both
statements are about configurations without (`NoByteRegisters`), like the properties.

`ListenerProofs` proves `TypeCorrect`, `ClientsKeepDescriptors` and `StatusCorrect`
for every number of clients and descriptors, from the one assumption that a client
is not one of the words for the other sockets. `StatusIsTrue` could fail through
snap7 alone: if Run closes snap7's socket under the number of its own, snap7 later
closes that number again, and if a client had it by then, the client would be lost
while the status still showed it. `NumbersAgree` is why it has not: when the number
was snap7's, all the lower ones were clients', whose descriptors are never closed,
so the next socket of the process, which is the listening one, gets it. It is
inductive with `TypeOK`; `StatusInv` extends `StatusIsTrue` to the steps of a scan.

`FirmwareProofs` proves `TypeCorrect`, `LampsAgree`, `LampsAreSwitchedOff` and
`PressesDoNotAddUp` for every `HoldCount` above 1. `IInv` adds that the lamp that is about
to be switched on finds the other one dark, wherever the process before was stopped,
and that `count` and `held` differ by at most the one the script starts with.

`GatewayProofs` takes these results to the gateway as a whole. `HandlersImplementTables`:
the tables are built there as on their own, so that every theorem of `AddressMapProofs`
holds in it. `HandlersImplementPLC`: if the calls that the queries lead to are among
`Requests` (`CallsAreRequests`), the Siemens side behaves as `SiemensPLC` says, so that
those of `SiemensPLCProofs` and `ProcessImageProofs` hold too. The condition says
nothing but that the constant `Requests` is large enough: with all well-formed calls in
it, it always holds (`HandlersImplementClient`). That follows from `HandlersCallWell`, which
says what a good call rests on, and on what it does not. A query for registers names
distinct items that are no bits, of the table of its function code, whatever count and data
it carries: this needs the tables' invariant alone, since the loop over the window only takes
what it finds. That a query for bits stays in its table, and that a write has as much data as
it takes, needs `KeepsProtocol`: for such queries the whole call is well formed. `ItemsStayInImage`: whatever is read, written and copied, every
register of an item with an address lies in the image. It combines `ImageIsLargeEnough`
with `ImageSizes`, that the parts of the image keep the sizes they were allocated with.

It also proves what a client gets. The invariant of that part is

    ServingInv == Tables!IndInv /\ Tables!CompleteInv /\ HandlerInv /\ SiemensInv

the invariants of the tables and of the Siemens side, and between them `HandlerInv`: while a
handler waits, its query is one that its table has, and the request is the one the query
leads to. `CallsAreRequests` is the condition of all of these but the first.

- `OthersAreRead`: `RepliesAreRead` for every function code but FC3, the one that
  answers OK without a call (section 5).
- `GatewayTypeCorrect`: with `ImageFilled`, the image keeps its sizes and holds bits and
  bytes. What is copied to it has the right length because the sizes of the answer's
  entries, which `Answers` gives, add up to the window that `Accepted` measured.
- `WritesReachTheirItems`: a confirmed write of registers or of one coil has reached each
  item it was addressed to. `WriteAnswerIsTrue` says that the items of the call are
  stored; what remains is that each slice is the item's part of the query, which is
  `WindowIsAligned`, and that FC5 writes the bit that was sent. FC15 is left out, as in
  the property: it is not true of it (`gateway_coils`).
- `RepliesCarryTheirItems`: each item's registers in a reply are what the call delivered
  for it, through three conversions that are followed piece by piece (`Copied`,
  `Overwrite`, `SwapPairs`).
- `ImageStaysWhole`: the registers of an item in the image are one value that was
  delivered or written for it, never halves of two. It is inductive as `WholeInv`: a copied
  or stored window is aligned, so it overwrites an item's registers with a whole value, and
  the items outside it are not touched, because no two share a register.

About registers, the last three are proved for configurations whose register items have
two bytes or four (`NoByteItems`). This is needed: a `BYTE` gets no register, and with
`BYTE`, `INT`, `BYTE`, `INT`, `D_INT` a window of three registers is accepted that ends in
the middle of the `D_INT`. About bits they hold for every configuration.

`JsonReaderProofs` proves `ParsersAgree`, `EmitsOneValue` and `WritersCopy` for every set of
lexemes and flags, every nesting and number of values, every answer of the handler and
every indentation. The lexemes are not blanks (`LexemesAssumption`), which makes what the
writers put between them recognisable. The invariant of the parsers is

    ReaderInv == Running \/ Ended \/ Commented

*The parsers.* In `Running`, `Nested` says of the recursive parser's calls that all but the
innermost one are in the middle of a value and that what a call counted agrees with what it
read last; `StateOf` is the state that an iterative parser is in after the same text, and
`Stacked` says that its stack has the counts of the calls and in each place the state
behind a value of the container around. The lexeme is then followed through each parser
on its own (`IterativeStep`, `PullStep`), by what the innermost call waits for, and the
outcomes are equal: both go on and are related again, both return the same, or one of the
differences that `ParsersAgree` names. `Ended` is the property itself, as nobody reads on;
`Commented` is the one state in which the pulled parser goes on alone. That `ParsersAgree`
is not inductive is clear from its text: it says nothing of the stacks.

*The handler.* `TheHandlerHearsOneValue` is a refinement: `Open` takes each call to a
container, and a lexeme of the recursive parser is a step of `JsonEvents` or a stutter
(`HeardSeen`, `PassedSeen`, `FinishSeen`, `FailSeen`). A container's count is one more than
the commas if a value follows the last one (`Total`), which is the place where a trailing
comma or an empty container could miscount.

*The writers.* A writer knows counts only. `WriterInv` adds to the property that while the
parsers run it is in one level per call (`Levels`), where an object's level has counted
each member twice and a name that waits for its value once more (`ValuesIn`), and that the
lexeme before is a delimiter if and only if the innermost call has just read one
(`JustRead`). From the first, the delimiter that the parity of the count demands is the one
that was read (`LevelsAgree`), a container is only closed after a value (`CloseAgrees`), and
no assertion can fail; from the second, it is the one that `Expected` asks for.
`SpreadCopies` is about the text: what stands between the delimiter and the lexeme are
blanks, and after a line break as many as the level demands.

*Only model-checked.* `CallsReturn`, `Recovers`, `NoticesOutage`, `ServiceReturns`,
`QueryAnswered`, `BacklogServed`, `EndsUpServing`, `UnlicensedShowsFault` (liveness under
fairness is beyond the prover), and of rapidjson `TextsConvert`, `NumbersConvert`,
`BlocksOwnedOnce`, `ValuesKeepPromises`, `PointersFindValues` and `ValuesAreValidated`.
These are about texts, trees and schemas, and their modules are written with RECURSIVE
operators, which the prover does not take.

## 5. Known deviations

Where the code does something else than a reader would expect, the model does the same,
and a property that the deviation would break is restricted by a named condition.
The first three are runs that are expected to be violated, with findings in
`PROJECT.json`; the others were met while modelling.

*Gateway.*

- `stale`, `gateway_coils`, `listener_leak` (section 3).
- A poll group of more than 20 items (`MaxVars`, snap7.h:264) is never read: the call
  fails as a whole (`PLC.cpp:248`), and the gateway goes offline and online again for ever.
  `ReadFails` is then the only outcome of the call; the groups of the runs are smaller.
- FC3 at a register where no item begins is answered OK from whatever is in the image,
  FC4 is refused (`ModbusServer.cpp:231-238`, `275-278`). `RepliesAreRead` is therefore
  checked for coils, contacts and input registers.
- `GetData` reverses the four bytes of an item where `ConvertForWrite` reverses none:
  a client gets the two registers of a `D_INT` or `REAL` back in the other order than it
  wrote them.
- A one-byte item of a register table gets no register (`ModbusServer.cpp:84`).
- A query that breaks the protocol is refused after the call was made, if at all: FC5
  with a value that is neither on nor off writes the coil and reports an error.
- One client that sends what is no query has the gateway close the listening socket and
  leave all clients (`ModbusServer.cpp:517-519`), as one that ends its connection has.
- The run lamp stays lit when the configuration does not parse and the process exits. A
  member that is missing is an assertion of rapidjson, which `catch (int)`
  (`PLC.cpp:69`) does not catch: the process is aborted and restarted for ever.
- `Restart.sh` writes `ConfigureNetwork.sh`, `StartFirmware.sh` runs `ConfigNetwork.sh`.
  Its count starts at 1, so the first press needs one sample less.

*rapidjson: reader, writer, encodings, numbers.*

- `IterativeParseNext` goes on after a comment that is not closed (`KnownDifference`).
- The range of UTF-8 bytes is checked, but a lone low surrogate written as `\uDC00` is
  accepted. A UTF-8 mark in memory is skipped byte by byte. A UTF-16LE text that begins
  with a mark and a NUL is taken for UTF-32LE.
- `NaN.5` and `Infe5` are read as doubles, `0e309` is refused as too big, and with full
  precision an assertion of `StrtodFullPrecision` (`internal/strtod.h`) can fail for long
  exponents.
- `SetMaxDecimalPlaces` does not shorten numbers written with an exponent.
- `BigInteger::Difference` loses the borrow at a word of all ones
  (`internal/biginteger.h:186-206`; `BorrowSafe`).

*rapidjson: values and pointers.*

- An object with two members of one name may be equal to another object, where
  `document.h:1010` says it never is (`NamesDiffer`).
- `operator=` destroys its own value first, so that `v = v[0]` is not a legal call.
- An index that overflows is only noticed if the sum gets smaller: `/10000000000` is the
  index 1410065408 (`pointer.h:967-975`).
- `Append` to a pointer made of the caller's tokens copies from a null name buffer, and
  `Append` to an invalid pointer yields a valid one. The models append to parsed, valid
  pointers.

*rapidjson: regular expressions and schemas.*

- `Search` forgets an empty match at the first character: `a*` does not find itself in
  `b`. A repeated operand that may be empty, `(a*)*`, sends `AddState` into a recursion
  without end (`RepeatsEmpty`); a quantifier behind `(` or `|` is applied to what stands
  before it (`Misplaced`); `()` is an assertion; `ParseUnsigned` misses some overflows.
- With `patternProperties` and an additional schema, a member has to satisfy one of them
  only. A required member with a default may be missing. A name that is only required, or
  named by a dependency, is no additional one (`Peculiar` for all three).
- A number kept as text is validated as a string. A `$ref` that leads back to itself is
  followed without end; the table has no such document.
- A schema keyword whose value is no object leaves an uninitialised validator; the table
  has none. Two members of a name cancel in the hash for `uniqueItems` and `enum`.
- A violation of `patternProperties` is reported at the typeless schema, one of disallowed
  further items as `items` (`ReportIsTrue`).

## 6. Plan

Done: the gateway with its abstract specification, the firmware around it, rapidjson, and
theorems about the safety properties of the first two and of the parsers and writers.

1. `Listener` and `Gateway` in one model for the query that waits for the mutex
   while other clients come and go.
2. The ownership of blocks (`BlocksOwnedOnce`) for every tree: `JsonDocument` written with folds in
   place of its RECURSIVE operators, and an invariant that names each block's owner.
3. rapidjson's pool allocator and its streams, and the error report of a validator.

Not modelled, and why: `ModbusServer_old.cpp` is not built; snap7, libmodbus, bcrypt and
wiringPi are services, of which the models keep what their calls may return; what the
licence hash, `determineArea` and the `ping` command compute only chooses constants or an
outcome. Of rapidjson: the shortest digits of a double (Grisu, `internal/diyfp.h`,
`internal/dtoa.h` up to its formatting) are arithmetic of 64 bits that small widths do not
represent; the chunks of the pool allocator, file streams, parsing into the text itself
beyond strings, raw values, remote references and the texts of error reports.

What of rapidjson the gateway reaches: it parses a file into a document (`PLC.cpp:44-60`,
`ModbusServer.cpp:52-60`) with the recursive parser, and reads members and elements of its
values. The build defines no
`RAPIDJSON_SSE2` or `RAPIDJSON_NEON` (`CMakeLists.txt`), so that the scans in blocks are not
compiled, and neither the iterative and the pulled parser nor the writers, pointers, regular
expressions and schemas are called. They are modelled because the headers are
kept and shipped with the program; a reader who is interested in the gateway alone needs `JsonReader`,
`JsonStrings`, `JsonNumbers` and `JsonDocument`.
