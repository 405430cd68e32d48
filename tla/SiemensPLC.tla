----------------------------- MODULE SiemensPLC -----------------------------
(***************************************************************************)
(* The Siemens side of the gateway (PLC.cpp): the run thread that polls    *)
(* the controller into the items' local copies, and the four operations    *)
(* the Modbus thread calls on the same object.  The two threads share      *)
(* Status, the items and the snap7 client; ReadWriteMutex is held for a    *)
(* whole poll cycle and for the controller access of a write, but not by   *)
(* reads nor by the tests of Status.  One step is one access to the shared *)
(* state; a call of the snap7 client is in progress while the thread's pc  *)
(* stands at it, and the step that leaves it is the call's return.         *)
(*                                                                         *)
(* The build has no optimisation (CMakeLists.txt: "-g"), so every read of  *)
(* an unprotected flag is a load, and a local copy of 1, 2 or 4 aligned    *)
(* bytes is copied whole.                                                  *)
(***************************************************************************)
EXTENDS DataItems, Integers

CONSTANTS
    Config,                \* the configured items: [type, access, group]
    ListOfDataItemGroups,  \* MakeDataItemGroups(Config)
    DeviceValues,          \* what the controller's program may store, per item
    Requests,              \* the calls the Modbus thread makes
    MaxVars                \* items one multi-variable call may carry (snap7.h)

\* A resource id is an index of ListOfDataItems.
Items == 0 .. Len(Config) - 1
SIEMENS_STATUS == -1
size(i) == SizeOf(Config[i + 1].type)
IsDataItemWritable(i) == Config[i + 1].access
GroupItems(g) ==
    {ListOfDataItemGroups[g][k] : k \in DOMAIN ListOfDataItemGroups[g]}

\* Offset of the n-th item's bytes in a write's payload: the sizes before it.
PayloadOffset(ids, n) ==
    LET pos[k \in Nat] == IF k <= 1 THEN 0 ELSE pos[k - 1] + size(ids[k - 1])
    IN  pos[n]

\* What the n-th item of a write receives.  A single coil gets the lowest bit
\* of the data.  With several coils CurrentBit starts at 0 and is only shifted,
\* so masking with it clears every byte.  Registers get their slice.
Payload(r, n) ==
    CASE r.op = "writeBits" /\ Len(r.ids) = 1 -> <<r.data[1] % 2>>
      [] r.op = "writeBits" /\ Len(r.ids) # 1 -> <<0>>
      [] OTHER ->
           LET pos == PayloadOffset(r.ids, n)
           IN  ConvertForWrite(SubSeq(r.data, pos + 1, pos + size(r.ids[n])))

\* The registers the request names and the items it resolved to agree in size.
\* The read counts the bytes in a uint8_t, the write in a uint16_t.
SizeMatches(r, width) ==
    PayloadOffset(r.ids, Len(r.ids) + 1) = (2 * r.count) % width

ReadOps  == {"readBits", "readBytes"}
WriteOps == {"writeBits", "writeBytes"}

\* Every configured item is in exactly one place of exactly one group.
ASSUME ConfigAssumption ==
    /\ Config \in Seq([type : SIEMENSDATATYPES, access : BOOLEAN, group : Byte])
    /\ Len(Config) > 0

ASSUME GroupsAssumption ==
    /\ ListOfDataItemGroups \in Seq(Seq(Items) \ {<<>>})
    /\ ListOfDataItemGroups # <<>>
    /\ \A g, h \in DOMAIN ListOfDataItemGroups :
         \A j \in DOMAIN ListOfDataItemGroups[g] :
           \A k \in DOMAIN ListOfDataItemGroups[h] :
             ListOfDataItemGroups[g][j] = ListOfDataItemGroups[h][k]
               => g = h /\ j = k

ASSUME DeviceAssumption ==
    /\ DeviceValues \in [Items -> SUBSET Value]
    /\ MaxVars \in Nat

\* A read names an item.  The ids of a request are distinct (the tables never
\* hold an id twice), and its data, if it is cut into items, is bytes.
ASSUME RequestsAssumption ==
    \A r \in Requests :
      /\ r.op \in ReadOps \cup WriteOps
      /\ r.ids \in Seq(Items \cup {SIEMENS_STATUS})
      /\ r.op \in ReadOps => r.ids # <<>>
      /\ SIEMENS_STATUS \in {r.ids[n] : n \in DOMAIN r.ids} => r.op = "readBits"
      /\ \A m, n \in DOMAIN r.ids : r.ids[m] = r.ids[n] => m = n
      /\ (r.op = "writeBytes" => SizeMatches(r, 65536)) /\ r.op \in WriteOps
           => \A n \in DOMAIN r.ids : Payload(r, n) \in Value

VARIABLES
    \* Shared by the two threads.
    Status,           \* the controller is believed to be connected
    ReadWriteMutex,   \* its holder: "free", "run" or "modbus"
    itemStatus,       \* DataItem::Status
    localStatusCopy,  \* DataItem::localStatusCopy
    localCopy,        \* DataItem::localCopy
    pdata,            \* the item's transfer buffer, <<>> before it is filled
    \* The run thread.
    runPc, group, item,
    okItems,          \* the items of the group whose Result was 0
    Error_Count,
    \* The Modbus thread: its current call, or the last one when it is idle.
    modPc, request, index,
    Readdata,         \* one entry per item read so far
    result,
    \* The controller and the link to it (outside src/).
    connected, device,
    \* History: the last value the controller delivered per item (<<>> before
    \* the first), the items ever copied from it, the items the current call
    \* stored in the controller.
    polled, loaded, applied

sharedVars  == <<Status, ReadWriteMutex>>
itemVars    == <<itemStatus, localStatusCopy, localCopy>>
runVars     == <<runPc, group, item, okItems, Error_Count>>
modVars     == <<modPc, request, index, Readdata, result>>
deviceVars  == <<connected, device>>
historyVars == <<polled, loaded, applied>>
vars == <<sharedVars, itemVars, pdata, runVars, modVars, deviceVars, historyVars>>

-----------------------------------------------------------------------------
(* Initial state: StartSiemens has built the items and created the thread. *)

NoRequest == [op |-> "none", ids |-> <<>>, count |-> 0, data |-> <<>>]

Init ==
    /\ Status = FALSE
    /\ ReadWriteMutex = "free"
    /\ itemStatus      = [i \in Items |-> FALSE]
    /\ localStatusCopy = [i \in Items |-> FALSE]
    /\ localCopy       = [i \in Items |-> Zeros(size(i))]
    /\ pdata           = [i \in Items |-> <<>>]
    /\ runPc = "connect" /\ group = 1 /\ item = 1 /\ okItems = {}
    /\ Error_Count = 0
    /\ modPc = "idle" /\ request = NoRequest /\ index = 1
    /\ Readdata = <<>> /\ result = "OK"
    /\ connected = FALSE
    /\ device \in {f \in [Items -> UNION {DeviceValues[i] : i \in Items}] :
                     \A i \in Items : f[i] \in DeviceValues[i]}
    /\ polled = [i \in Items |-> <<>>] /\ loaded = {} /\ applied = {}

-----------------------------------------------------------------------------
(* The run thread.                                                         *)

ErrorLimit == 3
CurrentItem == ListOfDataItemGroups[group][item]

\* The first ConnectTo returns; this call is made without the mutex.
ConnectReturns ==
    /\ runPc = "connect"
    /\ \E ok \in BOOLEAN :
         /\ connected' = ok
         /\ runPc' = IF ok THEN "online" ELSE "top"
    /\ UNCHANGED <<sharedVars, itemVars, pdata, group, item, okItems,
                   Error_Count, modVars, device, historyVars>>

\* Lock, Status = true, unlock.
MarkOnline ==
    /\ runPc = "online"
    /\ ReadWriteMutex = "free"
    /\ Status' = TRUE
    /\ runPc' = "top"
    /\ UNCHANGED <<ReadWriteMutex, itemVars, pdata, group, item, okItems,
                   Error_Count, modVars, deviceVars, historyVars>>

\* The top of the endless loop: lock, then poll or try to reconnect.
StartCycle ==
    /\ runPc = "top"
    /\ ReadWriteMutex = "free"
    /\ ReadWriteMutex' = "run"
    /\ runPc' = IF Status THEN "read" ELSE "reconnect"
    /\ group' = 1
    /\ UNCHANGED <<Status, itemVars, pdata, item, okItems, Error_Count,
                   modVars, deviceVars, historyVars>>

\* After a group: free the buffer with its results, then stop at the third
\* error, go on with the next group, or end the cycle by unlocking.
AfterGroup(errors) ==
    /\ okItems' = {}
    /\ item' = 1
    /\ \/ /\ errors >= ErrorLimit
          /\ runPc' = "offline"
          /\ UNCHANGED <<group, ReadWriteMutex>>
       \/ /\ errors < ErrorLimit
          /\ group < Len(ListOfDataItemGroups)
          /\ group' = group + 1
          /\ runPc' = "read"
          /\ UNCHANGED ReadWriteMutex
       \/ /\ errors < ErrorLimit
          /\ group >= Len(ListOfDataItemGroups)
          /\ runPc' = "sleep"
          /\ ReadWriteMutex' = "free"
          /\ UNCHANGED group

\* Mutation of ReadFails: a failed call is not counted.
ReadFailsUncounted ==
    /\ runPc = "read"
    /\ AfterGroup(Error_Count)
    /\ UNCHANGED <<Status, itemVars, pdata, Error_Count, modVars, deviceVars,
                   historyVars>>

\* ReadMultiVars returns an error.
ReadFails ==
    /\ runPc = "read"
    /\ Error_Count' = Error_Count + 1
    /\ AfterGroup(Error_Count + 1)
    /\ UNCHANGED <<Status, itemVars, pdata, modVars, deviceVars, historyVars>>

\* ReadMultiVars returns 0: each item has a Result of its own, and the buffers
\* of those with Result 0 hold what the controller sent.
ReadReturns ==
    /\ runPc = "read"
    /\ connected
    /\ Len(ListOfDataItemGroups[group]) <= MaxVars
    /\ \E ok \in SUBSET GroupItems(group) :
         /\ okItems' = ok
         /\ pdata'  = [i \in Items |-> IF i \in ok THEN device[i] ELSE pdata[i]]
         /\ polled' = [i \in Items |-> IF i \in ok THEN device[i] ELSE polled[i]]
    /\ runPc' = "item" /\ item' = 1
    /\ UNCHANGED <<sharedVars, itemVars, group, Error_Count, modVars,
                   deviceVars, loaded, applied>>

\* The step that has dealt with the current item moves to the next one.
NextItem ==
    IF item < Len(ListOfDataItemGroups[group])
    THEN /\ item' = item + 1
         /\ runPc' = "item"
         /\ UNCHANGED <<group, okItems, ReadWriteMutex>>
    ELSE AfterGroup(Error_Count)

\* SetStatus(true) for an item that was read; CheckDataChange follows.
ItemValid ==
    /\ runPc = "item"
    /\ CurrentItem \in okItems
    /\ itemStatus' = [itemStatus EXCEPT ![CurrentItem] = TRUE]
    /\ runPc' = "copy"
    /\ UNCHANGED <<sharedVars, localStatusCopy, localCopy, pdata, group, item,
                   okItems, Error_Count, modVars, deviceVars, historyVars>>

\* SetStatus(false) for an item the controller refused.
ItemInvalid ==
    /\ runPc = "item"
    /\ CurrentItem \notin okItems
    /\ itemStatus' = [itemStatus EXCEPT ![CurrentItem] = FALSE]
    /\ NextItem
    /\ UNCHANGED <<Status, localStatusCopy, localCopy, pdata, Error_Count,
                   modVars, deviceVars, historyVars>>

\* Mutation of CheckDataChange: only a change of the status is copied.
CheckDataChangeOnce ==
    /\ runPc = "copy"
    /\ IF itemStatus[CurrentItem] /\ ~localStatusCopy[CurrentItem]
       THEN /\ localCopy' =
                 [localCopy EXCEPT ![CurrentItem] = pdata[CurrentItem]]
            /\ loaded' = loaded \cup {CurrentItem}
       ELSE UNCHANGED <<localCopy, loaded>>
    /\ localStatusCopy' =
         [localStatusCopy EXCEPT ![CurrentItem] = itemStatus[CurrentItem]]
    /\ NextItem
    /\ UNCHANGED <<Status, itemStatus, pdata, Error_Count, modVars,
                   deviceVars, polled, applied>>

\* CheckDataChange: the local copy takes the buffer while the item is valid,
\* and localStatusCopy takes its status.
CheckDataChange ==
    /\ runPc = "copy"
    /\ IF itemStatus[CurrentItem]
       THEN /\ localCopy' =
                 [localCopy EXCEPT ![CurrentItem] = pdata[CurrentItem]]
            /\ loaded' = loaded \cup {CurrentItem}
       ELSE UNCHANGED <<localCopy, loaded>>
    /\ localStatusCopy' =
         [localStatusCopy EXCEPT ![CurrentItem] = itemStatus[CurrentItem]]
    /\ NextItem
    /\ UNCHANGED <<Status, itemStatus, pdata, Error_Count, modVars,
                   deviceVars, polled, applied>>

\* Mutations of GoOffline: the items are not cleared; the errors are not reset.
GoOfflineUncleared ==
    /\ runPc = "offline"
    /\ Status' = FALSE
    /\ Error_Count' = 0
    /\ runPc' = "disconnect" /\ item' = 1
    /\ UNCHANGED <<ReadWriteMutex, itemVars, pdata, group, okItems, modVars,
                   deviceVars, historyVars>>
GoOfflineUnreset ==
    /\ runPc = "offline"
    /\ Status' = FALSE
    /\ runPc' = "clear" /\ item' = 0
    /\ UNCHANGED <<ReadWriteMutex, itemVars, pdata, group, okItems, Error_Count,
                   modVars, deviceVars, historyVars>>

\* The third error: Status = false, Error_Count = 0; still holding the mutex.
GoOffline ==
    /\ runPc = "offline"
    /\ Status' = FALSE
    /\ Error_Count' = 0
    /\ runPc' = "clear" /\ item' = 0
    /\ UNCHANGED <<ReadWriteMutex, itemVars, pdata, group, okItems, modVars,
                   deviceVars, historyVars>>

\* Mutation of SetDataItemStatus: the loop runs one item past the list.
SetDataItemStatusPast ==
    /\ runPc = "clear"
    /\ itemStatus'      = [itemStatus EXCEPT ![item] = FALSE]
    /\ localStatusCopy' = [localStatusCopy EXCEPT ![item] = FALSE]
    /\ item'  = IF item < Len(Config) THEN item + 1 ELSE 1
    /\ runPc' = IF item < Len(Config) THEN "clear" ELSE "disconnect"
    /\ UNCHANGED <<sharedVars, localCopy, pdata, group, okItems, Error_Count,
                   modVars, deviceVars, historyVars>>

\* SetDataItemStatus(false), one item of the list at a time; `item' runs over
\* the resource ids here.
SetDataItemStatus ==
    /\ runPc = "clear"
    /\ itemStatus'      = [itemStatus EXCEPT ![item] = FALSE]
    /\ localStatusCopy' = [localStatusCopy EXCEPT ![item] = FALSE]
    /\ item'  = IF item < Len(Config) - 1 THEN item + 1 ELSE 1
    /\ runPc' = IF item < Len(Config) - 1 THEN "clear" ELSE "disconnect"
    /\ UNCHANGED <<sharedVars, localCopy, pdata, group, okItems, Error_Count,
                   modVars, deviceVars, historyVars>>

\* Client->Disconnect() and unlock.
DisconnectReturns ==
    /\ runPc = "disconnect"
    /\ connected' = FALSE
    /\ ReadWriteMutex' = "free"
    /\ runPc' = "sleep"
    /\ UNCHANGED <<Status, itemVars, pdata, group, item, okItems, Error_Count,
                   modVars, device, historyVars>>

\* TryToReconnect and unlock: ping answers and ConnectTo succeeds, or not.  No
\* other thread writes Status, and it is read without the mutex, so setting it
\* and unlocking are one step.
TryToReconnect ==
    /\ runPc = "reconnect"
    /\ \/ connected' = TRUE /\ Status' = TRUE
       \/ UNCHANGED <<connected, Status>>
    /\ ReadWriteMutex' = "free"
    /\ runPc' = "sleep"
    /\ UNCHANGED <<itemVars, pdata, group, item, okItems, Error_Count, modVars,
                   device, historyVars>>

\* usleep(100000) after a poll, sleep(1) after an attempt to reconnect.
Wake ==
    /\ runPc = "sleep"
    /\ runPc' = "top"
    /\ UNCHANGED <<sharedVars, itemVars, pdata, group, item, okItems,
                   Error_Count, modVars, deviceVars, historyVars>>

RunThread ==
    \/ ConnectReturns \/ MarkOnline \/ StartCycle \/ ReadFails \/ ReadReturns
    \/ ItemValid \/ ItemInvalid \/ CheckDataChange \/ GoOffline
    \/ SetDataItemStatus \/ DisconnectReturns \/ TryToReconnect \/ Wake

-----------------------------------------------------------------------------
(* The Modbus thread's calls.  The two tests of Status on the way to a     *)
(* write (in Write...FromModbus, then in WriteToResource or                *)
(* WriteToMultipleResources) precede the lock and are steps of their own.  *)

Id == request.ids[index]
Single == Len(request.ids) = 1

\* The call returns to the Modbus server.
Return(code) ==
    /\ result' = code
    /\ modPc' = "idle"
    /\ index' = 1

\* Reads of registers compare the sizes before anything else.
Call(r) ==
    /\ modPc = "idle"
    /\ request' = r
    /\ Readdata' = <<>>
    /\ applied' = {}
    /\ index' = 1
    /\ \/ /\ r.op = "readBits"
          /\ modPc' = "itemStatus" /\ result' = "OK"
       \/ /\ r.op = "readBytes"
          /\ IF SizeMatches(r, 256)
             THEN modPc' = "gate" /\ result' = "OK"
             ELSE modPc' = "idle" /\ result' = "InvalidSize"
       \/ /\ r.op \in WriteOps
          /\ modPc' = "gate" /\ result' = "OK"
    /\ UNCHANGED <<sharedVars, itemVars, pdata, runVars, deviceVars, polled,
                   loaded>>

\* The first test of Status: reads of registers and writes.
GateOffline ==
    /\ modPc = "gate"
    /\ ~Status
    /\ Return("DeviceIsOffLine")
    /\ UNCHANGED <<sharedVars, itemVars, pdata, runVars, request, Readdata,
                   deviceVars, historyVars>>

GateOnline ==
    /\ modPc = "gate"
    /\ Status
    /\ \/ /\ request.op = "readBytes"
          /\ modPc' = "itemStatus"
          /\ UNCHANGED <<index, result>>
       \/ /\ request.op \in WriteOps
          /\ request.op = "writeBytes" => SizeMatches(request, 65536)
          /\ modPc' = "resource"
          /\ UNCHANGED <<index, result>>
       \/ /\ request.op = "writeBytes" /\ ~SizeMatches(request, 65536)
          /\ Return("InvalidSize")
    /\ UNCHANGED <<sharedVars, itemVars, pdata, runVars, request, Readdata,
                   deviceVars, historyVars>>

\* One more entry of the answer; the last one completes the call.
Deliver(entry) ==
    /\ Readdata' = Append(Readdata, entry)
    /\ IF index < Len(request.ids)
       THEN index' = index + 1 /\ modPc' = "itemStatus" /\ UNCHANGED result
       ELSE Return("OK")

\* The pseudo item in front of the input contacts is Status itself.
ReadSiemensStatus ==
    /\ modPc = "itemStatus"
    /\ Id = SIEMENS_STATUS
    /\ Deliver(<<IF Status THEN 1 ELSE 0>>)
    /\ UNCHANGED <<sharedVars, itemVars, pdata, runVars, request, deviceVars,
                   historyVars>>

\* GetStatus of the item, without the mutex.
GetStatus ==
    /\ modPc = "itemStatus"
    /\ Id # SIEMENS_STATUS
    /\ IF itemStatus[Id]
       THEN modPc' = "fetch" /\ UNCHANGED <<index, result>>
       ELSE Return("InvalidS7DataItem")
    /\ UNCHANGED <<sharedVars, itemVars, pdata, runVars, request, Readdata,
                   deviceVars, historyVars>>

\* GetData of the item, without the mutex.
Fetch ==
    /\ modPc = "fetch"
    /\ Deliver(GetData(localCopy[Id]))
    /\ UNCHANGED <<sharedVars, itemVars, pdata, runVars, request, deviceVars,
                   historyVars>>

\* The second test of Status: offline, every item's result is 1, and no item has
\* no result that tells.  A single item that is not writable is refused here;
\* several are examined under the mutex.
ResourceGate ==
    /\ modPc = "resource"
    /\ \/ /\ ~Status /\ Single
          /\ Return("DeviceIsOffLine")
       \/ /\ ~Status /\ ~Single
          /\ Return(IF request.ids = <<>> THEN "OK" ELSE "DeviceIsOffLine")
       \/ /\ Status /\ Single /\ ~IsDataItemWritable(Id)
          /\ Return("InvalidS7DataItem")
       \/ /\ Status
          /\ Single => IsDataItemWritable(Id)
          /\ modPc' = "lock"
          /\ UNCHANGED <<index, result>>
    /\ UNCHANGED <<sharedVars, itemVars, pdata, runVars, request, Readdata,
                   deviceVars, historyVars>>

\* Mutation of LockForWrite: the mutex is not waited for.
LockForWriteUnguarded ==
    /\ modPc = "lock"
    /\ ReadWriteMutex' = "modbus"
    /\ modPc' = IF Single \/ request.ids = <<>> THEN "write" ELSE "fill"
    /\ UNCHANGED <<Status, itemVars, pdata, runVars, request, index, Readdata,
                   result, deviceVars, historyVars>>

LockForWrite ==
    /\ modPc = "lock"
    /\ ReadWriteMutex = "free"
    /\ ReadWriteMutex' = "modbus"
    /\ modPc' = IF Single \/ request.ids = <<>> THEN "write" ELSE "fill"
    /\ UNCHANGED <<Status, itemVars, pdata, runVars, request, index, Readdata,
                   result, deviceVars, historyVars>>

\* Mutation of FillBuffer: write access is not examined.
FillBufferUnchecked ==
    /\ modPc = "fill"
    /\ pdata' = [pdata EXCEPT ![Id] = Payload(request, index)]
    /\ IF (index % 256) < Len(request.ids)
       THEN index' = (index % 256) + 1 /\ UNCHANGED modPc
       ELSE index' = 1 /\ modPc' = "write"
    /\ UNCHANGED <<sharedVars, itemVars, runVars, request, Readdata, result,
                   deviceVars, historyVars>>

\* The payload of one of several items goes to the item's transfer buffer.  The
\* loop counts in a uint8_t, which 256 items or more never let end.
FillBuffer ==
    /\ modPc = "fill"
    /\ IsDataItemWritable(Id)
    /\ pdata' = [pdata EXCEPT ![Id] = Payload(request, index)]
    /\ IF (index % 256) < Len(request.ids)
       THEN index' = (index % 256) + 1 /\ UNCHANGED modPc
       ELSE index' = 1 /\ modPc' = "write"
    /\ UNCHANGED <<sharedVars, itemVars, runVars, request, Readdata, result,
                   deviceVars, historyVars>>

\* One item that is not writable ends the call before anything is written; the
\* results keep their initial 1, as if the controller were offline.
RefuseFill ==
    /\ modPc = "fill"
    /\ ~IsDataItemWritable(Id)
    /\ ReadWriteMutex' = "free"
    /\ Return("DeviceIsOffLine")
    /\ UNCHANGED <<Status, itemVars, pdata, runVars, request, Readdata,
                   deviceVars, historyVars>>

RequestItems == {request.ids[n] : n \in DOMAIN request.ids}

\* WriteArea sends the payload, WriteMultiVars the transfer buffers.
Sent(i) == IF Single THEN Payload(request, 1) ELSE pdata[i]

\* The controller stores the items of `ok'.
Store(ok) ==
    /\ device' = [i \in Items |-> IF i \in ok THEN Sent(i) ELSE device[i]]
    /\ applied' = ok

\* Mutation of WriteReturns: one stored item is enough for success.
WriteReturnsAny ==
    /\ modPc = "write"
    /\ connected
    /\ Len(request.ids) <= MaxVars
    /\ \E ok \in SUBSET RequestItems :
         /\ Single => ok = RequestItems
         /\ Store(ok)
         /\ Return(IF ok # {} THEN "OK" ELSE "InvalidS7DataItem")
    /\ ReadWriteMutex' = "free"
    /\ UNCHANGED <<Status, itemVars, pdata, runVars, request, Readdata,
                   connected, polled, loaded>>

\* WriteArea or WriteMultiVars returns 0, for several items with one Result
\* each; a single item has been stored.
WriteReturns ==
    /\ modPc = "write"
    /\ connected
    /\ Len(request.ids) <= MaxVars
    /\ \E ok \in SUBSET RequestItems :
         /\ Single => ok = RequestItems
         /\ Store(ok)
         /\ Return(IF ok = RequestItems THEN "OK" ELSE "InvalidS7DataItem")
    /\ ReadWriteMutex' = "free"
    /\ UNCHANGED <<Status, itemVars, pdata, runVars, request, Readdata,
                   connected, polled, loaded>>

\* Mutation of WriteFails: the error path keeps the mutex.
WriteFailsLocked ==
    /\ modPc = "write"
    /\ \E ok \in IF connected THEN SUBSET RequestItems ELSE {{}} : Store(ok)
    /\ Return(IF request.ids = <<>> THEN "OK" ELSE "InvalidS7DataItem")
    /\ UNCHANGED <<sharedVars, itemVars, pdata, runVars, request, Readdata,
                   connected, polled, loaded>>

\* It returns an error code of snap7 (never 1); over a live link the controller
\* may have stored some of the items and only its answer was lost.
WriteFails ==
    /\ modPc = "write"
    /\ \E ok \in IF connected THEN SUBSET RequestItems ELSE {{}} : Store(ok)
    /\ Return(IF request.ids = <<>> THEN "OK" ELSE "InvalidS7DataItem")
    /\ ReadWriteMutex' = "free"
    /\ UNCHANGED <<Status, itemVars, pdata, runVars, request, Readdata,
                   connected, polled, loaded>>

ModbusThread ==
    \/ \E r \in Requests : Call(r)
    \/ GateOffline \/ GateOnline \/ ReadSiemensStatus \/ GetStatus \/ Fetch
    \/ ResourceGate \/ LockForWrite \/ FillBuffer \/ RefuseFill
    \/ WriteReturns \/ WriteFails

-----------------------------------------------------------------------------
(* The controller and the network.                                         *)

\* The controller's program changes an item.
DeviceStores ==
    /\ \E i \in Items : \E v \in DeviceValues[i] :
         device' = [device EXCEPT ![i] = v]
    /\ UNCHANGED <<sharedVars, itemVars, pdata, runVars, modVars, connected,
                   historyVars>>

\* The link breaks; the gateway learns of it from failing calls.
LinkBreaks ==
    /\ connected
    /\ connected' = FALSE
    /\ UNCHANGED <<sharedVars, itemVars, pdata, runVars, modVars, device,
                   historyVars>>

Environment == DeviceStores \/ LinkBreaks

Next == RunThread \/ ModbusThread \/ Environment

\* Each thread keeps running and every snap7 call returns.  The mutex is free
\* while the run thread sleeps and while the Modbus thread waits for a request,
\* so a thread that waits for it gets it (strong fairness).  Nothing obliges a
\* client to call, nor the controller or the network to do anything.
Fairness ==
    /\ WF_vars(RunThread)
    /\ SF_vars(StartCycle) /\ SF_vars(MarkOnline)
    /\ WF_vars(ModbusThread /\ modPc # "idle")
    /\ SF_vars(LockForWrite)

Spec == Init /\ [][Next]_vars
FairSpec == Spec /\ Fairness

-----------------------------------------------------------------------------
(* Properties.                                                             *)

RunPcs == {"connect", "online", "top", "read", "item", "copy", "offline",
           "clear", "disconnect", "reconnect", "sleep"}
ModPcs == {"idle", "gate", "itemStatus", "fetch", "resource", "lock", "fill",
           "write"}
ModbusErrorCodes ==
    {"OK", "InvalidSize", "DeviceIsOffLine", "InvalidS7DataItem"}

\* Every variable has its type, and the loop counters stay inside the lists
\* they run over.
TypeOK ==
    /\ Status \in BOOLEAN
    /\ ReadWriteMutex \in {"free", "run", "modbus"}
    /\ itemStatus \in [Items -> BOOLEAN]
    /\ localStatusCopy \in [Items -> BOOLEAN]
    /\ localCopy \in [Items -> Value]
    /\ pdata \in [Items -> Value]
    /\ runPc \in RunPcs
    /\ group \in DOMAIN ListOfDataItemGroups
    /\ item \in Nat
    /\ runPc \in {"item", "copy"} => item \in DOMAIN ListOfDataItemGroups[group]
    /\ runPc = "clear" => item \in Items
    /\ okItems \in SUBSET Items
    /\ Error_Count \in 0 .. ErrorLimit
    /\ modPc \in ModPcs
    /\ request \in Requests \cup {NoRequest}
    /\ index \in Nat
    /\ modPc \in {"itemStatus", "fetch", "fill"} => index \in DOMAIN request.ids
    /\ Readdata \in Seq(Value)
    /\ result \in ModbusErrorCodes
    /\ connected \in BOOLEAN
    /\ device \in [Items -> Value]
    /\ polled \in [Items -> Value]
    /\ loaded \in SUBSET Items
    /\ applied \in SUBSET Items

RunThreadInClient == runPc \in {"connect", "read", "disconnect", "reconnect"}
ModbusThreadInClient == modPc = "write"

\* The snap7 client runs one job at a time: the two threads are never inside
\* it together.  The first ConnectTo (PLC.cpp:216) is made without the mutex,
\* so that there it is the tests of Status that keep a write away.
ClientExclusive == ~(RunThreadInClient /\ ModbusThreadInClient)

\* While the controller is offline no item is answered from its old copy, except
\* while the cycle that gives up is clearing them one by one: it has cleared every
\* item before it lets the mutex go, and a reconnection leaves the items invalid
\* until they are polled.
OfflineCleared ==
    ~Status /\ ReadWriteMutex # "run" => \A i \in Items : ~itemStatus[i]

\* What a write sends is what the client asked for: no poll of the shared
\* transfer buffers gets between filling them and sending them.
WriteSendsPayload ==
    modPc = "write" =>
      \A n \in DOMAIN request.ids :
        Sent(request.ids[n]) = Payload(request, n)

\* The current group was read but this item has not been copied yet.
Pending(i) ==
    /\ runPc \in {"item", "copy"}
    /\ i \in okItems
    /\ \E k \in DOMAIN ListOfDataItemGroups[group] :
         k >= item /\ ListOfDataItemGroups[group][k] = i

\* The local copy of an item is the last value the controller delivered for
\* it, also when a write used the item's transfer buffer meanwhile, and before
\* the first delivery it is the zeros of the constructor.
LocalCopyIsPolled ==
    \A i \in Items :
      /\ i \in loaded /\ ~Pending(i) => localCopy[i] = polled[i]
      /\ i \notin loaded => localCopy[i] = Zeros(size(i)) /\ ~localStatusCopy[i]

\* The answer of a write tells what happened: success means every item was
\* stored, and after "offline" or "wrong size" nothing was, so that the client
\* may repeat the request.
WriteAnswerIsTrue ==
    modPc = "idle" /\ request.op \in WriteOps =>
      /\ result = "OK" => applied = RequestItems
      /\ result \in {"DeviceIsOffLine", "InvalidSize"} => applied = {}

\* A write that names an item without write access stores none of its items.
WriteAllWritable ==
    applied # {} => \A i \in RequestItems : IsDataItemWritable(i)

\* The strengthening that makes the invariants above inductive: what each pc
\* implies about the other variables.
RunHolds == {"read", "item", "copy", "offline", "clear", "disconnect",
             "reconnect"}
WritePcs == {"resource", "lock", "fill", "write"}

MutexInv ==
    /\ ReadWriteMutex = "run" <=> runPc \in RunHolds
    /\ ReadWriteMutex = "modbus" <=> modPc \in {"fill", "write"}

StatusInv ==
    /\ runPc \in {"read", "item", "copy", "offline"} => Status
    /\ runPc \in {"connect", "online"} => modPc \notin WritePcs
    /\ runPc \in {"connect", "online", "clear", "disconnect", "reconnect"}
         => ~Status
    /\ runPc = "clear" => \A i \in Items : i < item => ~itemStatus[i]
    /\ runPc \in {"disconnect", "reconnect"} => \A i \in Items : ~itemStatus[i]

RequestInv ==
    /\ modPc # "idle" => request \in Requests /\ applied = {}
    /\ modPc \in {"itemStatus", "fetch"} => request.op \in ReadOps
    /\ modPc = "fetch" => Id # SIEMENS_STATUS
    /\ modPc \in WritePcs =>
         /\ request.op \in WriteOps
         /\ request.op = "writeBytes" => SizeMatches(request, 65536)
    /\ modPc \in {"gate", "resource", "lock", "write"} => index = 1
    /\ modPc \in {"lock", "write"} /\ Single => IsDataItemWritable(request.ids[1])

FillInv ==
    /\ modPc = "fill" =>
         /\ ~Single
         /\ index <= 256
         /\ \A n \in 1 .. index - 1 :
              /\ IsDataItemWritable(request.ids[n])
              /\ pdata[request.ids[n]] = Payload(request, n)
    /\ modPc = "write" => \A i \in RequestItems : IsDataItemWritable(i)

CopyInv ==
    /\ \A i \in Items : Pending(i) => pdata[i] = polled[i]
    /\ runPc = "copy" => CurrentItem \in okItems /\ itemStatus[CurrentItem]

IInv ==
    /\ runPc # "offline" => Error_Count < ErrorLimit
    /\ MutexInv /\ StatusInv /\ RequestInv /\ FillInv /\ CopyInv

\* Data of an item in an answer was copied from the controller at some time.
ReadsReturnPLCData ==
    [][modPc = "fetch" /\ Readdata' # Readdata => Id \in loaded]_vars

\* Every call of the Modbus thread returns.
CallsReturn == modPc # "idle" ~> modPc = "idle"

AllItemsValid == \A i \in Items : itemStatus[i]

\* The controller or the link refuses what it could have done.
Failure ==
    \/ LinkBreaks \/ ItemInvalid
    \/ ReadFails /\ ENABLED ReadReturns
    \/ TryToReconnect /\ ~connected'

\* Once the controller and the link stop failing, the gateway is online with
\* every item valid for good, whatever it went through before.
Recovers == <>[][~Failure]_vars => <>[](Status /\ AllItemsValid)

\* A link that stays broken is noticed: the items become invalid for good.
NoticesOutage ==
    <>[]~connected => <>[](~Status /\ \A i \in Items : ~itemStatus[i])

=============================================================================
