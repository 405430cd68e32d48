-------------------------- MODULE SiemensPLCProofs --------------------------
(***************************************************************************)
(* Proofs about SiemensPLC, for every configuration, every set of requests *)
(* and every behaviour of the controller.                                  *)
(***************************************************************************)
EXTENDS SiemensPLC, TLAPS

-----------------------------------------------------------------------------
(* The constants and the pure operators.                                   *)

\* Resource ids are natural numbers, 0 is one of them, and the pseudo item of
\* the controller's status is none.
LEMMA ItemFacts ==
    /\ Len(Config) \in Nat /\ Items \subseteq Nat /\ 0 \in Items
    /\ SIEMENS_STATUS \notin Items
BY ConfigAssumption DEF Items, SIEMENS_STATUS

\* An item's size is 1, 2 or 4 and its access flag is a Boolean.
LEMMA SizeType == \A i \in Items : size(i) \in {1, 2, 4}
<1> TAKE i \in Items
<1> DEFINE ItemConfig == [type : SIEMENSDATATYPES, access : BOOLEAN, group : Byte]
<1>1. Config \in Seq(ItemConfig)
  BY ConfigAssumption
<1> HIDE DEF ItemConfig
<1>2. i + 1 \in 1 .. Len(Config)
  BY <1>1 DEF Items
<1>3. Config[i + 1] \in ItemConfig
  BY <1>1, <1>2
<1>4. QED
  BY <1>3 DEF size, SizeOf

\* A value of zeros is a value.
LEMMA ZerosType == \A i \in Items : Zeros(size(i)) \in Value
<1> TAKE i \in Items
<1>1. size(i) \in Nat
  BY SizeType
<1>2. QED
  BY <1>1 DEF Zeros, Value, Byte

\* The byte swap of a value is a value.
LEMMA GetDataType == \A v \in Value : GetData(v) \in Value
<1> TAKE v \in Value
<1>1. v \in Seq(Byte) /\ Len(v) \in Nat
  BY DEF Value
<1>2. \A k \in 1 .. Len(v) : v[(Len(v) - k) + 1] \in Byte
  BY <1>1
<1>3. Reverse(v) \in Seq(Byte)
  BY <1>1, <1>2 DEF Reverse
<1>4. QED
  BY <1>1, <1>3 DEF GetData, Value

\* Every place of every group holds an item.
LEMMA GroupType ==
    \A g \in DOMAIN ListOfDataItemGroups :
      /\ Len(ListOfDataItemGroups[g]) \in Nat \ {0}
      /\ DOMAIN ListOfDataItemGroups[g] = 1 .. Len(ListOfDataItemGroups[g])
      /\ \A k \in DOMAIN ListOfDataItemGroups[g] :
           ListOfDataItemGroups[g][k] \in Items
      /\ GroupItems(g) \subseteq Items
<1> TAKE g \in DOMAIN ListOfDataItemGroups
<1>1. ListOfDataItemGroups[g] \in Seq(Items) /\ ListOfDataItemGroups[g] # <<>>
  BY GroupsAssumption
<1>2. QED
  BY <1>1 DEF GroupItems

\* The current item is an item.
LEMMA CurrentItemType ==
    ASSUME group \in DOMAIN ListOfDataItemGroups,
           item \in DOMAIN ListOfDataItemGroups[group]
    PROVE  CurrentItem \in Items
BY GroupType DEF CurrentItem

\* What a request in progress names.
LEMMA RequestType ==
    ASSUME NEW r \in Requests
    PROVE  /\ r.op \in ReadOps \cup WriteOps
           /\ r.ids \in Seq(Items \cup {SIEMENS_STATUS})
           /\ r.op \in ReadOps => r.ids # <<>>
           /\ r.op # "readBits" => r.ids \in Seq(Items)
           /\ \A n \in DOMAIN r.ids : r.ids[n] # SIEMENS_STATUS => r.ids[n] \in Items
           /\ \A m, n \in DOMAIN r.ids : r.ids[m] = r.ids[n] => m = n
           /\ (r.op = "writeBytes" => SizeMatches(r, 65536)) /\ r.op \in WriteOps
                => \A n \in DOMAIN r.ids : Payload(r, n) \in Value
BY RequestsAssumption

-----------------------------------------------------------------------------
(* Type correctness.                                                       *)

\* What the end of a group does to the run thread's own variables.
LEMMA AfterGroupType ==
    ASSUME TypeOK, NEW errors \in Nat, AfterGroup(errors)
    PROVE  /\ okItems' = {} /\ item' = 1
           /\ group' \in DOMAIN ListOfDataItemGroups
           /\ runPc' = "offline" <=> errors >= ErrorLimit
           /\ \/ runPc' \in {"offline", "read"} /\ ReadWriteMutex' = ReadWriteMutex
              \/ runPc' = "sleep" /\ ReadWriteMutex' = "free"
<1>1. group \in DOMAIN ListOfDataItemGroups
  BY DEF TypeOK
<1>2. ListOfDataItemGroups \in Seq(Seq(Items) \ {<<>>})
  BY GroupsAssumption
<1>3. Len(ListOfDataItemGroups) \in Nat
      /\ DOMAIN ListOfDataItemGroups = 1 .. Len(ListOfDataItemGroups)
  BY <1>2
<1>4. QED
  BY <1>1, <1>3 DEF AfterGroup, ErrorLimit

\* What the step to the next item does to them.
LEMMA NextItemType ==
    ASSUME TypeOK, Error_Count < ErrorLimit, runPc \in {"item", "copy"}, NextItem
    PROVE  \/ /\ runPc' = "item" /\ item' = item + 1
              /\ item' \in DOMAIN ListOfDataItemGroups[group]
              /\ group' = group /\ okItems' = okItems
              /\ ReadWriteMutex' = ReadWriteMutex
           \/ /\ item = Len(ListOfDataItemGroups[group])
              /\ okItems' = {} /\ item' = 1
              /\ group' \in DOMAIN ListOfDataItemGroups
              /\ \/ runPc' = "read" /\ ReadWriteMutex' = ReadWriteMutex
                 \/ runPc' = "sleep" /\ ReadWriteMutex' = "free"
<1>1. /\ group \in DOMAIN ListOfDataItemGroups
      /\ item \in DOMAIN ListOfDataItemGroups[group]
      /\ Error_Count \in Nat
  BY DEF TypeOK, ErrorLimit
<1>2. /\ Len(ListOfDataItemGroups[group]) \in Nat
      /\ DOMAIN ListOfDataItemGroups[group] = 1 .. Len(ListOfDataItemGroups[group])
  BY <1>1, GroupType
<1>3. CASE item < Len(ListOfDataItemGroups[group])
  BY <1>1, <1>2, <1>3 DEF NextItem
<1>4. CASE ~(item < Len(ListOfDataItemGroups[group]))
  <2>1. AfterGroup(Error_Count)
    BY <1>4 DEF NextItem
  <2>2. ~(Error_Count >= ErrorLimit)
    BY <1>1 DEF ErrorLimit
  <2>3. QED
    BY <1>1, <1>2, <1>4, <2>1, <2>2, AfterGroupType
<1>5. QED
  BY <1>3, <1>4

\* Every entry of an answer is a value, and the entry that is not the last one
\* leaves the call at the next id.
LEMMA DeliverType ==
    ASSUME TypeOK, modPc \in {"itemStatus", "fetch"}, NEW entry \in Value,
           Deliver(entry)
    PROVE  /\ Readdata' \in Seq(Value)
           /\ index' \in Nat
           /\ \/ modPc' = "itemStatus" /\ result' = result
                 /\ index' \in DOMAIN request.ids
              \/ modPc' = "idle" /\ result' = "OK"
<1>1. Readdata \in Seq(Value) /\ index \in Nat /\ index \in DOMAIN request.ids
  BY DEF TypeOK
<1>2. request.ids \in Seq(Items \cup {SIEMENS_STATUS})
  <2>1. CASE request = NoRequest
    BY <2>1 DEF NoRequest
  <2>2. CASE request \in Requests
    BY <2>2, RequestType
  <2>3. QED
    BY <2>1, <2>2 DEF TypeOK
<1>3. QED
  BY <1>1, <1>2 DEF Deliver, Return

\* The variables have their types in the initial states.
LEMMA InitType == Init => TypeOK
<1> SUFFICES ASSUME Init PROVE TypeOK
  OBVIOUS
<1>1. 1 \in DOMAIN ListOfDataItemGroups
  BY GroupsAssumption
<1>2. <<>> \in Value /\ <<>> \in Seq(Value)
  BY DEF Value
<1>3. localCopy \in [Items -> Value] /\ pdata \in [Items -> Value]
      /\ polled \in [Items -> Value]
  BY <1>2, ZerosType DEF Init
<1>4. device \in [Items -> Value]
  BY DeviceAssumption DEF Init
<1>5. /\ itemStatus \in [Items -> BOOLEAN]
      /\ localStatusCopy \in [Items -> BOOLEAN]
      /\ Readdata \in Seq(Value)
      /\ Status \in BOOLEAN /\ connected \in BOOLEAN
  BY <1>2 DEF Init
<1>6. /\ ReadWriteMutex = "free"
      /\ runPc = "connect" /\ group = 1 /\ item = 1 /\ okItems = {}
      /\ Error_Count = 0 /\ modPc = "idle" /\ request = NoRequest
      /\ index = 1 /\ result = "OK" /\ loaded = {} /\ applied = {}
  BY DEF Init
<1>7. QED
  BY <1>1, <1>3, <1>4, <1>5, <1>6
     DEF TypeOK, RunPcs, ModPcs, ModbusErrorCodes, ErrorLimit

\* The ids of the current request are distinct resource ids; the pseudo item
\* is only among those of a read of bits.
LEMMA CurrentRequestType ==
    ASSUME TypeOK
    PROVE  /\ request.ids \in Seq(Items \cup {SIEMENS_STATUS})
           /\ Len(request.ids) \in Nat
           /\ DOMAIN request.ids = 1 .. Len(request.ids)
           /\ request.op # "readBits" => request.ids \in Seq(Items)
           /\ \A n \in DOMAIN request.ids :
                request.ids[n] # SIEMENS_STATUS => request.ids[n] \in Items
           /\ \A m, n \in DOMAIN request.ids :
                request.ids[m] = request.ids[n] => m = n
<1>1. CASE request = NoRequest
  BY <1>1 DEF NoRequest
<1>2. CASE request \in Requests
  BY <1>2, RequestType
<1>3. QED
  BY <1>1, <1>2 DEF TypeOK

\* Storing what a write sent leaves values in the controller.
LEMMA StoreType ==
    ASSUME TypeOK, RequestInv, modPc = "write",
           NEW ok \in SUBSET RequestItems, Store(ok)
    PROVE  /\ device' \in [Items -> Value]
           /\ applied' = ok /\ applied' \in SUBSET Items
           /\ request.ids \in Seq(Items)
<1>1. /\ request \in Requests /\ request.op \in WriteOps
      /\ request.op = "writeBytes" => SizeMatches(request, 65536)
  BY DEF RequestInv, WritePcs
<1>2. request.ids \in Seq(Items)
  BY <1>1, RequestType DEF WriteOps
<1>3. \A n \in DOMAIN request.ids : Payload(request, n) \in Value
  BY <1>1, RequestType
<1>4. RequestItems \subseteq Items
  BY <1>2 DEF RequestItems
<1>5. ASSUME NEW i \in ok PROVE Sent(i) \in Value
  <2>1. CASE Single
    <3>1. 1 \in DOMAIN request.ids
      BY <1>2, <2>1 DEF Single
    <3>2. QED
      BY <1>3, <2>1, <3>1 DEF Sent
  <2>2. CASE ~Single
    BY <1>4, <1>5, <2>2 DEF Sent, TypeOK
  <2>3. QED
    BY <2>1, <2>2
<1>6. device \in [Items -> Value]
  BY DEF TypeOK
<1>7. QED
  BY <1>2, <1>4, <1>5, <1>6 DEF Store

\* Every step of the run thread preserves the types.
LEMMA RunThreadType == TypeOK /\ IInv /\ RunThread => TypeOK'
<1> SUFFICES ASSUME TypeOK, IInv, RunThread PROVE TypeOK'
  OBVIOUS
<1> USE DEF sharedVars, itemVars, runVars, modVars, deviceVars, historyVars
<1>0. runPc # "offline" => Error_Count \in Nat /\ Error_Count < ErrorLimit
  BY DEF TypeOK, IInv, ErrorLimit
<1>1. CASE ConnectReturns
  BY <1>1 DEF ConnectReturns, TypeOK, RunPcs
<1>2. CASE MarkOnline
  BY <1>2 DEF MarkOnline, TypeOK, RunPcs
<1>3. CASE StartCycle
  <2>1. 1 \in DOMAIN ListOfDataItemGroups
    BY GroupsAssumption
  <2>2. QED
    BY <1>3, <2>1 DEF StartCycle, TypeOK, RunPcs
<1>4. CASE ReadFails
  <2>1. Error_Count + 1 \in Nat /\ Error_Count + 1 \in 0 .. ErrorLimit
    BY <1>0, <1>4 DEF ReadFails, ErrorLimit
  <2>2. AfterGroup(Error_Count + 1)
    BY <1>4 DEF ReadFails
  <2>3. QED
    BY <1>4, <2>1, <2>2, AfterGroupType DEF ReadFails, TypeOK, RunPcs
<1>5. CASE ReadReturns
  <2>1. PICK ok \in SUBSET GroupItems(group) :
          /\ okItems' = ok
          /\ pdata'  = [i \in Items |-> IF i \in ok THEN device[i] ELSE pdata[i]]
          /\ polled' = [i \in Items |-> IF i \in ok THEN device[i] ELSE polled[i]]
    BY <1>5 DEF ReadReturns
  <2>2. okItems' \in SUBSET Items /\ 1 \in DOMAIN ListOfDataItemGroups[group]
    BY <2>1, GroupType DEF TypeOK
  <2>3. pdata' \in [Items -> Value] /\ polled' \in [Items -> Value]
    BY <2>1 DEF TypeOK
  <2>4. QED
    BY <1>5, <2>2, <2>3 DEF ReadReturns, TypeOK, RunPcs
<1>6. CASE ItemValid
  BY <1>6, CurrentItemType DEF ItemValid, TypeOK, RunPcs
<1>7. CASE ItemInvalid
  <2>1. runPc = "item" /\ NextItem
    BY <1>7 DEF ItemInvalid
  <2>2. itemStatus' \in [Items -> BOOLEAN]
    BY <1>7 DEF ItemInvalid, TypeOK
  <2>3. QED
    BY <1>0, <1>7, <2>1, <2>2, NextItemType DEF ItemInvalid, TypeOK, RunPcs
<1>8. CASE CheckDataChange
  <2>1. runPc = "copy" /\ NextItem /\ CurrentItem \in Items
    BY <1>8, CurrentItemType DEF CheckDataChange, TypeOK
  <2>2. /\ localCopy' \in [Items -> Value] /\ loaded' \in SUBSET Items
        /\ localStatusCopy' \in [Items -> BOOLEAN]
    BY <1>8, <2>1 DEF CheckDataChange, TypeOK
  <2>3. QED
    BY <1>0, <1>8, <2>1, <2>2, NextItemType DEF CheckDataChange, TypeOK, RunPcs
<1>9. CASE GoOffline
  <2>1. Status' \in BOOLEAN
    BY <1>9 DEF GoOffline
  <2>2. 0 \in Items
    BY ItemFacts
  <2>3. QED
    BY <1>9, <2>1, <2>2 DEF GoOffline, TypeOK, RunPcs, ErrorLimit
<1>10. CASE SetDataItemStatus
  <2>1. item \in Items
    BY <1>10 DEF SetDataItemStatus, TypeOK
  <2>2. item < Len(Config) - 1 => item + 1 \in Items
    BY <2>1, ItemFacts DEF Items
  <2>3. item \in Nat
    BY DEF TypeOK
  <2>4. QED
    BY <1>10, <2>1, <2>2, <2>3 DEF SetDataItemStatus, TypeOK, RunPcs
<1>11. CASE DisconnectReturns
  BY <1>11 DEF DisconnectReturns, TypeOK, RunPcs
<1>12. CASE TryToReconnect
  BY <1>12 DEF TryToReconnect, TypeOK, RunPcs
<1>13. CASE Wake
  BY <1>13 DEF Wake, TypeOK, RunPcs
<1>14. QED
  BY <1>1, <1>2, <1>3, <1>4, <1>5, <1>6, <1>7, <1>8, <1>9, <1>10, <1>11,
     <1>12, <1>13 DEF RunThread

\* Every step of the Modbus thread preserves the types.
LEMMA ModbusThreadType == TypeOK /\ IInv /\ ModbusThread => TypeOK'
<1> SUFFICES ASSUME TypeOK, IInv, ModbusThread PROVE TypeOK'
  OBVIOUS
<1> USE DEF sharedVars, itemVars, runVars, modVars, deviceVars, historyVars,
            Return
<1>0. RequestInv /\ FillInv
  BY DEF IInv
<1>1. ASSUME NEW r \in Requests, Call(r) PROVE TypeOK'
  <2>1. r.op \in ReadOps => 1 \in DOMAIN r.ids
    BY RequestType
  <2>2. <<>> \in Seq(Value) /\ "readBits" \in ReadOps
    BY DEF ReadOps
  <2>3. QED
    BY <1>1, <2>1, <2>2 DEF Call, TypeOK, ModPcs, ModbusErrorCodes
<1>2. CASE GateOffline
  BY <1>2 DEF GateOffline, TypeOK, ModPcs, ModbusErrorCodes
<1>3. CASE GateOnline
  <2>1. request.op = "readBytes" => 1 \in DOMAIN request.ids
    BY <1>0, <1>3, RequestType DEF GateOnline, RequestInv, ReadOps
  <2>2. index = 1
    BY <1>0, <1>3 DEF GateOnline, RequestInv
  <2>3. QED
    BY <1>3, <2>1, <2>2 DEF GateOnline, TypeOK, ModPcs, ModbusErrorCodes
<1>4. CASE ReadSiemensStatus
  <2>1. <<IF Status THEN 1 ELSE 0>> \in Value
    BY DEF Value, Byte
  <2>2. QED
    BY <1>4, <2>1, DeliverType
       DEF ReadSiemensStatus, TypeOK, ModPcs, ModbusErrorCodes
<1>5. CASE GetStatus
  BY <1>5 DEF GetStatus, TypeOK, ModPcs, ModbusErrorCodes
<1>6. CASE Fetch
  <2>1. Id \in Items
    BY <1>0, <1>6, CurrentRequestType DEF Fetch, RequestInv, TypeOK, Id
  <2>2. GetData(localCopy[Id]) \in Value
    BY <2>1, GetDataType DEF TypeOK
  <2>3. QED
    BY <1>6, <2>2, DeliverType DEF Fetch, TypeOK, ModPcs, ModbusErrorCodes
<1>7. CASE ResourceGate
  BY <1>7 DEF ResourceGate, TypeOK, ModPcs, ModbusErrorCodes
<1>8. CASE LockForWrite
  <2>1. request.ids # <<>> => 1 \in DOMAIN request.ids
    BY CurrentRequestType
  <2>2. index = 1
    BY <1>0, <1>8 DEF LockForWrite, RequestInv
  <2>3. QED
    BY <1>8, <2>1, <2>2 DEF LockForWrite, TypeOK, ModPcs
<1>9. CASE FillBuffer
  <2>1. /\ index \in Nat /\ index \in DOMAIN request.ids
        /\ index <= 256 /\ request \in Requests
        /\ request.op \in WriteOps
        /\ request.op = "writeBytes" => SizeMatches(request, 65536)
    BY <1>0, <1>9 DEF FillBuffer, TypeOK, RequestInv, FillInv, WritePcs
  <2>2. Payload(request, index) \in Value
    BY <2>1, RequestType
  <2>3. pdata' \in [Items -> Value]
    BY <1>9, <2>2 DEF FillBuffer, TypeOK
  <2>4. index' \in Nat /\ (modPc' = "fill" => index' \in DOMAIN request.ids)
    BY <1>9, <2>1, CurrentRequestType DEF FillBuffer
  <2>5. QED
    BY <1>9, <2>3, <2>4 DEF FillBuffer, TypeOK, ModPcs
<1>10. CASE RefuseFill
  BY <1>10 DEF RefuseFill, TypeOK, ModPcs, ModbusErrorCodes
<1>11. CASE WriteReturns
  <2>1. PICK ok \in SUBSET RequestItems :
          /\ Store(ok)
          /\ Return(IF ok = RequestItems THEN "OK" ELSE "InvalidS7DataItem")
    BY <1>11 DEF WriteReturns
  <2>2. QED
    BY <1>0, <1>11, <2>1, StoreType
       DEF WriteReturns, TypeOK, ModPcs, ModbusErrorCodes
<1>12. CASE WriteFails
  <2>1. PICK ok \in SUBSET RequestItems : Store(ok)
    BY <1>12 DEF WriteFails
  <2>2. QED
    BY <1>0, <1>12, <2>1, StoreType
       DEF WriteFails, TypeOK, ModPcs, ModbusErrorCodes
<1>13. QED
  BY <1>1, <1>2, <1>3, <1>4, <1>5, <1>6, <1>7, <1>8, <1>9, <1>10, <1>11,
     <1>12 DEF ModbusThread

\* So do the controller, the link and a stuttering step.
LEMMA EnvironmentType ==
    TypeOK /\ (Environment \/ UNCHANGED vars) => TypeOK'
<1> SUFFICES ASSUME TypeOK, Environment \/ UNCHANGED vars PROVE TypeOK'
  OBVIOUS
<1> USE DEF sharedVars, itemVars, runVars, modVars, deviceVars, historyVars
<1>1. CASE DeviceStores
  <2>1. PICK i \in Items : \E v \in DeviceValues[i] :
          device' = [device EXCEPT ![i] = v]
    BY <1>1 DEF DeviceStores
  <2>2. PICK v \in DeviceValues[i] : device' = [device EXCEPT ![i] = v]
    BY <2>1
  <2>3. v \in Value
    BY DeviceAssumption
  <2>4. device' \in [Items -> Value]
    BY <2>2, <2>3 DEF TypeOK
  <2>5. QED
    BY <1>1, <2>4 DEF DeviceStores, TypeOK
<1>2. CASE LinkBreaks
  BY <1>2 DEF LinkBreaks, TypeOK
<1>3. CASE UNCHANGED vars
  BY <1>3 DEF vars, TypeOK
<1>4. QED
  BY <1>1, <1>2, <1>3 DEF Environment

-----------------------------------------------------------------------------
(* The mutex, the status and the items' validity.                          *)

\* Who holds the mutex, and what that implies for the status and the items.
Control ==
    /\ runPc # "offline" => Error_Count < ErrorLimit
    /\ MutexInv /\ StatusInv /\ OfflineCleared

\* A step that leaves these variables alone preserves it.
LEMMA ControlFrame ==
    ASSUME Control,
           UNCHANGED <<runPc, item, Error_Count, Status, itemStatus>>,
           ReadWriteMutex' = ReadWriteMutex,
           modPc \notin WritePcs /\ modPc' \notin WritePcs
    PROVE  Control'
<1>1. MutexInv'
  BY DEF Control, MutexInv, WritePcs
<1>2. StatusInv' /\ OfflineCleared'
  BY DEF Control, StatusInv, OfflineCleared
<1>3. QED
  BY <1>1, <1>2 DEF Control

\* Every step of the run thread keeps the mutex, the status and the validity of
\* the items in agreement with its pc.
LEMMA RunThreadControl == TypeOK /\ Control /\ RunThread => Control'
<1> SUFFICES ASSUME TypeOK, Control, RunThread PROVE Control'
  OBVIOUS
<1> USE DEF sharedVars, itemVars, runVars, modVars, deviceVars, historyVars
<1>0. /\ runPc # "offline" => Error_Count \in Nat /\ Error_Count < ErrorLimit
      /\ itemStatus \in [Items -> BOOLEAN]
      /\ ReadWriteMutex \in {"free", "run", "modbus"}
      /\ runPc \in {"item", "copy"} => CurrentItem \in Items
  BY CurrentItemType DEF TypeOK, Control, ErrorLimit
<1>1. CASE ConnectReturns
  BY <1>1 DEF ConnectReturns, Control, MutexInv, StatusInv, OfflineCleared,
              RunHolds
<1>2. CASE MarkOnline
  BY <1>2 DEF MarkOnline, Control, MutexInv, StatusInv, OfflineCleared,
              RunHolds
<1>3. CASE StartCycle
  BY <1>3 DEF StartCycle, Control, MutexInv, StatusInv, OfflineCleared,
              RunHolds
<1>4. CASE ReadFails
  <2>1. Error_Count + 1 \in Nat /\ AfterGroup(Error_Count + 1)
    BY <1>0, <1>4 DEF ReadFails
  <2>2. /\ runPc' \in {"offline", "read", "sleep"}
        /\ runPc' # "offline" => Error_Count' < ErrorLimit
        /\ ReadWriteMutex' = "run" <=> runPc' # "sleep"
        /\ ReadWriteMutex' # "modbus"
    BY <1>4, <2>1, AfterGroupType DEF ReadFails, Control, MutexInv, RunHolds,
                                      ErrorLimit
  <2>3. QED
    BY <1>4, <2>2 DEF ReadFails, Control, MutexInv, StatusInv, OfflineCleared,
                      RunHolds
<1>5. CASE ReadReturns
  BY <1>5 DEF ReadReturns, Control, MutexInv, StatusInv, OfflineCleared,
              RunHolds
<1>6. CASE ItemValid
  BY <1>6 DEF ItemValid, Control, MutexInv, StatusInv, OfflineCleared,
              RunHolds
<1>7. CASE ItemInvalid
  <2>1. runPc = "item" /\ NextItem
    BY <1>7 DEF ItemInvalid
  <2>2. /\ runPc' \in {"item", "read", "sleep"}
        /\ ReadWriteMutex' = "run" <=> runPc' # "sleep"
        /\ ReadWriteMutex' # "modbus"
    BY <1>0, <2>1, NextItemType DEF Control, MutexInv, RunHolds
  <2>3. QED
    BY <1>0, <1>7, <2>2 DEF ItemInvalid, Control, MutexInv, StatusInv,
                            OfflineCleared, RunHolds
<1>8. CASE CheckDataChange
  <2>1. runPc = "copy" /\ NextItem
    BY <1>8 DEF CheckDataChange
  <2>2. /\ runPc' \in {"item", "read", "sleep"}
        /\ ReadWriteMutex' = "run" <=> runPc' # "sleep"
        /\ ReadWriteMutex' # "modbus"
    BY <1>0, <2>1, NextItemType DEF Control, MutexInv, RunHolds
  <2>3. QED
    BY <1>0, <1>8, <2>2 DEF CheckDataChange, Control, MutexInv, StatusInv,
                            OfflineCleared, RunHolds
<1>9. CASE GoOffline
  <2>1. \A i \in Items : ~(i < 0)
    BY ItemFacts
  <2>2. QED
    BY <1>9, <2>1 DEF GoOffline, Control, MutexInv, StatusInv, OfflineCleared,
                RunHolds, ErrorLimit
<1>10. CASE SetDataItemStatus
  <2>1. item \in Items /\ item \in Nat /\ itemStatus' = [itemStatus EXCEPT ![item] = FALSE]
    BY <1>10 DEF SetDataItemStatus, TypeOK
  <2>2. \A i \in Items : i < item => ~itemStatus[i]
    BY <1>10 DEF SetDataItemStatus, Control, StatusInv
  <2>3. \A i \in Items : i < item + 1 => ~itemStatus'[i]
    BY <1>0, <2>1, <2>2, ItemFacts
  <2>4. ~(item < Len(Config) - 1) => \A i \in Items : i < item + 1
    BY <2>1, ItemFacts DEF Items
  <2>5. QED
    BY <1>10, <2>3, <2>4 DEF SetDataItemStatus, Control, MutexInv, StatusInv,
                             OfflineCleared, RunHolds
<1>11. CASE DisconnectReturns
  BY <1>11 DEF DisconnectReturns, Control, MutexInv, StatusInv,
               OfflineCleared, RunHolds
<1>12. CASE TryToReconnect
  BY <1>12 DEF TryToReconnect, Control, MutexInv, StatusInv, OfflineCleared,
               RunHolds
<1>13. CASE Wake
  BY <1>13 DEF Wake, Control, MutexInv, StatusInv, OfflineCleared, RunHolds
<1>14. QED
  BY <1>1, <1>2, <1>3, <1>4, <1>5, <1>6, <1>7, <1>8, <1>9, <1>10, <1>11,
     <1>12, <1>13 DEF RunThread

\* So does every step of a call.
LEMMA ModbusThreadControl == TypeOK /\ Control /\ ModbusThread => Control'
<1> SUFFICES ASSUME TypeOK, Control, ModbusThread PROVE Control'
  OBVIOUS
<1> USE DEF sharedVars, itemVars, runVars, modVars, deviceVars, historyVars,
            Return
<1>1. ASSUME NEW r \in Requests, Call(r) PROVE Control'
  BY <1>1, ControlFrame DEF Call, WritePcs
<1>2. CASE GateOffline
  BY <1>2, ControlFrame DEF GateOffline, WritePcs
<1>3. CASE GateOnline
  BY <1>3 DEF GateOnline, Control, MutexInv, StatusInv, OfflineCleared
<1>4. CASE ReadSiemensStatus
  BY <1>4, ControlFrame DEF ReadSiemensStatus, Deliver, WritePcs
<1>5. CASE GetStatus
  BY <1>5, ControlFrame DEF GetStatus, WritePcs
<1>6. CASE Fetch
  BY <1>6, ControlFrame DEF Fetch, Deliver, WritePcs
<1>7. CASE ResourceGate
  BY <1>7 DEF ResourceGate, Control, MutexInv, StatusInv, OfflineCleared,
              WritePcs
<1>8. CASE LockForWrite
  BY <1>8 DEF LockForWrite, Control, MutexInv, StatusInv, OfflineCleared,
              WritePcs
<1>9. CASE FillBuffer
  BY <1>9 DEF FillBuffer, Control, MutexInv, StatusInv, OfflineCleared,
              WritePcs
<1>10. CASE RefuseFill
  BY <1>10 DEF RefuseFill, Control, MutexInv, StatusInv, OfflineCleared,
               WritePcs
<1>11. CASE WriteReturns
  BY <1>11 DEF WriteReturns, Control, MutexInv, StatusInv, OfflineCleared,
               WritePcs
<1>12. CASE WriteFails
  BY <1>12 DEF WriteFails, Control, MutexInv, StatusInv, OfflineCleared,
               WritePcs
<1>13. QED
  BY <1>1, <1>2, <1>3, <1>4, <1>5, <1>6, <1>7, <1>8, <1>9, <1>10, <1>11,
     <1>12 DEF ModbusThread

-----------------------------------------------------------------------------
(* The calls of the Modbus thread.                                         *)

\* What each step of a call knows of its request, and what its answer says.
Calls ==
    /\ RequestInv /\ FillInv
    /\ WriteSendsPayload /\ WriteAnswerIsTrue /\ WriteAllWritable

\* A step of the run thread reaches the transfer buffers only while it holds
\* the mutex, when no write has payloads in them.
LEMMA RunThreadCalls == TypeOK /\ Control /\ Calls /\ RunThread => Calls'
<1> SUFFICES ASSUME TypeOK, Control, Calls, RunThread PROVE Calls'
  OBVIOUS
<1> USE DEF sharedVars, itemVars, runVars, modVars, deviceVars, historyVars
<1>1. UNCHANGED modVars /\ applied' = applied
  BY DEF RunThread, ConnectReturns, MarkOnline, StartCycle, ReadFails,
         ReadReturns, ItemValid, ItemInvalid, CheckDataChange, GoOffline,
         SetDataItemStatus, DisconnectReturns, TryToReconnect, Wake
<1>2. modPc \in {"fill", "write"} => pdata' = pdata
  <2>1. CASE ReadReturns
    BY <2>1 DEF ReadReturns, Control, MutexInv, RunHolds
  <2>2. CASE ~ReadReturns
    BY <2>2 DEF RunThread, ConnectReturns, MarkOnline, StartCycle, ReadFails,
         ItemValid, ItemInvalid, CheckDataChange, GoOffline,
         SetDataItemStatus, DisconnectReturns, TryToReconnect, Wake
  <2>3. QED
    BY <2>1, <2>2
<1>3. QED
  BY <1>1, <1>2 DEF Calls, RequestInv, FillInv, WriteSendsPayload,
     WriteAnswerIsTrue, WriteAllWritable, Sent, Single, Id, RequestItems

\* Of the Modbus thread's steps only the last ones of a write touch `applied'.
LEMMA ModbusThreadCalls == TypeOK /\ Control /\ Calls /\ ModbusThread => Calls'
<1> SUFFICES ASSUME TypeOK, Control, Calls, ModbusThread PROVE Calls'
  OBVIOUS
<1> USE DEF sharedVars, itemVars, runVars, modVars, deviceVars, historyVars,
            Return, Calls, Single, Id
<1>0. /\ Len(request.ids) \in Nat
      /\ DOMAIN request.ids = 1 .. Len(request.ids)
      /\ index \in Nat
      /\ modPc \in {"itemStatus", "fetch", "fill"} => index \in DOMAIN request.ids
      /\ modPc # "idle" => request \in Requests /\ applied = {}
  BY CurrentRequestType DEF TypeOK, RequestInv
<1>1. ASSUME NEW r \in Requests, Call(r) PROVE Calls'
  <2>1. r.op \in ReadOps \cup WriteOps
    BY RequestType
  <2>2. QED
    BY <1>1, <2>1
       DEF Call, RequestInv, FillInv, WriteSendsPayload, WriteAnswerIsTrue,
           WriteAllWritable, ReadOps, WriteOps, WritePcs
<1>2. CASE GateOffline
  BY <1>2, <1>0 DEF GateOffline, RequestInv, FillInv, WriteSendsPayload,
     WriteAnswerIsTrue, WriteAllWritable, WritePcs
<1>3. CASE GateOnline
  BY <1>3, <1>0 DEF GateOnline, RequestInv, FillInv, WriteSendsPayload,
     WriteAnswerIsTrue, WriteAllWritable, WritePcs, ReadOps, WriteOps
<1>4. CASE ReadSiemensStatus
  BY <1>4, <1>0 DEF ReadSiemensStatus, Deliver, RequestInv, FillInv,
     WriteSendsPayload, WriteAnswerIsTrue, WriteAllWritable, WritePcs, ReadOps,
     WriteOps
<1>5. CASE GetStatus
  BY <1>5, <1>0 DEF GetStatus, RequestInv, FillInv, WriteSendsPayload,
     WriteAnswerIsTrue, WriteAllWritable, WritePcs, ReadOps, WriteOps
<1>6. CASE Fetch
  BY <1>6, <1>0 DEF Fetch, Deliver, RequestInv, FillInv, WriteSendsPayload,
     WriteAnswerIsTrue, WriteAllWritable, WritePcs, ReadOps, WriteOps
<1>7. CASE ResourceGate
  BY <1>7, <1>0 DEF ResourceGate, RequestInv, FillInv, WriteSendsPayload,
     WriteAnswerIsTrue, WriteAllWritable, WritePcs, RequestItems
<1>8. CASE LockForWrite
  <2>1. /\ modPc = "lock" /\ modPc' = IF Single \/ request.ids = <<>> THEN "write" ELSE "fill"
        /\ UNCHANGED <<request, index, applied, pdata, result>>
    BY <1>8 DEF LockForWrite
  <2>2. index = 1 /\ (Single => IsDataItemWritable(request.ids[1]))
    BY <2>1 DEF RequestInv
  <2>3. RequestInv'
    BY <1>0, <2>1, <2>2 DEF RequestInv, WritePcs
  <2>4. ASSUME modPc' = "write", NEW n \in DOMAIN request.ids
        PROVE  n = 1 /\ Single
    <3>1. Single \/ request.ids = <<>>
      BY <2>1, <2>4
    <3>2. n \in 1 .. Len(request.ids) /\ Len(request.ids) \in Nat
      BY <1>0
    <3>3. Single
      BY <3>1, <3>2
    <3>4. QED
      BY <3>2, <3>3
  <2>5. FillInv'
    <3>1. modPc' = "write" => \A i \in RequestItems : IsDataItemWritable(i)
      BY <2>2, <2>4 DEF RequestItems
    <3>2. QED
      BY <2>1, <2>2, <3>1 DEF FillInv, RequestItems
  <2>6. WriteSendsPayload'
    BY <2>1, <2>4 DEF WriteSendsPayload, Sent
  <2>7. WriteAnswerIsTrue' /\ WriteAllWritable'
    BY <1>0, <2>1 DEF WriteAnswerIsTrue, WriteAllWritable
  <2>8. QED
    BY <2>3, <2>5, <2>6, <2>7
<1>9. CASE FillBuffer
  <2>1. /\ modPc = "fill" /\ IsDataItemWritable(request.ids[index])
        /\ pdata' = [pdata EXCEPT ![request.ids[index]] = Payload(request, index)]
        /\ UNCHANGED <<request, applied>>
        /\ index \in DOMAIN request.ids
    BY <1>0, <1>9 DEF FillBuffer
  <2>2. /\ ~Single /\ index <= 256
        /\ \A n \in 1 .. index - 1 :
             /\ IsDataItemWritable(request.ids[n])
             /\ pdata[request.ids[n]] = Payload(request, n)
    BY <2>1 DEF FillInv
  <2>3. request \in Requests /\ request.ids \in Seq(Items)
    BY <1>0, <2>1, RequestType DEF RequestInv, WritePcs, WriteOps
  <2>4. \A n \in 1 .. index :
          /\ IsDataItemWritable(request.ids[n])
          /\ pdata'[request.ids[n]] = Payload(request, n)
    <3> TAKE n \in 1 .. index
    <3>1. n \in DOMAIN request.ids
      BY <1>0, <2>1
    <3>2. request.ids[n] \in Items /\ pdata \in [Items -> Value]
      BY <2>3, <3>1 DEF TypeOK
    <3>3. n # index => request.ids[n] # request.ids[index] /\ n \in 1 .. index - 1
      BY <1>0, <2>1, <2>3, <3>1, RequestType
    <3>4. QED
      BY <2>1, <2>2, <3>2, <3>3
  <2>5. \/ modPc' = "fill" /\ index' = 1
        \/ modPc' = "fill" /\ index' = index + 1 /\ index + 1 <= 256
        \/ modPc' = "write" /\ index = Len(request.ids) /\ index' = 1
    BY <1>0, <1>9, <2>1, <2>2 DEF FillBuffer
  <2>6. RequestInv'
    BY <1>0, <2>1, <2>2, <2>5 DEF RequestInv, WritePcs
  <2>7. FillInv'
    <3>1. CASE modPc' = "write"
      <4>1. \A i \in RequestItems : IsDataItemWritable(i)
        BY <1>0, <2>4, <2>5, <3>1 DEF RequestItems
      <4>2. QED
        BY <2>1, <3>1, <4>1 DEF FillInv, RequestItems
    <3>2. CASE modPc' = "fill" /\ index' = 1
      BY <2>1, <2>2, <3>2 DEF FillInv
    <3>3. CASE modPc' = "fill" /\ index' = index + 1 /\ index + 1 <= 256
      <4>1. 1 .. index' - 1 = 1 .. index
        BY <1>0, <3>3
      <4>2. QED
        BY <2>1, <2>2, <2>4, <3>3, <4>1 DEF FillInv
    <3>4. QED
      BY <2>5, <3>1, <3>2, <3>3
  <2>8. WriteSendsPayload'
    BY <1>0, <2>1, <2>2, <2>4, <2>5 DEF WriteSendsPayload, Sent
  <2>9. WriteAnswerIsTrue' /\ WriteAllWritable'
    BY <1>0, <2>1, <2>5 DEF WriteAnswerIsTrue, WriteAllWritable
  <2>10. QED
    BY <2>6, <2>7, <2>8, <2>9
<1>10. CASE RefuseFill
  BY <1>10, <1>0 DEF RefuseFill, RequestInv, FillInv, WriteSendsPayload,
     WriteAnswerIsTrue, WriteAllWritable, WritePcs, RequestItems, Sent
<1>11. CASE WriteReturns
  BY <1>11, <1>0 DEF WriteReturns, Store, RequestInv, FillInv,
     WriteSendsPayload, WriteAnswerIsTrue, WriteAllWritable, WritePcs,
     RequestItems
<1>12. CASE WriteFails
  BY <1>12, <1>0 DEF WriteFails, Store, RequestInv, FillInv,
     WriteSendsPayload, WriteAnswerIsTrue, WriteAllWritable, WritePcs,
     RequestItems
<1>13. QED
  BY <1>1, <1>2, <1>3, <1>4, <1>5, <1>6, <1>7, <1>8, <1>9, <1>10, <1>11,
     <1>12 DEF ModbusThread

-----------------------------------------------------------------------------
(* The local copies.                                                       *)

\* The buffers of the poll in progress, and the copies made of them.
Copies == CopyInv /\ LocalCopyIsPolled

\* Going on to the next item takes no item but the current one off the pending
\* ones, and adds none.
LEMMA PendingNext ==
    ASSUME TypeOK, Error_Count < ErrorLimit, runPc \in {"item", "copy"}, NextItem,
           NEW i \in Items
    PROVE  /\ Pending(i)' => Pending(i)
           /\ Pending(i) /\ i # CurrentItem => Pending(i)'
           /\ runPc' # "copy"
<1>1. /\ group \in DOMAIN ListOfDataItemGroups
      /\ item \in DOMAIN ListOfDataItemGroups[group]
  BY DEF TypeOK
<1>2. /\ Len(ListOfDataItemGroups[group]) \in Nat
      /\ DOMAIN ListOfDataItemGroups[group] = 1 .. Len(ListOfDataItemGroups[group])
  BY <1>1, GroupType
<1>3. CASE /\ runPc' = "item" /\ item' = item + 1
           /\ group' = group /\ okItems' = okItems
  BY <1>1, <1>2, <1>3 DEF Pending, CurrentItem
<1>4. CASE /\ item = Len(ListOfDataItemGroups[group])
           /\ okItems' = {} /\ runPc' \in {"read", "sleep"}
  <2>1. Pending(i) => i = CurrentItem
    BY <1>1, <1>2, <1>4 DEF Pending, CurrentItem
  <2>2. QED
    BY <1>4, <2>1 DEF Pending
<1>5. QED
  BY <1>3, <1>4, NextItemType

\* Between a read and the copies of its items the run thread keeps the buffers
\* of the items still to be copied.
LEMMA RunThreadCopies == TypeOK /\ Control /\ Copies /\ RunThread => Copies'
<1> SUFFICES ASSUME TypeOK, Control, Copies, RunThread PROVE Copies'
  OBVIOUS
<1> USE DEF sharedVars, itemVars, runVars, modVars, deviceVars, historyVars
<1>0. /\ localCopy \in [Items -> Value] /\ itemStatus \in [Items -> BOOLEAN]
      /\ localStatusCopy \in [Items -> BOOLEAN]
      /\ runPc # "offline" => Error_Count \in Nat /\ Error_Count < ErrorLimit
      /\ runPc \in {"item", "copy"} => CurrentItem \in Items
  BY CurrentItemType DEF TypeOK, Control, ErrorLimit
<1>1. CASE \/ ConnectReturns \/ MarkOnline \/ StartCycle \/ GoOffline
           \/ DisconnectReturns \/ TryToReconnect \/ Wake
  BY <1>1 DEF ConnectReturns, MarkOnline, StartCycle, GoOffline,
     DisconnectReturns, TryToReconnect, Wake, Copies, CopyInv,
     LocalCopyIsPolled, Pending
<1>2. CASE ReadFails
  <2>1. runPc = "read" /\ Error_Count + 1 \in Nat /\ AfterGroup(Error_Count + 1)
    BY <1>0, <1>2 DEF ReadFails
  <2>2. runPc' \in {"offline", "read", "sleep"}
    BY <2>1, AfterGroupType
  <2>3. QED
    BY <1>2, <2>1, <2>2 DEF ReadFails, Copies, CopyInv, LocalCopyIsPolled, Pending
<1>3. CASE ReadReturns
  <2>1. PICK ok \in SUBSET GroupItems(group) :
          /\ okItems' = ok
          /\ pdata'  = [i \in Items |-> IF i \in ok THEN device[i] ELSE pdata[i]]
          /\ polled' = [i \in Items |-> IF i \in ok THEN device[i] ELSE polled[i]]
    BY <1>3 DEF ReadReturns
  <2>2. /\ runPc = "read" /\ runPc' = "item" /\ item' = 1
        /\ UNCHANGED <<itemVars, group, loaded>>
    BY <1>3 DEF ReadReturns
  <2>3. group \in DOMAIN ListOfDataItemGroups
    BY DEF TypeOK
  <2>4. \A i \in ok : Pending(i)'
    BY <2>1, <2>2, <2>3, GroupType DEF Pending, GroupItems
  <2>5. \A i \in Items : Pending(i)' => i \in ok
    BY <2>1 DEF Pending
  <2>6. \A i \in Items : ~Pending(i)
    BY <2>2 DEF Pending
  <2>7. CopyInv'
    BY <2>1, <2>2, <2>5 DEF CopyInv
  <2>8. LocalCopyIsPolled'
    BY <2>1, <2>2, <2>4, <2>6 DEF Copies, LocalCopyIsPolled
  <2>9. QED
    BY <2>7, <2>8 DEF Copies
<1>4. CASE ItemValid
  <2>1. \A i \in Items : Pending(i)' <=> Pending(i)
    BY <1>4 DEF ItemValid, Pending
  <2>2. CurrentItem' = CurrentItem
    BY <1>4 DEF ItemValid, CurrentItem
  <2>3. QED
    BY <1>0, <1>4, <2>1, <2>2 DEF ItemValid, Copies, CopyInv, LocalCopyIsPolled
<1>5. CASE ItemInvalid
  <2>1. runPc = "item" /\ NextItem /\ CurrentItem \notin okItems
    BY <1>5 DEF ItemInvalid
  <2>2. \A i \in Items : Pending(i)' <=> Pending(i)
    BY <1>0, <2>1, PendingNext DEF Pending
  <2>3. runPc' # "copy"
    BY <1>0, <2>1, PendingNext
  <2>4. QED
    BY <1>5, <2>2, <2>3 DEF ItemInvalid, Copies, CopyInv, LocalCopyIsPolled
<1>6. CASE CheckDataChange
  <2>1. runPc = "copy" /\ NextItem /\ CurrentItem \in Items
    BY <1>0, <1>6 DEF CheckDataChange
  <2>2. itemStatus[CurrentItem] /\ pdata[CurrentItem] = polled[CurrentItem]
    <3>1. item \in DOMAIN ListOfDataItemGroups[group]
          /\ group \in DOMAIN ListOfDataItemGroups
      BY <2>1 DEF TypeOK
    <3>2. item \in Nat
      BY DEF TypeOK
    <3>3. Pending(CurrentItem) /\ itemStatus[CurrentItem]
      BY <2>1, <3>1, <3>2 DEF Copies, CopyInv, Pending, CurrentItem
    <3>4. QED
      BY <2>1, <3>3 DEF Copies, CopyInv
  <2>3. /\ localCopy' = [localCopy EXCEPT ![CurrentItem] = polled[CurrentItem]]
        /\ localStatusCopy' =
             [localStatusCopy EXCEPT ![CurrentItem] = itemStatus[CurrentItem]]
        /\ loaded' = loaded \cup {CurrentItem}
        /\ UNCHANGED <<itemStatus, pdata, polled>>
    BY <1>6, <2>2 DEF CheckDataChange
  <2>4. \A i \in Items : /\ Pending(i)' => Pending(i)
                         /\ Pending(i) /\ i # CurrentItem => Pending(i)'
    BY <1>0, <2>1, PendingNext
  <2>5. runPc' # "copy"
    BY <1>0, <2>1, PendingNext
  <2>6. CopyInv'
    BY <2>3, <2>4, <2>5 DEF Copies, CopyInv
  <2>7. LocalCopyIsPolled'
    BY <1>0, <2>1, <2>3, <2>4 DEF Copies, LocalCopyIsPolled
  <2>8. QED
    BY <2>6, <2>7 DEF Copies
<1>7. CASE SetDataItemStatus
  BY <1>0, <1>7 DEF SetDataItemStatus, Copies, CopyInv, LocalCopyIsPolled, Pending
<1>8. QED
  BY <1>1, <1>2, <1>3, <1>4, <1>5, <1>6, <1>7 DEF RunThread

\* A write fills transfer buffers only while no poll has data in them.
LEMMA ModbusThreadCopies == TypeOK /\ Control /\ Copies /\ ModbusThread => Copies'
<1> SUFFICES ASSUME TypeOK, Control, Copies, ModbusThread PROVE Copies'
  OBVIOUS
<1> USE DEF sharedVars, itemVars, runVars, modVars, deviceVars, historyVars
<1>1. UNCHANGED <<itemVars, runVars, polled, loaded>>
  BY DEF ModbusThread, Call, GateOffline, GateOnline, ReadSiemensStatus,
     GetStatus, Fetch, ResourceGate, LockForWrite, FillBuffer, RefuseFill,
     WriteReturns, WriteFails
<1>2. runPc \in {"item", "copy"} => pdata' = pdata
  <2>1. CASE FillBuffer
    BY <2>1 DEF FillBuffer, Control, MutexInv, RunHolds
  <2>2. CASE ~FillBuffer
    BY <2>2 DEF ModbusThread, Call, GateOffline, GateOnline, ReadSiemensStatus,
       GetStatus, Fetch, ResourceGate, LockForWrite, RefuseFill,
       WriteReturns, WriteFails
  <2>3. QED
    BY <2>1, <2>2
<1>3. QED
  BY <1>1, <1>2 DEF Copies, CopyInv, LocalCopyIsPolled, Pending, CurrentItem

-----------------------------------------------------------------------------
(* The inductive invariant and the theorems.                               *)

\* Type correctness and the three parts, which lean on each other in this order.
IndInv == TypeOK /\ Control /\ Calls /\ Copies

\* The strengthening that TLC checks is part of the inductive invariant.
LEMMA IndInvImpliesIInv == IndInv => IInv
BY DEF IndInv, IInv, Control, Calls, Copies

\* It holds when the threads start.
LEMMA InitIndInv == Init => IndInv
<1> SUFFICES ASSUME Init PROVE IndInv
  OBVIOUS
<1>1. /\ ~Status /\ ReadWriteMutex = "free" /\ runPc = "connect"
      /\ Error_Count = 0 /\ modPc = "idle" /\ request = NoRequest
      /\ applied = {} /\ loaded = {}
      /\ \A i \in Items : /\ ~itemStatus[i] /\ ~localStatusCopy[i]
                          /\ localCopy[i] = Zeros(size(i))
  BY DEF Init
<1>2. TypeOK
  BY InitType
<1>3. Control
  BY <1>1 DEF Control, MutexInv, StatusInv, OfflineCleared, RunHolds,
                WritePcs, ErrorLimit
<1>4. Calls
  <2>1. NoRequest.op \notin WriteOps
    BY DEF NoRequest, WriteOps
  <2>2. QED
    BY <1>1, <2>1 DEF Calls, RequestInv, FillInv, WriteSendsPayload,
       WriteAnswerIsTrue, WriteAllWritable, WritePcs
<1>5. Copies
  BY <1>1 DEF Copies, CopyInv, LocalCopyIsPolled, Pending
<1>6. QED
  BY <1>2, <1>3, <1>4, <1>5 DEF IndInv

\* The controller and the link cannot break it.
LEMMA EnvironmentIndInv ==
    IndInv /\ (Environment \/ UNCHANGED vars) => IndInv'
<1> SUFFICES ASSUME IndInv, Environment \/ UNCHANGED vars PROVE IndInv'
  OBVIOUS
<1>1. UNCHANGED <<sharedVars, itemVars, pdata, runVars, modVars, historyVars>>
  BY DEF Environment, DeviceStores, LinkBreaks, vars
<1> USE DEF sharedVars, itemVars, runVars, modVars, historyVars
<1>2. TypeOK'
  BY EnvironmentType DEF IndInv
<1>3. Control'
  BY <1>1 DEF IndInv, Control, MutexInv, StatusInv, OfflineCleared
<1>4. Calls'
  BY <1>1 DEF IndInv, Calls, RequestInv, FillInv, WriteSendsPayload,
     WriteAnswerIsTrue, WriteAllWritable, Sent, Single, Id, RequestItems
<1>5. Copies'
  BY <1>1 DEF IndInv, Copies, CopyInv, LocalCopyIsPolled, Pending, CurrentItem
<1>6. QED
  BY <1>2, <1>3, <1>4, <1>5 DEF IndInv

\* No step breaks it.
LEMMA NextIndInv == IndInv /\ [Next]_vars => IndInv'
<1> SUFFICES ASSUME IndInv, [Next]_vars PROVE IndInv'
  OBVIOUS
<1>1. TypeOK /\ IInv /\ Control /\ Calls /\ Copies
  BY IndInvImpliesIInv DEF IndInv
<1>2. CASE RunThread
  BY <1>1, <1>2, RunThreadType, RunThreadControl, RunThreadCalls,
     RunThreadCopies DEF IndInv
<1>3. CASE ModbusThread
  BY <1>1, <1>3, ModbusThreadType, ModbusThreadControl, ModbusThreadCalls,
     ModbusThreadCopies DEF IndInv
<1>4. CASE Environment \/ UNCHANGED vars
  BY <1>4, EnvironmentIndInv
<1>5. QED
  BY <1>2, <1>3, <1>4 DEF Next

\* So it always holds.
LEMMA Inductive == Spec => []IndInv
BY InitIndInv, NextIndInv, PTL DEF Spec

\* Whatever the configuration, the calls and the controller do, every variable
\* keeps its type and the loops of both threads stay inside their lists.
THEOREM TypeCorrect == Spec => []TypeOK
<1>1. IndInv => TypeOK
  BY DEF IndInv
<1>2. QED
  BY <1>1, Inductive, PTL

\* The strengthening that TLC checks as IInv follows from the one proved.
THEOREM Strengthening == Spec => []IInv
BY IndInvImpliesIInv, Inductive, PTL

\* The run thread and the Modbus thread are never in the snap7 client together,
\* although the first ConnectTo is made without the mutex.
THEOREM ClientIsExclusive == Spec => []ClientExclusive
<1>1. IndInv => ClientExclusive
  BY DEF IndInv, Control, MutexInv, StatusInv, ClientExclusive,
     RunThreadInClient, ModbusThreadInClient, RunHolds, WritePcs
<1>2. QED
  BY <1>1, Inductive, PTL

\* While the controller is offline, no item is answered from its old copy, but for
\* the time in which the run thread is clearing the items (PLC.cpp:287-300).
THEOREM OutageClearsItems == Spec => []OfflineCleared
<1>1. IndInv => OfflineCleared
  BY DEF IndInv, Control
<1>2. QED
  BY <1>1, Inductive, PTL

\* A write sends what the client asked for, although polls use the same
\* transfer buffers.
THEOREM PayloadIsSent == Spec => []WriteSendsPayload
<1>1. IndInv => WriteSendsPayload
  BY DEF IndInv, Calls
<1>2. QED
  BY <1>1, Inductive, PTL

\* What a read finds in a local copy is what the controller delivered last,
\* although writes use the transfer buffer it was copied from.
THEOREM CopiesArePolled == Spec => []LocalCopyIsPolled
<1>1. IndInv => LocalCopyIsPolled
  BY DEF IndInv, Copies
<1>2. QED
  BY <1>1, Inductive, PTL

\* The answer of a write tells whether its items were stored.
THEOREM WriteAnswersAreTrue == Spec => []WriteAnswerIsTrue
<1>1. IndInv => WriteAnswerIsTrue
  BY DEF IndInv, Calls
<1>2. QED
  BY <1>1, Inductive, PTL

\* One item without write access keeps all items of a write from being stored.
THEOREM WritesAreWritable == Spec => []WriteAllWritable
<1>1. IndInv => WriteAllWritable
  BY DEF IndInv, Calls
<1>2. QED
  BY <1>1, Inductive, PTL

-----------------------------------------------------------------------------
(* Where the data comes from.                                              *)

\* What a write may store in an item, and what the controller may hold in it.
Written(i) ==
    {v \in Value : \E r \in Requests :
       /\ r.op \in WriteOps
       /\ r.op = "writeBytes" => SizeMatches(r, 65536)
       /\ \E n \in DOMAIN r.ids : r.ids[n] = i /\ v = Payload(r, n)}
Origin(i) == DeviceValues[i] \cup Written(i)

\* Every copy of an item's data on its way came from the controller's program or
\* from a client's write to this item: never from another item.
Origins ==
    \A i \in Items :
      /\ device[i] \in Origin(i)
      /\ polled[i] \in Origin(i) \cup {<<>>}
      /\ pdata[i] \in Origin(i) \cup {<<>>}
      /\ i \in okItems => pdata[i] \in Origin(i)
      /\ localCopy[i] \in Origin(i) \cup {Zeros(size(i))}

LEMMA InitOrigins == Init => Origins
BY DEF Init, Origins, Origin

\* The run thread moves a value along: from the controller to the item's buffer,
\* from there to its local copy.
LEMMA RunThreadOrigins == IndInv /\ Origins /\ RunThread => Origins'
<1> SUFFICES ASSUME IndInv, Origins, RunThread PROVE Origins'
  OBVIOUS
<1> USE DEF sharedVars, itemVars, runVars, modVars, deviceVars, historyVars
<1>1. CASE ReadReturns
  <2>1. PICK ok \in SUBSET GroupItems(group) :
          /\ okItems' = ok
          /\ pdata'  = [i \in Items |-> IF i \in ok THEN device[i] ELSE pdata[i]]
          /\ polled' = [i \in Items |-> IF i \in ok THEN device[i] ELSE polled[i]]
    BY <1>1 DEF ReadReturns
  <2>2. device' = device /\ localCopy' = localCopy
    BY <1>1 DEF ReadReturns
  <2> QED
    BY <2>1, <2>2 DEF Origins
<1>2. CASE CheckDataChange
  <2>1. /\ TypeOK /\ group \in DOMAIN ListOfDataItemGroups
        /\ item \in DOMAIN ListOfDataItemGroups[group]
        /\ CurrentItem \in okItems /\ Error_Count < ErrorLimit
        /\ localCopy \in [Items -> Value]
    BY <1>2 DEF CheckDataChange, IndInv, Copies, CopyInv, Control, TypeOK
  <2>2. CurrentItem \in Items
    BY <2>1, CurrentItemType
  <2>3. okItems' \subseteq okItems
    BY <1>2, <2>1, NextItemType DEF CheckDataChange
  <2>4. \A i \in Items : localCopy'[i] \in {localCopy[i], pdata[i]}
                         /\ (localCopy'[i] = pdata[i] => i = CurrentItem \/ localCopy'[i] = localCopy[i])
    BY <1>2, <2>1 DEF CheckDataChange
  <2>5. UNCHANGED <<device, polled, pdata>>
    BY <1>2 DEF CheckDataChange
  <2> QED
    BY <2>1, <2>2, <2>3, <2>4, <2>5 DEF Origins
<1>3. CASE ItemInvalid
  <2>1. okItems' \subseteq okItems
    BY <1>3, NextItemType DEF ItemInvalid, IndInv, Control
  <2> QED
    BY <1>3, <2>1 DEF ItemInvalid, Origins
<1>4. CASE ReadFails
  BY <1>4 DEF ReadFails, AfterGroup, Origins
<1>5. CASE ConnectReturns \/ MarkOnline \/ StartCycle \/ ItemValid \/ GoOffline
           \/ SetDataItemStatus \/ DisconnectReturns \/ TryToReconnect \/ Wake
  <2>1. UNCHANGED <<device, polled, pdata, okItems, localCopy>>
    BY <1>5 DEF ConnectReturns, MarkOnline, StartCycle, ItemValid, GoOffline,
                SetDataItemStatus, DisconnectReturns, TryToReconnect, Wake
  <2> QED
    BY <2>1 DEF Origins
<1> QED
  BY <1>1, <1>2, <1>3, <1>4, <1>5 DEF RunThread

\* The payload of a call in progress is one that may be written.
LEMMA PayloadWritten ==
    ASSUME IndInv, modPc \in {"fill", "write"}, NEW n \in DOMAIN request.ids
    PROVE  /\ request.ids[n] \in Items
           /\ Payload(request, n) \in Written(request.ids[n])
<1>1. /\ request \in Requests /\ request.op \in WriteOps
      /\ request.op = "writeBytes" => SizeMatches(request, 65536)
  BY DEF IndInv, Calls, RequestInv, WritePcs
<1>2. Payload(request, n) \in Value /\ request.ids[n] \in Items
  BY <1>1, RequestType DEF WriteOps
<1> QED
  BY <1>1, <1>2 DEF Written

\* The Modbus thread brings payloads to the items they are meant for.
LEMMA ModbusThreadOrigins == IndInv /\ Origins /\ ModbusThread => Origins'
<1> SUFFICES ASSUME IndInv, Origins, ModbusThread PROVE Origins'
  OBVIOUS
<1> USE DEF sharedVars, itemVars, runVars, modVars, deviceVars, historyVars
<1>1. CASE FillBuffer
  <2>1. index \in DOMAIN request.ids /\ pdata \in [Items -> Value]
    BY <1>1 DEF FillBuffer, IndInv, TypeOK
  <2>2. pdata' = [pdata EXCEPT ![request.ids[index]] = Payload(request, index)]
    BY <1>1 DEF FillBuffer, Id
  <2>3. Payload(request, index) \in Origin(request.ids[index])
    BY <1>1, <2>1, PayloadWritten DEF FillBuffer, Origin
  <2>4. UNCHANGED <<device, polled, okItems, localCopy>>
    BY <1>1 DEF FillBuffer
  <2> QED
    BY <2>1, <2>2, <2>3, <2>4 DEF Origins
<1>2. CASE WriteReturns \/ WriteFails
  <2>1. PICK ok \in SUBSET RequestItems : Store(ok)
    BY <1>2 DEF WriteReturns, WriteFails
  <2>2. modPc = "write" /\ WriteSendsPayload
    BY <1>2 DEF WriteReturns, WriteFails, IndInv, Calls
  <2>3. ASSUME NEW i \in ok PROVE Sent(i) \in Origin(i)
    <3>1. PICK n \in DOMAIN request.ids : i = request.ids[n]
      BY DEF RequestItems
    <3>2. Sent(i) = Payload(request, n)
      BY <2>2, <3>1 DEF WriteSendsPayload
    <3> QED
      BY <2>2, <3>1, <3>2, PayloadWritten DEF Origin
  <2>4. \A i \in Items : device'[i] = IF i \in ok THEN Sent(i) ELSE device[i]
    BY <2>1 DEF Store
  <2>5. UNCHANGED <<polled, pdata, okItems, localCopy>>
    BY <1>2 DEF WriteReturns, WriteFails
  <2> QED
    BY <2>3, <2>4, <2>5 DEF Origins
<1>3. CASE ~(FillBuffer \/ WriteReturns \/ WriteFails)
  <2>1. UNCHANGED <<device, polled, pdata, okItems, localCopy>>
    BY <1>3 DEF ModbusThread, Call, GateOffline, GateOnline, ReadSiemensStatus,
                GetStatus, Fetch, ResourceGate, LockForWrite, RefuseFill
  <2> QED
    BY <2>1 DEF Origins
<1> QED
  BY <1>1, <1>2, <1>3

LEMMA NextOrigins == IndInv /\ Origins /\ [Next]_vars => Origins'
<1> SUFFICES ASSUME IndInv, Origins, [Next]_vars PROVE Origins'
  OBVIOUS
<1> USE DEF sharedVars, itemVars, runVars, modVars, deviceVars, historyVars
<1>1. CASE DeviceStores
  <2>1. PICK i \in Items : \E v \in DeviceValues[i] :
          device' = [device EXCEPT ![i] = v]
    BY <1>1 DEF DeviceStores
  <2>2. PICK v \in DeviceValues[i] : device' = [device EXCEPT ![i] = v]
    BY <2>1
  <2>3. \A j \in Items : device'[j] \in Origin(j)
    BY <2>2 DEF Origins, Origin, IndInv, TypeOK
  <2> QED
    BY <1>1, <2>3 DEF DeviceStores, Origins
<1>2. CASE LinkBreaks \/ UNCHANGED vars
  BY <1>2 DEF LinkBreaks, vars, Origins
<1> QED
  BY <1>1, <1>2, RunThreadOrigins, ModbusThreadOrigins DEF Next, Environment

\* Whatever the two threads do at the same time, no item ever holds data of
\* another one (the poll of PLC.cpp:239-283 and the writes of PLC.cpp:130-173,
\* which share the items' transfer buffers).
THEOREM DataKeepsToItsItem == Spec => []Origins
BY Inductive, InitOrigins, NextOrigins, PTL DEF Spec

-----------------------------------------------------------------------------
(* What the answer of a call is made of.                                   *)

\* An entry of an answer: the controller's status, or the data of the item.
Entry(id, entry) ==
    IF id = SIEMENS_STATUS THEN entry \in {<<0>>, <<1>>}
    ELSE \E v \in Origin(id) \cup {Zeros(size(id))} : entry = GetData(v)

\* One entry per item so far, and after a success one per item of the request;
\* and what its size was compared with.
Answers ==
    /\ Len(Readdata) <= Len(request.ids)
    /\ \A n \in DOMAIN Readdata : Entry(request.ids[n], Readdata[n])
    /\ modPc = "gate" => Readdata = <<>>
    /\ modPc \in {"itemStatus", "fetch"} => Len(Readdata) + 1 = index
    /\ modPc \in {"gate", "itemStatus", "fetch"} /\ request.op = "readBytes" =>
         SizeMatches(request, 256)
    /\ modPc = "idle" /\ result = "OK" =>
         /\ request.op \in ReadOps => Len(Readdata) = Len(request.ids)
         /\ request.op = "readBytes" => SizeMatches(request, 256)
         /\ request.op = "writeBytes" => SizeMatches(request, 65536)

LEMMA InitAnswers == Init => Answers
BY DEF Init, Answers, NoRequest, ReadOps

\* One more entry.
LEMMA DeliverAnswers ==
    ASSUME IndInv, Answers, modPc \in {"itemStatus", "fetch"}, NEW entry,
           Deliver(entry), Entry(Id, entry), request' = request,
           UNCHANGED loaded
    PROVE  Answers'
<1>1. /\ Readdata \in Seq(Value) /\ index \in DOMAIN request.ids
      /\ DOMAIN request.ids = 1 .. Len(request.ids) /\ Len(request.ids) \in Nat
      /\ index \in Nat /\ request.op \in ReadOps /\ Len(Readdata) + 1 = index
      /\ DOMAIN Readdata = 1 .. Len(Readdata) /\ Len(Readdata) \in Nat
  BY CurrentRequestType DEF IndInv, TypeOK, Calls, RequestInv, Answers
<1>2. /\ Readdata' = Append(Readdata, entry)
      /\ Len(Readdata') = index /\ DOMAIN Readdata' = 1 .. index
      /\ Readdata'[index] = entry
      /\ \A n \in DOMAIN Readdata : Readdata'[n] = Readdata[n]
  BY <1>1 DEF Deliver
<1>3. \A n \in DOMAIN Readdata' : Entry(request.ids[n], Readdata'[n])
  BY <1>1, <1>2 DEF Answers, Id
<1>4. \A id, e : Entry(id, e)' <=> Entry(id, e)
  BY DEF Entry
<1>5. request.op = "readBytes" => SizeMatches(request, 256)
  BY DEF Answers
<1>6. SizeMatches(request, 256)' <=> SizeMatches(request, 256)
  BY DEF SizeMatches
<1>7. \/ index' = index + 1 /\ index < Len(request.ids) /\ modPc' = "itemStatus"
      \/ modPc' = "idle" /\ ~(index < Len(request.ids))
  BY DEF Deliver, Return
<1> QED
  BY <1>1, <1>2, <1>3, <1>5, <1>6, <1>7 DEF Answers, Entry, ReadOps

\* A step of the run thread or the environment does not touch the answer.
LEMMA AnswersFrame ==
    ASSUME Answers, UNCHANGED modVars PROVE Answers'
BY DEF Answers, Entry, modVars, SizeMatches

LEMMA NextAnswers == IndInv /\ Origins /\ Answers /\ [Next]_vars => Answers'
<1> SUFFICES ASSUME IndInv, Origins, Answers, [Next]_vars PROVE Answers'
  OBVIOUS
<1>1. CASE RunThread \/ Environment \/ UNCHANGED vars
  <2>1. UNCHANGED modVars
    BY <1>1 DEF RunThread, ConnectReturns, MarkOnline, StartCycle, ReadFails,
         ReadReturns, ItemValid, ItemInvalid, CheckDataChange, GoOffline,
         SetDataItemStatus, DisconnectReturns, TryToReconnect, Wake,
         Environment, DeviceStores, LinkBreaks, vars
  <2> QED
    BY <2>1, AnswersFrame
<1>2. CASE ModbusThread
  <2> USE DEF sharedVars, itemVars, runVars, deviceVars, historyVars
  <2>0. /\ Len(request.ids) \in Nat /\ Readdata \in Seq(Value)
        /\ modPc \in {"itemStatus", "fetch"} =>
             request.op \in ReadOps /\ index \in DOMAIN request.ids
        /\ modPc # "idle" => request \in Requests /\ request.op \in ReadOps \cup WriteOps
        /\ modPc \in WritePcs =>
             /\ request.op \in WriteOps
             /\ request.op = "writeBytes" => SizeMatches(request, 65536)
    BY CurrentRequestType, RequestType DEF IndInv, TypeOK, Calls, RequestInv
  <2>1. ASSUME NEW r \in Requests, Call(r) PROVE Answers'
    <3>1. /\ request' = r /\ Readdata' = <<>>
          /\ \/ r.op = "readBits" /\ modPc' = "itemStatus" /\ index' = 1
             \/ r.op = "readBytes" /\ modPc' = "gate" /\ SizeMatches(r, 256)
             \/ r.op = "readBytes" /\ modPc' = "idle" /\ result' = "InvalidSize"
             \/ r.op \in WriteOps /\ modPc' = "gate"
      BY <2>1 DEF Call
    <3>2. Len(r.ids) \in Nat
      BY RequestType
    <3> QED
      BY <3>1, <3>2 DEF Answers, WriteOps, ReadOps
  <2>2. CASE ReadSiemensStatus
    <3>1. Entry(Id, <<IF Status THEN 1 ELSE 0>>)
      BY <2>2 DEF ReadSiemensStatus, Entry
    <3> QED
      BY <2>2, <3>1, DeliverAnswers DEF ReadSiemensStatus
  <2>3. CASE Fetch
    <3>1. Id \in Items
      BY <2>3, <2>0, CurrentRequestType
         DEF Fetch, Id, IndInv, Calls, RequestInv
    <3>2. Id # SIEMENS_STATUS
      BY <3>1, ItemFacts
    <3>3. Entry(Id, GetData(localCopy[Id]))
      BY <3>1, <3>2 DEF Origins, Entry
    <3> QED
      BY <2>3, <3>3, DeliverAnswers DEF Fetch
  <2>4. CASE GetStatus
    BY <2>4, <2>0 DEF GetStatus, Return, Answers, Entry, SizeMatches
  <2>5. CASE GateOffline
    BY <2>5, <2>0 DEF GateOffline, Return, Answers, Entry, SizeMatches
  <2>6. CASE GateOnline
    <3>1. UNCHANGED <<request, Readdata>>
      BY <2>6 DEF GateOnline
    <3>2. \/ modPc' = "itemStatus" /\ index' = index /\ request.op = "readBytes"
          \/ modPc' = "resource"
          \/ modPc' = "idle" /\ result' = "InvalidSize"
      BY <2>6 DEF GateOnline, Return
    <3>3. modPc = "gate" /\ index = 1
      BY <2>6 DEF GateOnline, IndInv, Calls, RequestInv
    <3> QED
      BY <2>0, <3>1, <3>2, <3>3 DEF Answers, Entry, SizeMatches
  <2>7. CASE ResourceGate \/ LockForWrite \/ FillBuffer \/ RefuseFill
             \/ WriteReturns \/ WriteFails
    <3>1. /\ modPc \in WritePcs /\ modPc' \in WritePcs \cup {"idle"}
          /\ UNCHANGED <<request, Readdata>>
      BY <2>7 DEF ResourceGate, LockForWrite, FillBuffer, RefuseFill,
                  WriteReturns, WriteFails, Return, WritePcs
    <3>2. request.op \in WriteOps /\ (request.op = "writeBytes" => SizeMatches(request, 65536))
      BY <2>0, <3>1
    <3> QED
      BY <3>1, <3>2 DEF Answers, Entry, SizeMatches, WritePcs, WriteOps, ReadOps
  <2> QED
    BY <1>2, <2>1, <2>2, <2>3, <2>4, <2>5, <2>6, <2>7 DEF ModbusThread
<1> QED
  BY <1>1, <1>2 DEF Next

\* The entries of an answer are the data of the items that were asked for, in
\* their order, and an answer that reports success has all of them.
THEOREM AnswersAreComplete == Spec => []Answers
BY Inductive, InitOrigins, NextOrigins, InitAnswers, NextAnswers, PTL DEF Spec

=============================================================================
