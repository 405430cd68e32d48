------------------------- MODULE ProcessImageProofs -------------------------
(***************************************************************************)
(* The Siemens client implements the process image, for every              *)
(* configuration, every set of requests and every controller.  The two     *)
(* places where the threads could be seen are the copy of a polled buffer  *)
(* that a write may have used meanwhile, and the sending of a buffer that  *)
(* a poll may have overwritten; there the proof rests on the inductive     *)
(* invariant of SiemensPLCProofs.                                          *)
(***************************************************************************)
EXTENDS SiemensPLCProofs, SiemensImage

\* A read in progress has one entry for each id before the current one.
AnswerInv ==
    /\ modPc = "gate" => Readdata = <<>>
    /\ modPc \in {"itemStatus", "fetch"} => Len(Readdata) = index - 1

ImageInv == IndInv /\ AnswerInv

\* Nobody but the Modbus thread touches its call.
LEMMA OthersKeepAnswer ==
    AnswerInv /\ (RunThread \/ Environment \/ UNCHANGED vars) => AnswerInv'
<1> SUFFICES ASSUME AnswerInv, RunThread \/ Environment \/ UNCHANGED vars
             PROVE  AnswerInv'
  OBVIOUS
<1>1. UNCHANGED modVars
  BY DEF RunThread, ConnectReturns, MarkOnline, StartCycle, ReadFails,
     ReadReturns, ItemValid, ItemInvalid, CheckDataChange, GoOffline,
     SetDataItemStatus, DisconnectReturns, TryToReconnect, Wake, Environment,
     DeviceStores, LinkBreaks, vars
<1>2. QED
  BY <1>1 DEF modVars, AnswerInv

\* An answer grows with the index of the call.
LEMMA ModbusKeepsAnswer == IndInv /\ AnswerInv /\ ModbusThread => AnswerInv'
<1> SUFFICES ASSUME IndInv, AnswerInv, ModbusThread PROVE AnswerInv'
  OBVIOUS
<1>1. /\ Readdata \in Seq(Value) /\ index \in Nat
      /\ modPc \in {"gate", "resource", "lock", "write"} => index = 1
      /\ modPc \in {"itemStatus", "fetch"} => request.op \in ReadOps
  BY IndInvImpliesIInv DEF IndInv, TypeOK, IInv, RequestInv
<1>2. ASSUME NEW r \in Requests, Call(r) PROVE AnswerInv'
  BY <1>2 DEF Call, AnswerInv
<1>3. CASE GateOnline
  BY <1>1, <1>3 DEF GateOnline, AnswerInv, Return
<1>4. CASE ReadSiemensStatus
  BY <1>1, <1>4 DEF ReadSiemensStatus, Deliver, Return, AnswerInv
<1>5. CASE GetStatus
  BY <1>1, <1>5 DEF GetStatus, Return, AnswerInv, modVars
<1>6. CASE Fetch
  BY <1>1, <1>6 DEF Fetch, Deliver, Return, AnswerInv
<1>7. CASE GateOffline \/ ResourceGate \/ LockForWrite \/ FillBuffer
           \/ RefuseFill \/ WriteReturns \/ WriteFails
  BY <1>7 DEF GateOffline, ResourceGate, LockForWrite, FillBuffer, RefuseFill,
     WriteReturns, WriteFails, Return, AnswerInv
<1>8. QED
  BY <1>2, <1>3, <1>4, <1>5, <1>6, <1>7 DEF ModbusThread

LEMMA ImageInductive == Spec => []ImageInv
<1>1. Init => AnswerInv
  BY DEF Init, AnswerInv
<1>2. IndInv /\ AnswerInv /\ [Next]_vars => AnswerInv'
  BY OthersKeepAnswer, ModbusKeepsAnswer DEF Next
<1>3. Init => ImageInv
  BY <1>1, InitIndInv DEF ImageInv
<1>4. ImageInv /\ [Next]_vars => ImageInv'
  BY <1>2, NextIndInv DEF ImageInv
<1>5. QED
  BY <1>3, <1>4, PTL DEF Spec

-----------------------------------------------------------------------------
(* Each step is a step of the image or leaves it alone.                    *)

\* The initial states map to initial states.
LEMMA ImageInit == Init => Image!Init
<1> SUFFICES ASSUME Init PROVE Image!Init
  OBVIOUS
<1>1. device \in [Items -> Value]
  BY InitType DEF TypeOK
<1>2. QED
  BY <1>1 DEF Init, Image!Init

\* The run thread polls, copies and changes the status.
LEMMA RunThreadImage ==
    IndInv /\ RunThread => Image!Next \/ UNCHANGED Image!vars
<1> SUFFICES ASSUME IndInv, RunThread
             PROVE  Image!Next \/ UNCHANGED Image!vars
  OBVIOUS
<1> USE DEF modVars, historyVars, deviceVars, sharedVars, itemVars,
            Image!vars, Image!plant, Image!call
<1>1. CASE ReadReturns
  <2>1. PICK ok \in SUBSET GroupItems(group) :
          polled' = [i \in Items |-> IF i \in ok THEN device[i] ELSE polled[i]]
    BY <1>1 DEF ReadReturns
  <2>2. ok \in SUBSET Items
    BY GroupType DEF IndInv, TypeOK
  <2>3. UNCHANGED <<device, localCopy, Status, modPc, request, Readdata,
                    result, applied>>
    BY <1>1 DEF ReadReturns
  <2>4. Image!Poll
    BY <2>1, <2>2, <2>3 DEF Image!Poll
  <2>5. QED
    BY <2>4 DEF Image!Next
<1>2. CASE CheckDataChange
  <2>1. /\ CurrentItem \in Items /\ CurrentItem \in okItems
        /\ runPc = "copy"
        /\ item \in DOMAIN ListOfDataItemGroups[group]
    BY <1>2, CurrentItemType
       DEF CheckDataChange, IndInv, TypeOK, Copies, CopyInv
  <2>2. item \in Nat
    BY DEF IndInv, TypeOK
  <2>3. Pending(CurrentItem)
    BY <2>1, <2>2 DEF Pending, CurrentItem
  <2>4. pdata[CurrentItem] = polled[CurrentItem]
    BY <2>1, <2>3 DEF IndInv, Copies, CopyInv
  <2>5. UNCHANGED <<device, polled, Status, modPc, request, Readdata, result,
                    applied>>
    BY <1>2 DEF CheckDataChange
  <2>6. \/ UNCHANGED localCopy
        \/ localCopy' = [localCopy EXCEPT ![CurrentItem] = polled[CurrentItem]]
    BY <1>2, <2>4 DEF CheckDataChange
  <2>7. CASE UNCHANGED localCopy
    BY <2>5, <2>7
  <2>8. CASE localCopy' = [localCopy EXCEPT ![CurrentItem] = polled[CurrentItem]]
    <3>1. Image!Publish
      BY <2>1, <2>5, <2>8 DEF Image!Publish
    <3>2. QED
      BY <3>1 DEF Image!Next
  <2>9. QED
    BY <2>6, <2>7, <2>8
<1>3. CASE MarkOnline \/ GoOffline \/ TryToReconnect
  <2>1. /\ Status' \in BOOLEAN
        /\ UNCHANGED <<device, polled, localCopy, modPc, request, Readdata,
                       result, applied>>
    BY <1>3 DEF MarkOnline, GoOffline, TryToReconnect, IndInv, TypeOK
  <2>2. Image!StatusChanges
    BY <2>1 DEF Image!StatusChanges
  <2>3. QED
    BY <2>2 DEF Image!Next
<1>4. CASE ConnectReturns \/ StartCycle \/ ReadFails \/ ItemValid \/ ItemInvalid
           \/ SetDataItemStatus \/ DisconnectReturns \/ Wake
  BY <1>4 DEF ConnectReturns, StartCycle, ReadFails, ItemValid, ItemInvalid,
     SetDataItemStatus, DisconnectReturns, Wake
<1>5. QED
  BY <1>1, <1>2, <1>3, <1>4 DEF RunThread

\* One more entry of the answer.
LEMMA DeliverImage ==
    ASSUME ImageInv, modPc \in {"itemStatus", "fetch"}, NEW entry, Deliver(entry),
           entry = IF Id = SIEMENS_STATUS THEN <<IF Status THEN 1 ELSE 0>>
                   ELSE GetData(localCopy[Id]),
           UNCHANGED <<device, polled, localCopy, Status, request, applied>>
    PROVE  Image!ReadNext
<1>1. /\ Readdata \in Seq(Value) /\ index \in Nat /\ index \in DOMAIN request.ids
      /\ Len(Readdata) = index - 1 /\ request.op \in ReadOps
      /\ modPc # "idle"
  BY IndInvImpliesIInv DEF ImageInv, IndInv, TypeOK, IInv, RequestInv, AnswerInv
<1>2. Len(Readdata) + 1 = index
  BY <1>1
<1>3. /\ Readdata' = Append(Readdata, entry)
      /\ modPc' # "idle" <=> index < Len(request.ids)
      /\ (modPc' # "idle" => UNCHANGED result)
      /\ (modPc' = "idle" => result' = "OK")
  BY DEF Deliver, Return
<1>4. GetData(localCopy[Id]) = Image!GetData(localCopy[Id])
  BY DEF GetData, Image!GetData, Reverse, Image!Reverse
<1>5. entry = IF request.ids[Len(Readdata) + 1] = SIEMENS_STATUS
              THEN <<IF Status THEN 1 ELSE 0>>
              ELSE Image!GetData(localCopy[request.ids[Len(Readdata) + 1]])
  BY <1>2, <1>4 DEF Id
<1>6. modPc # "idle" /\ IsReadRequest(request)
  BY <1>1 DEF IsReadRequest
<1>7. Readdata' = Append(Readdata,
                    IF request.ids[Len(Readdata) + 1] = SIEMENS_STATUS
                    THEN <<IF Status THEN 1 ELSE 0>>
                    ELSE Image!GetData(localCopy[request.ids[Len(Readdata) + 1]]))
  BY <1>3, <1>5
<1>8. UNCHANGED <<Image!plant, Status, request, applied>>
  BY DEF Image!plant
<1>9. Len(Readdata) + 1 \in DOMAIN request.ids
  BY <1>1, <1>2
<1>10. (modPc # "idle")' <=> Len(Readdata) + 1 < Len(request.ids)
  BY <1>2, <1>3
<1>11. /\ (modPc # "idle")' => UNCHANGED result
       /\ ~(modPc # "idle")' => result' = "OK"
  BY <1>3
<1>12. QED
  BY <1>6, <1>7, <1>8, <1>9, <1>10, <1>11 DEF Image!ReadNext

\* The end of a write in the client: the transfer buffers still hold what the
\* request asked for.
LEMMA WriteImage ==
    ASSUME IndInv, modPc = "write", NEW ok \in SUBSET RequestItems, Store(ok),
           modPc' = "idle", result' \in {"OK", "InvalidS7DataItem"},
           result' = "OK" => ok = RequestItems,
           UNCHANGED <<polled, localCopy, Status, request, Readdata>>
    PROVE  Image!Write
<1>1. /\ request.op \in WriteOps /\ WriteSendsPayload
      /\ \A i \in RequestItems : IsDataItemWritable(i)
  BY IndInvImpliesIInv
     DEF IndInv, Calls, IInv, RequestInv, FillInv, WritePcs
<1>2. \A m, n \in DOMAIN request.ids : request.ids[m] = request.ids[n] => m = n
  BY CurrentRequestType DEF IndInv
<1>3. ASSUME NEW i \in ok
      PROVE  Sent(i) = Payload(request, CHOOSE n \in DOMAIN request.ids :
                                          request.ids[n] = i)
  <2>1. PICK n \in DOMAIN request.ids : request.ids[n] = i
    BY DEF RequestItems
  <2>2. n = CHOOSE k \in DOMAIN request.ids : request.ids[k] = i
    BY <1>2, <2>1
  <2>3. QED
    BY <1>1, <2>1, <2>2 DEF WriteSendsPayload
<1>4. device' = [i \in Items |->
                   IF i \in ok
                   THEN Payload(request, CHOOSE n \in DOMAIN request.ids :
                                           request.ids[n] = i)
                   ELSE device[i]]
  BY <1>3 DEF Store
<1>5. ~IsReadRequest(request)
  BY <1>1 DEF IsReadRequest, ReadOps, WriteOps
<1>6. applied' = ok /\ RequestItems = Image!Asked
  BY DEF Store, RequestItems, Image!Asked
<1>7. QED
  BY <1>1, <1>4, <1>5, <1>6 DEF Image!Write

\* A call that ends with an error before it reached the client.
LEMMA RefuseImage ==
    ASSUME modPc # "idle", modPc' = "idle",
           result' \in {"InvalidSize", "DeviceIsOffLine", "InvalidS7DataItem"},
           UNCHANGED <<device, polled, localCopy, Status, request, Readdata,
                       applied>>
    PROVE  Image!Refuse
BY DEF Image!Refuse, Image!plant

\* The calls of the Modbus thread are the calls of the image.
LEMMA ModbusThreadImage ==
    ImageInv /\ ModbusThread => Image!Next \/ UNCHANGED Image!vars
<1> SUFFICES ASSUME ImageInv, ModbusThread
             PROVE  Image!Next \/ UNCHANGED Image!vars
  OBVIOUS
<1> USE DEF modVars, historyVars, deviceVars, sharedVars, itemVars
<1>1. ASSUME NEW r \in Requests, Call(r) PROVE Image!Start
  <2>1. /\ modPc = "idle" /\ request' \in Requests /\ Readdata' = <<>>
        /\ applied' = {}
        /\ UNCHANGED <<device, polled, localCopy, Status>>
        /\ \/ modPc' # "idle" /\ result' = "OK"
           \/ modPc' = "idle" /\ result' = "InvalidSize"
    BY <1>1 DEF Call
  <2>2. QED
    BY <2>1 DEF Image!Start, Image!plant
<1>2. CASE GateOffline \/ RefuseFill
  BY <1>2, RefuseImage DEF GateOffline, RefuseFill, Return, Image!Next
<1>3. CASE GateOnline
  <2>1. CASE modPc' = "idle"
    BY <1>3, <2>1, RefuseImage DEF GateOnline, Return, Image!Next
  <2>2. CASE modPc' # "idle"
    BY <1>3, <2>2
       DEF GateOnline, Return, Image!vars, Image!plant, Image!call
  <2>3. QED
    BY <2>1, <2>2
<1>4. CASE ReadSiemensStatus
  BY <1>4, DeliverImage DEF ReadSiemensStatus, Image!Next
<1>5. CASE GetStatus
  <2>1. CASE modPc' = "idle"
    BY <1>5, <2>1, RefuseImage DEF GetStatus, Return, Image!Next
  <2>2. CASE modPc' # "idle"
    BY <1>5, <2>2 DEF GetStatus, Return, Image!vars, Image!plant, Image!call
  <2>3. QED
    BY <2>1, <2>2
<1>6. CASE Fetch
  <2>1. modPc = "fetch" /\ Id # SIEMENS_STATUS
    BY <1>6, IndInvImpliesIInv DEF Fetch, ImageInv, IInv, RequestInv
  <2>2. QED
    BY <1>6, <2>1, DeliverImage DEF Fetch, Image!Next
<1>7. CASE ResourceGate
  <2>1. CASE modPc' # "idle"
    BY <1>7, <2>1
       DEF ResourceGate, Return, Image!vars, Image!plant, Image!call
  <2>2. CASE modPc' = "idle" /\ result' # "OK"
    BY <1>7, <2>2, RefuseImage DEF ResourceGate, Return, Image!Next
  <2>3. CASE modPc' = "idle" /\ result' = "OK"
    <3>1. request.ids = <<>> /\ modPc = "resource"
      BY <1>7, <2>3 DEF ResourceGate, Return
    <3>2. Image!Asked = {}
      BY <3>1 DEF Image!Asked
    <3>3. applied = {} /\ request.op \in WriteOps
      BY <3>1, IndInvImpliesIInv
         DEF ImageInv, IInv, RequestInv, WritePcs
    <3>4. ~IsReadRequest(request)
      BY <3>3 DEF IsReadRequest, ReadOps, WriteOps
    <3>5. device = [i \in Items |-> device[i]]
      BY DEF ImageInv, IndInv, TypeOK
    <3>6. UNCHANGED <<device, polled, localCopy, Status, request, Readdata,
                      applied>>
      BY <1>7 DEF ResourceGate
    <3>7. Image!Write
      BY <2>3, <3>1, <3>2, <3>3, <3>4, <3>5, <3>6 DEF Image!Write
    <3>8. QED
      BY <3>7 DEF Image!Next
  <2>4. QED
    BY <2>1, <2>2, <2>3
<1>8. CASE LockForWrite \/ FillBuffer
  BY <1>8 DEF LockForWrite, FillBuffer, Image!vars, Image!plant, Image!call
<1>9. CASE WriteReturns
  <2>1. PICK ok \in SUBSET RequestItems :
          /\ Store(ok)
          /\ Return(IF ok = RequestItems THEN "OK" ELSE "InvalidS7DataItem")
    BY <1>9 DEF WriteReturns
  <2>2. modPc = "write" /\ UNCHANGED <<polled, localCopy, Status, request, Readdata>>
    BY <1>9 DEF WriteReturns
  <2>3. Image!Write
    BY <2>1, <2>2, WriteImage DEF Return, ImageInv
  <2>4. QED
    BY <2>3 DEF Image!Next
<1>10. CASE WriteFails
  <2>1. PICK ok \in IF connected THEN SUBSET RequestItems ELSE {{}} : Store(ok)
    BY <1>10 DEF WriteFails
  <2>2. ok \in SUBSET RequestItems
    BY <2>1
  <2>3. request.ids = <<>> => RequestItems = {}
    BY DEF RequestItems
  <2>4. /\ modPc = "write" /\ modPc' = "idle"
        /\ UNCHANGED <<polled, localCopy, Status, request, Readdata>>
        /\ result' = IF request.ids = <<>> THEN "OK" ELSE "InvalidS7DataItem"
    BY <1>10 DEF WriteFails, Return
  <2>5. Image!Write
    BY <2>1, <2>2, <2>3, <2>4, WriteImage DEF ImageInv
  <2>6. QED
    BY <2>5 DEF Image!Next
<1>11. QED
  BY <1>1, <1>2, <1>3, <1>4, <1>5, <1>6, <1>7, <1>8, <1>9, <1>10
     DEF ModbusThread, Image!Next

\* The controller's program changes its memory.
LEMMA EnvironmentImage ==
    IndInv /\ (Environment \/ UNCHANGED vars)
      => Image!Next \/ UNCHANGED Image!vars
<1> SUFFICES ASSUME IndInv, Environment \/ UNCHANGED vars
             PROVE  Image!Next \/ UNCHANGED Image!vars
  OBVIOUS
<1> USE DEF modVars, historyVars, deviceVars, sharedVars, itemVars
<1>1. CASE DeviceStores
  <2>1. PICK i \in Items :
          \E v \in DeviceValues[i] : device' = [device EXCEPT ![i] = v]
    BY <1>1 DEF DeviceStores
  <2> PICK v \in DeviceValues[i] : device' = [device EXCEPT ![i] = v]
    BY <2>1
  <2>2. device \in [Items -> Value] /\ v \in Value
    BY DeviceAssumption DEF IndInv, TypeOK
  <2>3. device'[i] = v
    BY <2>2
  <2>4. UNCHANGED <<polled, localCopy, Status, modPc, request, Readdata, result,
                    applied>>
    BY <1>1 DEF DeviceStores
  <2>5. Image!ControllerStores
    BY <2>1, <2>2, <2>3, <2>4 DEF Image!ControllerStores, Image!call
  <2>6. QED
    BY <2>5 DEF Image!Next
<1>2. CASE LinkBreaks \/ UNCHANGED vars
  BY <1>2 DEF LinkBreaks, vars, Image!vars, Image!plant, Image!call
<1>3. QED
  BY <1>1, <1>2 DEF Environment

\* The client of PLC.cpp is a process image: whatever the two threads, the
\* controller and the link do, the Modbus server sees reads answered entry by
\* entry from the last published values and writes that store the request's own
\* values in one moment.
THEOREM ClientIsProcessImage == Spec => ImplementsProcessImage
<1>1. ImageInv /\ [Next]_vars => [Image!Next]_(Image!vars)
  BY RunThreadImage, ModbusThreadImage, EnvironmentImage DEF Next, ImageInv
<1>2. QED
  BY ImageInit, ImageInductive, <1>1, PTL
     DEF Spec, ImplementsProcessImage, Image!Spec

=============================================================================
