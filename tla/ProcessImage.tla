---------------------------- MODULE ProcessImage ----------------------------
(***************************************************************************)
(* What the Modbus server may rely on when it calls the Siemens client     *)
(* (PLC.h): an image of the controller's memory, one call at a time, no    *)
(* threads, mutexes, transfer buffers or connections.  SiemensPLC shows    *)
(* that PLC.cpp implements it.                                             *)
(***************************************************************************)
EXTENDS DataItems

CONSTANTS
    Items,           \* resource ids
    Values,          \* what an item can hold
    InitialCopy,     \* an item's copy before the controller delivered it
    StatusItem,      \* the pseudo item that reads as the connection's status
    Requests,        \* the calls of the Modbus server
    NoRequest,
    IsRead(_),       \* the request reads
    Payload(_, _),   \* what the n-th item of a write receives
    IsWritable(_)

VARIABLES
    memory,     \* the controller's memory
    delivered,  \* what the last successful poll of an item returned
    copy,       \* what reads are answered from
    online,     \* the connection's status
    busy,       \* a call is in progress
    request,    \* it, or the last one
    answer,     \* the entries read so far
    code,       \* the result of the last call
    stored      \* the items it stored in the controller

plant == <<memory, delivered, copy>>
call  == <<busy, request, answer, code, stored>>
vars  == <<plant, online, call>>

Asked == {request.ids[n] : n \in DOMAIN request.ids}

Init ==
    /\ memory \in [Items -> Values]
    /\ delivered = [i \in Items |-> <<>>]
    /\ copy = InitialCopy
    /\ online = FALSE
    /\ ~busy /\ request = NoRequest /\ answer = <<>> /\ code = "OK"
    /\ stored = {}

-----------------------------------------------------------------------------
(* The plant: the controller's program, the poll, the connection.          *)

ControllerStores ==
    /\ \E i \in Items :
         /\ memory'[i] \in Values
         /\ memory' = [memory EXCEPT ![i] = memory'[i]]
    /\ UNCHANGED <<delivered, copy, online, call>>

\* A poll sees a set of items at one moment.
Poll ==
    /\ \E S \in SUBSET Items :
         delivered' = [i \in Items |-> IF i \in S THEN memory[i] ELSE delivered[i]]
    /\ UNCHANGED <<memory, copy, online, call>>

\* An item's copy takes what the last poll delivered, and nothing else.
Publish ==
    /\ \E i \in Items : copy' = [copy EXCEPT ![i] = delivered[i]]
    /\ UNCHANGED <<memory, delivered, online, call>>

StatusChanges ==
    /\ online' \in BOOLEAN
    /\ UNCHANGED <<plant, call>>

-----------------------------------------------------------------------------
(* The calls.                                                              *)

\* A call starts; one whose sizes disagree is refused at once.
Start ==
    /\ ~busy
    /\ request' \in Requests
    /\ answer' = <<>>
    /\ stored' = {}
    /\ \/ busy' /\ code' = "OK"
       \/ ~busy' /\ code' = "InvalidSize"
    /\ UNCHANGED <<plant, online>>

\* The next item of a read: the bytes of its copy in Modbus order, or the
\* status.  The answer is complete with one entry for each id.
ReadNext ==
    /\ busy /\ IsRead(request)
    /\ LET n == Len(answer) + 1
       IN  /\ n \in DOMAIN request.ids
           /\ answer' = Append(answer,
                IF request.ids[n] = StatusItem
                THEN <<IF online THEN 1 ELSE 0>>
                ELSE GetData(copy[request.ids[n]]))
           /\ busy' <=> n < Len(request.ids)
           /\ busy' => UNCHANGED code
           /\ ~busy' => code' = "OK"
    /\ UNCHANGED <<plant, online, request, stored>>

\* A call ends with an error, having stored nothing.
Refuse ==
    /\ busy
    /\ ~busy'
    /\ code' \in {"InvalidSize", "DeviceIsOffLine", "InvalidS7DataItem"}
    /\ UNCHANGED <<plant, online, request, answer, stored>>

\* A write ends: a set of its items received the request's values together, and
\* nothing else in the controller changed.  "OK" means all of them; one item
\* without write access, none of them.
Write ==
    /\ busy /\ ~IsRead(request)
    /\ ~busy'
    /\ \E S \in SUBSET Asked :
         /\ S # {} => \A i \in Asked : IsWritable(i)
         /\ memory' = [i \in Items |->
                         IF i \in S
                         THEN Payload(request, CHOOSE n \in DOMAIN request.ids :
                                                  request.ids[n] = i)
                         ELSE memory[i]]
         /\ stored' = S
         /\ code' \in {"OK", "InvalidS7DataItem"}
         /\ code' = "OK" => S = Asked
    /\ UNCHANGED <<delivered, copy, online, request, answer>>

Next ==
    \/ ControllerStores \/ Poll \/ Publish \/ StatusChanges
    \/ Start \/ ReadNext \/ Refuse \/ Write

Spec == Init /\ [][Next]_vars

=============================================================================
