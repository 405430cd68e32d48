--------------------------- MODULE ListenerProofs ---------------------------
(***************************************************************************)
(* Proofs about Listener, for every number of clients and descriptors.     *)
(***************************************************************************)
EXTENDS Listener, TLAPS

USE DEF NoFd, Fds, Free, Listeners, LowestFree

\* Initially every variable has its type.
LEMMA TypeInit == Init => TypeOK
<1> SUFFICES ASSUME Init PROVE TypeOK
  OBVIOUS
<1>1. 1 \in Fds
  BY ListenerAssumption
<1>2. plc_socket \in Fds \cup {NoFd}
  BY <1>1 DEF Init
<1>3. descriptors \in [Fds -> {"free", "listener", "plc"} \cup Clients]
  BY DEF Init
<1>4. pc \in {"listen", "select", "scan"} /\ (pc = "scan" <=> rdset # {})
  BY DEF Init
<1> QED
  BY <1>2, <1>3, <1>4 DEF Init, TypeOK

\* Closing any number keeps the types of what it changes.
LEMMA CloseType ==
    ASSUME TypeOK, NEW f, Close(f)
    PROVE  /\ descriptors' \in [Fds -> {"free", "listener", "plc"} \cup Clients]
           /\ backlog' \subseteq Clients
           /\ client' \in [Clients -> {"away", "up", "gone"}]
BY DEF TypeOK, Close

\* Every step keeps the types.
LEMMA TypeNext == TypeOK /\ [Next]_vars => TypeOK'
<1> SUFFICES ASSUME TypeOK, [Next]_vars PROVE TypeOK'
  OBVIOUS
<1>1. ASSUME NEW f \in Free, ListenSucceeds(f) PROVE TypeOK'
  BY <1>1 DEF TypeOK, ListenSucceeds
<1>2. CASE ListenFails
  BY <1>2 DEF TypeOK, ListenFails, kernelVars
<1>3. CASE SelectFails \/ SelectTimesOut
  <2>1. Terminate /\ pc = "select"
    BY <1>3 DEF SelectFails, SelectTimesOut
  <2>2. Close(server_socket)
    BY <2>1 DEF Terminate
  <2> QED
    BY <2>1, <2>2, CloseType DEF TypeOK, Terminate
<1>4. CASE SelectReturns
  BY <1>4 DEF TypeOK, SelectReturns, kernelVars
<1>5. ASSUME NEW f \in rdset, NEW c \in Clients, NEW new \in Free,
             Accept(f, c, new)
      PROVE  TypeOK'
  BY <1>5 DEF TypeOK, Accept, Scanned
<1>6. ASSUME NEW f \in rdset, AcceptFails(f) PROVE TypeOK'
  <2>1. UNCHANGED kernelVars \/ \E c \in backlog : Lost(c)
    BY <1>6 DEF AcceptFails
  <2>2. /\ descriptors' = descriptors
        /\ backlog' \subseteq Clients /\ query' \subseteq Clients
        /\ client' \in [Clients -> {"away", "up", "gone"}]
    BY <2>1 DEF TypeOK, Lost, kernelVars
  <2> QED
    BY <1>6, <2>2 DEF TypeOK, AcceptFails, Scanned
<1>7. ASSUME NEW f \in rdset, Serve(f) PROVE TypeOK'
  BY <1>7 DEF TypeOK, Serve, Scanned
<1>8. ASSUME NEW f \in rdset, ReceiveFails(f) PROVE TypeOK'
  <2>1. Close(server_socket) /\ Scanned(f)
    BY <1>8 DEF ReceiveFails
  <2> QED
    BY <1>8, <2>1, CloseType DEF TypeOK, ReceiveFails, Scanned
<1>9. ASSUME NEW c \in Clients, Connect(c) \/ Ask(c) \/ Leave(c) PROVE TypeOK'
  BY <1>9 DEF TypeOK, Connect, Ask, Leave, runVars
<1>10. CASE LinkCloses
  <2>1. Close(plc_socket)
    BY <1>10 DEF LinkCloses
  <2> QED
    BY <1>10, <2>1, CloseType DEF TypeOK, LinkCloses, runVars
<1>11. ASSUME NEW f \in Free, LinkOpens(f) PROVE TypeOK'
  BY <1>11 DEF TypeOK, LinkOpens, runVars
<1>12. CASE UNCHANGED vars
  BY <1>12 DEF TypeOK, vars, kernelVars, runVars
<1> QED
  BY <1>1, <1>2, <1>3, <1>4, <1>5, <1>6, <1>7, <1>8, <1>9, <1>10, <1>11, <1>12
     DEF Next, Run

\* Descriptors refer to one thing each, and Run scans what it has selected,
\* whatever clients and link do.
THEOREM TypeCorrect == Spec => []TypeOK
<1>1. QED
  BY TypeInit, TypeNext, PTL DEF Spec

-----------------------------------------------------------------------------
(* Which numbers the two threads take for their own.                       *)

\* A client is none of the other things a descriptor can refer to.
LEMMA ClientsAreOther == Clients \cap {"free", "listener", "plc"} = {}
BY ListenerAssumption

LEMMA NumbersInit == Init => NumbersAgree
<1> SUFFICES ASSUME Init PROVE NumbersAgree
  OBVIOUS
<1>1. server_socket \notin Fds
  BY DEF Init
<1>2. \A f \in Fds : descriptors[f] = "plc" <=> f = plc_socket
  <2>1. NoFd \notin Fds
    OBVIOUS
  <2>2. CASE /\ plc_socket = 1
             /\ descriptors = [f \in Fds |-> IF f = 1 THEN "plc" ELSE "free"]
    BY <2>2
  <2>3. CASE plc_socket = NoFd /\ descriptors = [f \in Fds |-> "free"]
    <3>1. \A f \in Fds : f # plc_socket
      BY <2>1, <2>3
    <3>2. \A f \in Fds : descriptors[f] = "free"
      BY <2>3
    <3> QED
      BY <3>1, <3>2
  <2> QED
    BY <2>2, <2>3 DEF Init
<1>3. ~Stale
  BY <1>2 DEF Stale
<1> QED
  BY <1>1, <1>2, <1>3 DEF NumbersAgree

\* Run may close what it takes for its listening socket, whatever it is.  If it
\* is the socket of the Siemens side, snap7 is left with a stale number, and
\* the lower ones are clients' by the last conjunct on server_socket.
LEMMA CloseServer ==
    ASSUME TypeOK, NumbersAgree, Close(server_socket), UNCHANGED plc_socket,
           server_socket' = server_socket
    PROVE  NumbersAgree'
<1>1. \A f \in Fds :
        descriptors'[f] = IF f = server_socket THEN "free" ELSE descriptors[f]
  BY DEF Close
<1>2. Listeners' \subseteq Listeners /\ server_socket \notin Listeners'
  BY <1>1
<1>3. (\A f \in Fds : descriptors[f] = "plc" => f = plc_socket)'
  BY <1>1 DEF NumbersAgree
<1>4. (server_socket \in Fds =>
         /\ Listeners \subseteq {server_socket}
         /\ descriptors[server_socket] \notin Clients
         /\ descriptors[server_socket] = "plc" =>
              \A g \in Fds : g < server_socket => descriptors[g] \in Clients)'
  BY <1>1, <1>2, ClientsAreOther DEF NumbersAgree
<1>5. ASSUME Stale'
      PROVE  (/\ Listeners \subseteq {plc_socket}
              /\ descriptors[plc_socket] \notin Clients
              /\ \A g \in Fds : g < plc_socket => descriptors[g] \in Clients)'
  <2>1. CASE Stale
    <3>1. server_socket \in Fds => descriptors[server_socket] \notin Clients
      BY DEF NumbersAgree
    <3> QED
      BY <1>1, <1>2, <2>1, <3>1, ClientsAreOther DEF NumbersAgree, Stale
  <2>2. CASE ~Stale
    <3>1. plc_socket \in Fds /\ plc_socket = server_socket
      BY <1>1, <1>5, <2>2 DEF Stale
    <3>2. descriptors[server_socket] = "plc"
      BY <2>2, <3>1 DEF Stale
    <3>3. \A g \in Fds : g < server_socket => descriptors[g] \in Clients
      BY <3>1, <3>2 DEF NumbersAgree
    <3>4. Listeners = {}
      BY <3>1, <3>2 DEF NumbersAgree
    <3>5. \A g \in Fds : g < server_socket => g # server_socket
      BY <3>1
    <3> QED
      BY <1>1, <1>2, <3>1, <3>3, <3>4, <3>5, ClientsAreOther
  <2> QED
    BY <2>1, <2>2
<1> QED
  BY <1>3, <1>4, <1>5 DEF NumbersAgree

\* Only the listening socket can get a number that snap7 has kept after its end:
\* it is the lowest free one.
LEMMA ListenNumbers ==
    ASSUME TypeOK, NumbersAgree, NEW f \in Free, ListenSucceeds(f)
    PROVE  NumbersAgree'
<1>1. \A g \in Fds :
        descriptors'[g] = IF g = f THEN "listener" ELSE descriptors[g]
  BY DEF ListenSucceeds, TypeOK
<1>2. Listeners = {} /\ Listeners' = {f} /\ server_socket' = f
  BY <1>1 DEF ListenSucceeds
<1>3. UNCHANGED plc_socket
  BY DEF ListenSucceeds
<1>4. (\A g \in Fds : descriptors[g] = "plc" => g = plc_socket)'
  BY <1>1, <1>3 DEF NumbersAgree
<1>5. ASSUME Stale'
      PROVE  (/\ Listeners \subseteq {plc_socket}
              /\ descriptors[plc_socket] \notin Clients
              /\ \A g \in Fds : g < plc_socket => descriptors[g] \in Clients)'
  <2>1. Stale
    BY <1>1, <1>3, <1>5 DEF Stale
  <2>2. \A g \in Fds : g < plc_socket => descriptors[g] \in Clients
    BY <2>1 DEF NumbersAgree
  <2>3. descriptors[plc_socket] = "free"
    BY <1>2, <2>1 DEF TypeOK, NumbersAgree, Stale
  <2>4. f <= plc_socket /\ ~(f < plc_socket)
    <3>1. plc_socket \in Free
      BY <2>1, <2>3 DEF Stale
    <3>2. f <= plc_socket
      BY <3>1 DEF ListenSucceeds
    <3>3. descriptors[f] \notin Clients
      BY ClientsAreOther
    <3> QED
      BY <2>2, <3>2, <3>3
  <2>5. f = plc_socket
    BY <2>1, <2>4 DEF Stale
  <2>6. \A g \in Fds : g < plc_socket => g # f
    BY <2>5
  <2> QED
    BY <1>1, <1>2, <1>3, <2>2, <2>5, <2>6, ClientsAreOther
<1> QED
  BY <1>1, <1>2, <1>4, <1>5, ClientsAreOther DEF NumbersAgree

\* A client never gets it: it is accepted while the number is the listening
\* socket's.
LEMMA AcceptNumbers ==
    ASSUME TypeOK, NumbersAgree, NEW f \in rdset, NEW c \in Clients,
           NEW new \in Free, Accept(f, c, new)
    PROVE  NumbersAgree'
<1>1. \A g \in Fds : descriptors'[g] = IF g = new THEN c ELSE descriptors[g]
  BY DEF Accept, TypeOK
<1>2. server_socket \in Listeners /\ new # server_socket
  BY DEF Accept
<1>3. UNCHANGED <<server_socket, plc_socket>>
  BY DEF Accept
<1>4. Listeners' = Listeners
  BY <1>1, ClientsAreOther
<1>5. (\A g \in Fds : descriptors[g] = "plc" => g = plc_socket)'
  BY <1>1, <1>3, ClientsAreOther DEF NumbersAgree
<1>6. ASSUME Stale'
      PROVE  (/\ Listeners \subseteq {plc_socket}
              /\ descriptors[plc_socket] \notin Clients
              /\ \A g \in Fds : g < plc_socket => descriptors[g] \in Clients)'
  <2>1. plc_socket \in Fds => descriptors[plc_socket] # "plc" \/ plc_socket # new
    OBVIOUS
  <2>2. Stale
    BY <1>1, <1>3, <1>6 DEF Stale
  <2>3. server_socket = plc_socket
    BY <1>2, <2>2 DEF NumbersAgree
  <2> QED
    BY <1>1, <1>2, <1>3, <1>4, <2>2, <2>3 DEF NumbersAgree
<1> QED
  BY <1>1, <1>2, <1>3, <1>4, <1>5, <1>6, ClientsAreOther DEF NumbersAgree

\* snap7 may get the number of the closed listening socket.  Then it is the
\* lowest free one, and the ones below it are neither a listening socket's,
\* of which there is none, nor snap7's own.
LEMMA LinkOpensNumbers ==
    ASSUME TypeOK, NumbersAgree, NEW f \in Free, LinkOpens(f)
    PROVE  NumbersAgree'
<1>1. \A g \in Fds : descriptors'[g] = IF g = f THEN "plc" ELSE descriptors[g]
  BY DEF LinkOpens, TypeOK
<1>2. plc_socket = NoFd /\ plc_socket' = f
  BY DEF LinkOpens
<1>3. UNCHANGED server_socket
  BY DEF LinkOpens, runVars
<1>4. \A g \in Fds : descriptors[g] # "plc"
  BY <1>2 DEF NumbersAgree
<1>5. Listeners' = Listeners
  BY <1>1
<1>6. ~Stale'
  BY <1>1, <1>2 DEF Stale
<1>7. ASSUME server_socket \in Fds, descriptors'[server_socket] = "plc",
             NEW g \in Fds, g < server_socket
      PROVE  descriptors'[g] \in Clients
  <2>1. server_socket = f
    BY <1>1, <1>4, <1>7
  <2>2. Listeners = {}
    BY <1>7, <2>1 DEF NumbersAgree
  <2>3. g \notin Free
    BY <1>7, <2>1 DEF LinkOpens
  <2>4. descriptors[g] \in Clients
    BY <1>4, <2>2, <2>3 DEF TypeOK
  <2> QED
    BY <1>1, <1>7, <2>1, <2>4
<1>8. (\A g \in Fds : descriptors[g] = "plc" => g = plc_socket)'
  BY <1>1, <1>2, <1>4
<1> QED
  BY <1>1, <1>3, <1>5, <1>6, <1>7, <1>8, ClientsAreOther DEF NumbersAgree

\* What snap7 closes is its own, the listening socket, or nothing.
LEMMA LinkClosesNumbers ==
    ASSUME TypeOK, NumbersAgree, LinkCloses
    PROVE  NumbersAgree'
<1>1. \A f \in Fds :
        descriptors'[f] = IF f = plc_socket THEN "free" ELSE descriptors[f]
  BY DEF LinkCloses, Close
<1>2. plc_socket' = NoFd /\ plc_socket \in Fds /\ UNCHANGED server_socket
  BY DEF LinkCloses, TypeOK, runVars
<1>3. Listeners' \subseteq Listeners
  BY <1>1
<1>4. \A f \in Fds : descriptors'[f] # "plc"
  BY <1>1 DEF NumbersAgree
<1>5. ~Stale'
  BY <1>2 DEF Stale
<1> QED
  BY <1>1, <1>2, <1>3, <1>4, <1>5, ClientsAreOther DEF NumbersAgree

\* Every step keeps the numbers apart.
LEMMA NumbersNext == TypeOK /\ NumbersAgree /\ [Next]_vars => NumbersAgree'
<1> SUFFICES ASSUME TypeOK, NumbersAgree, [Next]_vars PROVE NumbersAgree'
  OBVIOUS
<1>1. ASSUME UNCHANGED <<descriptors, plc_socket>>,
             server_socket' \in {server_socket, NoFd}
      PROVE  NumbersAgree'
  BY <1>1 DEF NumbersAgree, Stale
<1>2. CASE ListenFails
  BY <1>1, <1>2 DEF ListenFails, kernelVars
<1>3. CASE SelectFails \/ SelectTimesOut
  <2>1. Terminate
    BY <1>3 DEF SelectFails, SelectTimesOut
  <2> QED
    BY <2>1, CloseServer DEF Terminate
<1>4. CASE SelectReturns
  BY <1>1, <1>4 DEF SelectReturns, kernelVars
<1>5. ASSUME NEW f \in rdset, AcceptFails(f) PROVE NumbersAgree'
  BY <1>1, <1>5 DEF AcceptFails, Lost, kernelVars
<1>6. ASSUME NEW f \in rdset, Serve(f) PROVE NumbersAgree'
  BY <1>1, <1>6 DEF Serve
<1>7. ASSUME NEW f \in rdset, ReceiveFails(f) PROVE NumbersAgree'
  BY <1>7, CloseServer DEF ReceiveFails
<1>8. ASSUME NEW c \in Clients, Connect(c) \/ Ask(c) \/ Leave(c)
      PROVE  NumbersAgree'
  BY <1>1, <1>8 DEF Connect, Ask, Leave, runVars
<1>9. CASE UNCHANGED vars
  BY <1>1, <1>9 DEF vars, kernelVars, runVars
<1> QED
  BY <1>2, <1>3, <1>4, <1>5, <1>6, <1>7, <1>8, <1>9, ListenNumbers,
     AcceptNumbers, LinkOpensNumbers, LinkClosesNumbers DEF Next, Run

\* Neither thread ever closes a client's connection for its own socket, although
\* both close numbers that the other may have reused.
THEOREM ClientsKeepDescriptors == Spec => []NumbersAgree
<1>1. QED
  BY TypeInit, TypeNext, NumbersInit, NumbersNext, PTL DEF Spec

-----------------------------------------------------------------------------
(* The status for the LED.                                                 *)

\* Run returns with the status cleared.
LEMMA StatusCleared ==
    ASSUME TypeOK, Terminate
    PROVE  StatusInv'
BY DEF Terminate, StatusInv, TypeOK

\* It holds no client when it begins to listen.
LEMMA StatusListen ==
    ASSUME TypeOK, StatusInv, NEW f \in Free, ListenSucceeds(f)
    PROVE  StatusInv'
<1>1. descriptors'[f] = "listener" /\ refset' = {f}
  BY DEF ListenSucceeds, TypeOK
<1>2. \A c \in Clients : ~Held(c)'
  BY <1>1, ClientsAreOther DEF Held
<1>3. ~IsConnected /\ UNCHANGED IsConnected /\ pc' = "select"
  BY DEF StatusInv, ListenSucceeds
<1> QED
  BY <1>2, <1>3 DEF StatusInv

\* It holds the one it accepts.
LEMMA StatusAccept ==
    ASSUME TypeOK, StatusInv, NEW f \in rdset, NEW c \in Clients,
           NEW new \in Free, Accept(f, c, new)
    PROVE  StatusInv'
<1>1. descriptors'[new] = c /\ new \in refset'
  BY DEF Accept, TypeOK
<1>2. Held(c)'
  BY <1>1 DEF Held
<1>3. IsConnected' /\ pc' # "listen"
  BY DEF Accept, Scanned
<1> QED
  BY <1>2, <1>3 DEF StatusInv

\* It clears the status when it closes its listening socket.
LEMMA StatusReceive ==
    ASSUME TypeOK, NEW f \in rdset, ReceiveFails(f)
    PROVE  StatusInv'
<1>1. server_socket \in Fds => descriptors'[server_socket] = "free"
  BY DEF ReceiveFails, Close
<1>2. ~Listening' /\ ~IsConnected'
  BY <1>1 DEF Listening, ReceiveFails
<1> QED
  BY <1>2 DEF StatusInv

\* snap7 closes no client's descriptor.
LEMMA StatusLinkCloses ==
    ASSUME TypeOK, NumbersAgree, StatusInv, LinkCloses
    PROVE  StatusInv'
<1>1. \A f \in Fds :
        descriptors'[f] = IF f = plc_socket THEN "free" ELSE descriptors[f]
  BY DEF LinkCloses, Close
<1>2. UNCHANGED <<server_socket, refset, pc, IsConnected>> /\ refset \subseteq Fds
  BY DEF LinkCloses, runVars, TypeOK
<1>3. plc_socket \in Fds /\ descriptors[plc_socket] \notin Clients
  BY ClientsAreOther DEF LinkCloses, TypeOK, NumbersAgree, Stale
<1>4. \A c \in Clients : Held(c)' <=> Held(c)
  BY <1>1, <1>2, <1>3, ClientsAreOther DEF Held
<1>5. Listening' => Listening
  BY <1>1, <1>2 DEF Listening
<1> QED
  BY <1>2, <1>4, <1>5 DEF StatusInv

\* Nor does it become one.
LEMMA StatusLinkOpens ==
    ASSUME TypeOK, StatusInv, NEW f \in Free, LinkOpens(f)
    PROVE  StatusInv'
<1>1. \A g \in Fds : descriptors'[g] = IF g = f THEN "plc" ELSE descriptors[g]
  BY DEF LinkOpens, TypeOK
<1>2. UNCHANGED <<server_socket, refset, pc, IsConnected>> /\ refset \subseteq Fds
  BY DEF LinkOpens, runVars, TypeOK
<1>3. \A c \in Clients : Held(c)' <=> Held(c)
  BY <1>1, <1>2, ClientsAreOther DEF Held
<1>4. Listening' => Listening
  BY <1>1, <1>2 DEF Listening
<1> QED
  BY <1>2, <1>3, <1>4 DEF StatusInv

\* Every step keeps the status true.
LEMMA StatusNext ==
    TypeOK /\ NumbersAgree /\ StatusInv /\ [Next]_vars => StatusInv'
<1> SUFFICES ASSUME TypeOK, NumbersAgree, StatusInv, [Next]_vars
             PROVE  StatusInv'
  OBVIOUS
<1>1. ASSUME UNCHANGED <<descriptors, server_socket, refset, IsConnected>>,
             pc' = "listen" => pc = "listen", pc = "listen" => pc' = "listen"
      PROVE  StatusInv'
  <2>1. (Listening' <=> Listening) /\ \A c \in Clients : Held(c)' <=> Held(c)
    BY <1>1 DEF Listening, Held
  <2> QED
    BY <1>1, <2>1 DEF StatusInv
<1>2. CASE ListenFails
  <2>1. ~IsConnected /\ UNCHANGED IsConnected /\ server_socket' \notin Fds
    BY <1>2 DEF ListenFails, StatusInv
  <2>2. ~Listening'
    BY <2>1 DEF Listening
  <2> QED
    BY <1>2, <2>1, <2>2 DEF ListenFails, StatusInv
<1>3. CASE SelectFails \/ SelectTimesOut
  BY <1>3, StatusCleared DEF SelectFails, SelectTimesOut
<1>4. CASE SelectReturns
  BY <1>1, <1>4 DEF SelectReturns, kernelVars
<1>5. ASSUME NEW f \in rdset, AcceptFails(f) PROVE StatusInv'
  <2>1. server_socket' \notin Fds /\ pc' # "listen"
    BY <1>5 DEF AcceptFails, Scanned
  <2>2. ~Listening'
    BY <2>1 DEF Listening
  <2> QED
    BY <2>1, <2>2 DEF StatusInv
<1>6. ASSUME NEW f \in rdset, Serve(f) PROVE StatusInv'
  BY <1>1, <1>6 DEF Serve, Scanned
<1>7. ASSUME NEW c \in Clients, Connect(c) \/ Ask(c) \/ Leave(c)
      PROVE  StatusInv'
  BY <1>1, <1>7 DEF Connect, Ask, Leave, runVars
<1>8. CASE UNCHANGED vars
  BY <1>1, <1>8 DEF vars, kernelVars, runVars
<1> QED
  BY <1>2, <1>3, <1>4, <1>5, <1>6, <1>7, <1>8, StatusListen, StatusAccept,
     StatusReceive, StatusLinkCloses, StatusLinkOpens DEF Next, Run

\* While the gateway listens, the status for the LED is whether it serves a
\* client, for every number of clients and descriptors.
THEOREM StatusCorrect == Spec => []StatusIsTrue
<1>1. Init => StatusInv
  BY DEF Init, StatusInv
<1>2. StatusInv => StatusIsTrue
  BY DEF StatusInv, StatusIsTrue
<1>3. QED
  BY TypeInit, TypeNext, NumbersInit, NumbersNext, <1>1, <1>2, StatusNext, PTL
     DEF Spec

=============================================================================
