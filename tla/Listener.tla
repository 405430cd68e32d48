------------------------------ MODULE Listener ------------------------------
(***************************************************************************)
(* The Modbus thread's sockets (ModbusServer::Run): it listens, selects    *)
(* among the listening socket and the clients it has accepted, serves a    *)
(* query of each ready client per round, and starts over when select fails *)
(* or sees nothing for 20 s.  What a query is answered is the subject of   *)
(* Gateway.                                                                *)
(*                                                                         *)
(* Descriptors are numbers that the process reuses, the lowest free one    *)
(* first, and that it shares with the Siemens side, whose socket snap7     *)
(* closes and opens whenever the link fails.                               *)
(***************************************************************************)
EXTENDS Integers

CONSTANTS
    Clients,      \* the connections that clients make, each of them once
    Observed,     \* those whose service is followed; the actions do not tell one
                  \* client from another, so that one stands for all
    MaxFds,       \* the descriptors left to the process
    LinkMayFail,  \* the link to the controller may fail
    AcceptMayFail \* accept may fail although there is a descriptor

NoFd == -1
Fds == 1 .. MaxFds

ASSUME ListenerAssumption ==
    /\ MaxFds \in Nat \ {0}
    /\ Observed \subseteq Clients
    /\ LinkMayFail \in BOOLEAN /\ AcceptMayFail \in BOOLEAN
    /\ Clients \cap {"free", "listener", "plc"} = {}

VARIABLES
    descriptors,    \* what each descriptor refers to
    backlog,        \* connections nobody has accepted yet
    client,         \* "away" before its connection, "up" during, "gone" after it
    query,          \* the clients that have sent what nobody has read yet
    plc_socket,     \* the descriptor that snap7 takes for its own
    server_socket,  \* the one that Run takes for the listening socket
    refset, rdset,  \* those it selects among, and those still to scan
    pc,             \* where Run is: "listen", "select" or "scan"
    IsConnected     \* the status for the LED

kernelVars == <<descriptors, backlog, client, query>>
runVars == <<server_socket, refset, rdset, pc, IsConnected>>
vars == <<kernelVars, plc_socket, runVars>>

-----------------------------------------------------------------------------
(* The operating system.                                                   *)

Free == {f \in Fds : descriptors[f] = "free"}
Listeners == {f \in Fds : descriptors[f] = "listener"}

\* What socket() and accept() hand out.
LowestFree(f) == f \in Free /\ \A g \in Free : f <= g

\* The connections that end when a descriptor is closed.
Ended(f) ==
    IF f \in Listeners THEN backlog
    ELSE {c \in Clients : f \in Fds /\ descriptors[f] = c}

\* close(f): an error without effect if nothing is open under that number.
Close(f) ==
    /\ descriptors' = [g \in Fds |-> IF g = f THEN "free" ELSE descriptors[g]]
    /\ client' = [c \in Clients |-> IF c \in Ended(f) THEN "gone" ELSE client[c]]
    /\ backlog' = backlog \ Ended(f)

\* The connection of a client ends before or without being accepted.
Lost(c) ==
    /\ client' = [client EXCEPT ![c] = "gone"]
    /\ backlog' = backlog \ {c}
    /\ query' = query \ {c}
    /\ UNCHANGED descriptors

\* Something can be read, or the end of the connection, without waiting.
Readable(f) ==
    \/ descriptors[f] = "listener" /\ backlog # {}
    \/ \E c \in Clients :
         descriptors[f] = c /\ (c \in query \/ client[c] = "gone")

-----------------------------------------------------------------------------
Init ==
    /\ \/ /\ plc_socket = 1
          /\ descriptors = [f \in Fds |-> IF f = 1 THEN "plc" ELSE "free"]
       \/ /\ LinkMayFail
          /\ plc_socket = NoFd
          /\ descriptors = [f \in Fds |-> "free"]
    /\ backlog = {} /\ query = {}
    /\ client = [c \in Clients |-> "away"]
    /\ server_socket = NoFd
    /\ refset = {} /\ rdset = {}
    /\ pc = "listen"
    /\ IsConnected = FALSE

\* Mutation of ListenSucceeds: the socket is not selected.
ListenUnselected(f) ==
    /\ pc = "listen"
    /\ LowestFree(f) /\ Listeners = {}
    /\ descriptors' = [descriptors EXCEPT ![f] = "listener"]
    /\ server_socket' = f
    /\ refset' = {}
    /\ pc' = "select"
    /\ UNCHANGED <<backlog, client, query, plc_socket, rdset, IsConnected>>

\* Run makes a listening socket.
ListenSucceeds(f) ==
    /\ pc = "listen"
    /\ LowestFree(f) /\ Listeners = {}
    /\ descriptors' = [descriptors EXCEPT ![f] = "listener"]
    /\ server_socket' = f
    /\ refset' = {f}
    /\ pc' = "select"
    /\ UNCHANGED <<backlog, client, query, plc_socket, rdset, IsConnected>>

\* There is no descriptor for it, or the port is taken by an earlier one that
\* was never closed.  FD_SET of -1 is undefined; it adds at most a number above
\* fdmax, which select does not look at.
ListenFails ==
    /\ pc = "listen"
    /\ Free = {} \/ Listeners # {}
    /\ server_socket' = NoFd
    /\ refset' = {}
    /\ pc' = "select"
    /\ UNCHANGED <<kernelVars, plc_socket, rdset, IsConnected>>

\* Mutation of Terminate: the status stays.
TerminateConnected ==
    /\ Close(server_socket)
    /\ query' = query \ Ended(server_socket)
    /\ pc' = "listen"
    /\ UNCHANGED <<plc_socket, server_socket, refset, rdset, IsConnected>>

\* Run closes its listening socket and returns; a second later it is called
\* again.  The clients' descriptors stay open.
Terminate ==
    /\ Close(server_socket)
    /\ query' = query \ Ended(server_socket)
    /\ IsConnected' = FALSE
    /\ pc' = "listen"
    /\ UNCHANGED <<plc_socket, server_socket, refset, rdset>>

SelectFails ==
    /\ pc = "select"
    /\ refset \cap Free # {}
    /\ Terminate

\* Nothing happened for 20 s.
SelectTimesOut ==
    /\ pc = "select"
    /\ \A f \in refset : descriptors[f] # "free" /\ ~Readable(f)
    /\ Terminate

\* Mutation of SelectReturns: one descriptor per round.
SelectReturnsOne ==
    /\ pc = "select"
    /\ refset \cap Free = {}
    /\ \E f \in refset :
         /\ Readable(f) \/ descriptors[f] = "plc"
         /\ \A g \in refset : g < f => ~Readable(g)
         /\ rdset' = {f}
    /\ pc' = "scan"
    /\ UNCHANGED <<kernelVars, plc_socket, server_socket, refset, IsConnected>>

\* The readable descriptors are to be scanned.  That of the Siemens side is
\* among them if the controller has answered meanwhile.
SelectReturns ==
    /\ pc = "select"
    /\ refset \cap Free = {}
    /\ \E plc \in SUBSET {f \in refset : descriptors[f] = "plc"} :
         rdset' = {f \in refset : Readable(f)} \cup plc
    /\ rdset' # {}
    /\ pc' = "scan"
    /\ UNCHANGED <<kernelVars, plc_socket, server_socket, refset, IsConnected>>

\* master_socket, the next one to scan.
Scanned(f) ==
    /\ pc = "scan"
    /\ f \in rdset /\ \A g \in rdset : f <= g
    /\ rdset' = rdset \ {f}
    /\ pc' = IF rdset = {f} THEN "select" ELSE "scan"

\* Mutation of Accept: the client is put in the set that is being scanned.
AcceptScanned(f, c, new) ==
    /\ pc = "scan"
    /\ f \in rdset /\ \A g \in rdset : f <= g
    /\ f = server_socket /\ f \in Listeners
    /\ c \in backlog /\ LowestFree(new)
    /\ backlog' = backlog \ {c}
    /\ descriptors' = [descriptors EXCEPT ![new] = c]
    /\ rdset' = (rdset \ {f}) \cup {new}
    /\ IsConnected' = TRUE
    /\ UNCHANGED <<client, query, plc_socket, server_socket, refset, pc>>

\* Mutation of Accept: the client's descriptor replaces the listening socket's.
AcceptReplaces(f, c, new) ==
    /\ Scanned(f)
    /\ f = server_socket /\ f \in Listeners
    /\ c \in backlog /\ LowestFree(new)
    /\ backlog' = backlog \ {c}
    /\ descriptors' = [descriptors EXCEPT ![new] = c]
    /\ refset' = refset \cup {new}
    /\ server_socket' = new
    /\ IsConnected' = TRUE
    /\ UNCHANGED <<client, query, plc_socket>>

\* A waiting client gets a descriptor of its own.
Accept(f, c, new) ==
    /\ Scanned(f)
    /\ f = server_socket /\ f \in Listeners
    /\ c \in backlog /\ LowestFree(new)
    /\ backlog' = backlog \ {c}
    /\ descriptors' = [descriptors EXCEPT ![new] = c]
    /\ refset' = refset \cup {new}
    /\ IsConnected' = TRUE
    /\ UNCHANGED <<client, query, plc_socket, server_socket>>

\* server_socket no longer names a listening socket, or there is no descriptor
\* or no memory for the client, or the network fails it while it is accepted.
AcceptFails(f) ==
    /\ Scanned(f)
    /\ f = server_socket
    /\ f \notin Listeners \/ Free = {} \/ AcceptMayFail
    /\ server_socket' = NoFd
    /\ UNCHANGED <<plc_socket, refset, IsConnected>>
    /\ \/ UNCHANGED kernelVars
       \/ AcceptMayFail /\ \E c \in backlog : Lost(c)

\* WaitForFunctionRequests receives a query and replies.  What it receives from
\* the controller is not a query; it refuses it or, below, cannot read it.
Serve(f) ==
    /\ Scanned(f)
    /\ f # server_socket
    /\ descriptors[f] \in query \cup {"plc"}
    /\ query' = query \ {descriptors[f]}
    /\ UNCHANGED <<descriptors, backlog, client, plc_socket, server_socket,
                   refset, IsConnected>>

\* It receives no query: the client is gone, what it has sent is not one or
\* stops in the middle, or the descriptor is none of a client.  It closes the
\* listening socket, not this one.
ReceiveFails(f) ==
    /\ Scanned(f)
    /\ f # server_socket
    /\ \A c \in Clients :
         descriptors[f] = c => client[c] = "gone" \/ c \in query
    /\ Close(server_socket)
    /\ query' = query \ (Ended(server_socket) \cup {descriptors[f]})
    /\ IsConnected' = FALSE
    /\ UNCHANGED <<plc_socket, server_socket, refset>>

Run ==
    \/ \E f \in Free : ListenSucceeds(f)
    \/ ListenFails
    \/ SelectFails \/ SelectTimesOut \/ SelectReturns
    \/ \E f \in rdset :
         \/ \E c \in Clients, new \in Free : Accept(f, c, new)
         \/ AcceptFails(f) \/ Serve(f) \/ ReceiveFails(f)

-----------------------------------------------------------------------------
(* The clients and the Siemens side.                                       *)

Connect(c) ==
    /\ client[c] = "away" /\ Listeners # {}
    /\ client' = [client EXCEPT ![c] = "up"]
    /\ backlog' = backlog \cup {c}
    /\ UNCHANGED <<descriptors, query, plc_socket, runVars>>

Ask(c) ==
    /\ client[c] = "up" /\ c \notin query
    /\ query' = query \cup {c}
    /\ UNCHANGED <<descriptors, backlog, client, plc_socket, runVars>>

\* The client ends its connection, or loses it.
Leave(c) ==
    /\ client[c] = "up"
    /\ client' = [client EXCEPT ![c] = "gone"]
    /\ query' = query \ {c}
    /\ UNCHANGED <<descriptors, backlog, plc_socket, runVars>>

LinkCloses ==
    /\ LinkMayFail /\ plc_socket # NoFd
    /\ Close(plc_socket)
    /\ query' = query \ Ended(plc_socket)
    /\ plc_socket' = NoFd
    /\ UNCHANGED runVars

LinkOpens(f) ==
    /\ plc_socket = NoFd /\ LowestFree(f)
    /\ plc_socket' = f
    /\ descriptors' = [descriptors EXCEPT ![f] = "plc"]
    /\ UNCHANGED <<backlog, client, query, runVars>>

Next ==
    \/ Run
    \/ \E c \in Clients : Connect(c) \/ Ask(c) \/ Leave(c)
    \/ LinkCloses
    \/ \E f \in Free : LinkOpens(f)

Spec == Init /\ [][Next]_vars

\* The Modbus thread is scheduled and its select ends after 20 s.  Clients and
\* link owe nothing.
FairSpec == Spec /\ WF_vars(Run)

-----------------------------------------------------------------------------
(* Properties.                                                             *)

\* Descriptors refer to one thing each, and Run scans what it has selected.
TypeOK ==
    /\ descriptors \in [Fds -> {"free", "listener", "plc"} \cup Clients]
    /\ backlog \subseteq Clients /\ query \subseteq Clients
    /\ client \in [Clients -> {"away", "up", "gone"}]
    /\ plc_socket \in Fds \cup {NoFd} /\ server_socket \in Fds \cup {NoFd}
    /\ refset \subseteq Fds /\ rdset \subseteq refset
    /\ pc \in {"listen", "select", "scan"} /\ (pc = "scan" <=> rdset # {})
    /\ IsConnected \in BOOLEAN

\* A new client can be accepted.
Listening == server_socket \in Listeners \cap refset

\* The client is among those that Run serves.
Held(c) == \E f \in refset : descriptors[f] = c

\* Run selects among the Siemens side's socket, too.
Mixed == \E f \in refset : descriptors[f] = "plc"

\* The descriptors have run out, or an accept has failed, for this reason or
\* another: then the listening socket is open, but Run has forgotten which one it
\* is, and cannot open another.
Short == Free = {} \/ (server_socket = NoFd /\ Listeners # {})

\* However clients come, ask, send what is no query, go and fall silent, the
\* gateway listens again and again, except while a socket of the Siemens side has
\* slipped under a number it selects, and until an accept fails.  Nothing is said
\* of how long these exceptions last.
ServiceReturns == []<>(Listening \/ Mixed \/ Short)

\* The same without exception.
ServiceAlwaysReturns == []<>Listening

\* A query of a client that Run serves is received and answered, or refused as
\* unreadable, however much other clients ask, unless Run starts over and leaves
\* the client.
QueryAnswered ==
    \A c \in Observed : c \in query /\ Held(c) ~> c \notin query \/ ~Held(c)

\* A connection does not wait for ever to be accepted: it is accepted or reset,
\* until an accept fails.
BacklogServed == \A c \in Observed : c \in backlog ~> c \notin backlog \/ Short

\* While the gateway listens, the status for the LED is whether it serves a
\* client.
StatusIsTrue ==
    pc = "select" /\ Listening => (IsConnected <=> \E c \in Clients : Held(c))

\* The number that snap7 takes for its socket has been closed by Run.
Stale == plc_socket \in Fds /\ descriptors[plc_socket] # "plc"

\* Neither thread closes a client's connection for its own socket, although each
\* may close a number that the other has reused: Run's number names no client;
\* if it names the Siemens side's socket, or did until Run closed it, all the
\* lower ones are clients', so that nothing but the next listening socket can
\* get it.
NumbersAgree ==
    /\ \A f \in Fds : descriptors[f] = "plc" => f = plc_socket
    /\ server_socket \in Fds =>
         /\ Listeners \subseteq {server_socket}
         /\ descriptors[server_socket] \notin Clients
         /\ descriptors[server_socket] = "plc" =>
              \A g \in Fds : g < server_socket => descriptors[g] \in Clients
    /\ Stale =>
         /\ Listeners \subseteq {plc_socket}
         /\ descriptors[plc_socket] \notin Clients
         /\ \A g \in Fds : g < plc_socket => descriptors[g] \in Clients

\* The status at every step of Run.
StatusInv ==
    /\ pc = "listen" => ~IsConnected
    /\ pc # "listen" /\ Listening => (IsConnected <=> \E c \in Clients : Held(c))

=============================================================================
