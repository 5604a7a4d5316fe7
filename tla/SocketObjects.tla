--------------------------- MODULE SocketObjects ---------------------------
(***************************************************************************)
(* The socket classes: a registry of ports that all objects of a process   *)
(* share, objects that open a port when they are made, and the address     *)
(* that each datagram socket sends to, which is where its last datagram    *)
(* came from.                                                              *)
(*                                                                         *)
(* The functions of the other programs run alone; they make no objects.    *)
(*                                                                         *)
(* A port is the one asked for, which is what the registry keeps.  The     *)
(* text of it that initialize hands to getaddrinfo is a pointer into a     *)
(* string that no longer exists (Socket.cxx:9, 21), so what the descriptor *)
(* is bound to, if the look-up succeeds, is not modelled.                  *)
(***************************************************************************)
EXTENDS SocketSetup, FiniteSets

CONSTANTS
    Objects,    \* places a program keeps socket objects in
    Ports,      \* ports it asks for
    Peers,      \* other programs that send datagrams
    Host,       \* the program at the address a client is made for
    Nobody      \* an address nobody has: unset, partly set, or freed memory

ASSUME ObjectsAssumption ==
    /\ Ports \subseteq Nat
    /\ Host \in Peers /\ Nobody \notin Peers

VARIABLES
    open_ports,   \* the registry
    state,        \* per object: none, building or live
    role,         \* per object: server or client
    port,         \* per object
    bound,        \* objects whose descriptor has a local port
    wide,         \* objects whose addresses are longer than a struct sockaddr
    last_addr,    \* per object: whom it sends to
    length,       \* objects whose last_addrlen was written
    heard         \* per object: from whom it received, and recvfrom told

objectVars == <<open_ports, state, role, port, bound, wide, last_addr, length, heard>>
vars == <<setupVars, objectVars>>

Initialize == [server |-> "UDP_Socket_initialize_server",
               client |-> "UDP_Socket_initialize_client"]

TypeOK ==
    /\ SetupTypeOK
    /\ open_ports \subseteq Ports
    /\ state \in [Objects -> {"none", "building", "live"}]
    /\ role \in [Objects -> {"server", "client"}]
    /\ port \in [Objects -> Ports]
    /\ bound \subseteq Objects /\ wide \subseteq Objects /\ length \subseteq Objects
    /\ last_addr \in [Objects -> Peers \cup {Nobody}]
    /\ heard \in [Objects -> SUBSET Peers]

\* Either a function of another program is called, or a program that uses the
\* socket classes starts.
Init ==
    /\ Fresh
    /\ \/ fn \in Functions \ {Initialize.server, Initialize.client} /\ outcome = "running"
       \/ fn = Initialize.server /\ outcome = "idle"
    /\ open_ports = {}
    /\ state = [o \in Objects |-> "none"] /\ role = [o \in Objects |-> "server"]
    /\ \E p \in Ports : port = [o \in Objects |-> p]
    /\ bound = {} /\ wide = {} /\ length = {}
    /\ last_addr = [o \in Objects |-> Nobody]
    /\ heard = [o \in Objects |-> {}]

----------------------------------------------------------------------------
(* Making and destroying an object.                                        *)

\* The program uses the socket classes and can go on.
Ready == fn \in {Initialize.server, Initialize.client} /\ outcome \in {"idle", "true", "false"}

\* The variant that looks at the lower bound only.
AnyFreePort(p) == p >= 1000

\* Otherwise the constructor throws, and nothing has changed.
PortAccepted(p) == p \notin open_ports /\ p >= 1000

\* Socket::Socket and the call of initialize.
Make(o, p, r) ==
    /\ Ready /\ state[o] = "none" /\ \A q \in Objects : state[q] # "building"
    /\ PortAccepted(p)
    /\ open_ports' = open_ports \cup {p}
    /\ state' = [state EXCEPT ![o] = "building"]
    /\ role' = [role EXCEPT ![o] = r] /\ port' = [port EXCEPT ![o] = p]
    /\ heard' = [heard EXCEPT ![o] = {}]
    /\ last_addr' = [last_addr EXCEPT ![o] = Nobody]
    /\ bound' = bound \ {o} /\ wide' = wide \ {o} /\ length' = length \ {o}
    /\ fn' = Initialize[r] /\ outcome' = "running"
    /\ at' = "resolve" /\ left' = 0 /\ list' = "none" /\ fd' = FALSE /\ made' = <<>>

\* What a client reads as its host: from the list it had freed, and no more of
\* it than a struct sockaddr holds.
HostRead(long) == IF long THEN {Nobody} ELSE {Host, Nobody}

\* initialize returned: the constructor returns or throws.  The address that
\* served may be of either family.
Made(o) ==
    /\ state[o] = "building" /\ outcome \in {"true", "false"}
    /\ IF outcome = "true"
         THEN \E long \in BOOLEAN :
              /\ state' = [state EXCEPT ![o] = "live"]
              /\ wide' = IF long THEN wide \cup {o} ELSE wide
              /\ IF role[o] = "client"
                   THEN /\ \E peer \in HostRead(long) :
                             last_addr' = [last_addr EXCEPT ![o] = peer]
                        /\ length' = length \cup {o} /\ UNCHANGED bound
                   ELSE bound' = bound \cup {o} /\ UNCHANGED <<last_addr, length>>
         ELSE /\ state' = [state EXCEPT ![o] = "none"]
              /\ UNCHANGED <<last_addr, length, bound, wide>>
    /\ UNCHANGED <<setupVars, open_ports, role, port, heard>>

\* The variant that takes the port out of the registry.
DestroyReleases(o) ==
    /\ Ready /\ state[o] = "live"
    /\ state' = [state EXCEPT ![o] = "none"]
    /\ open_ports' = open_ports \ {port[o]}
    /\ UNCHANGED <<setupVars, role, port, bound, wide, last_addr, length, heard>>

Destroy(o) ==
    /\ Ready /\ state[o] = "live"
    /\ state' = [state EXCEPT ![o] = "none"]
    /\ UNCHANGED <<setupVars, open_ports, role, port, bound, wide, last_addr, length, heard>>

----------------------------------------------------------------------------
(* Secure sockets are never live.                                          *)

\* The server builds its address from the address it is building.
Secure_initialize_server == {"undefined"}

\* The context was made for a server: SSL_connect fails with it, as any call
\* before it may.
Secure_initialize_client == {"false"}

Secure_initialize(r) ==
    {"false"} \cup (IF r = "server" THEN Secure_initialize_server
                                    ELSE Secure_initialize_client)

MakeSecure(p, r) ==
    /\ Ready /\ \A q \in Objects : state[q] # "building"
    /\ PortAccepted(p)
    /\ open_ports' = open_ports \cup {p}
    /\ outcome' \in Secure_initialize(r)
    /\ at' = "resolve" /\ left' = 0 /\ list' = "none" /\ fd' = FALSE /\ made' = <<>>
    /\ UNCHANGED <<fn, state, role, port, bound, wide, last_addr, length, heard>>

----------------------------------------------------------------------------
(* Unreliable_UDP_Socket.                                                  *)

\* The variant with one address for all objects.
ReceiveShared(o) ==
    /\ Ready /\ state[o] = "live" /\ o \in bound
    /\ \E peer \in Peers :
         /\ last_addr' = [q \in Objects |-> peer]
         /\ heard' = [heard EXCEPT ![o] = @ \cup {peer}]
    /\ length' = length \cup {o}
    /\ UNCHANGED <<setupVars, open_ports, state, role, port, bound, wide>>

\* recv_str and recv_short: recvfrom stores the sender, whether or not what it
\* sent is then rejected.  A server's last_addrlen is not written before: the
\* first sender may be lost by it, and with a negative value recvfrom fails, each
\* time, and changes nothing.  A longer address is stored with its length in the
\* middle: last_addrlen lies where last_addr ends.
Receive(o) ==
    /\ Ready /\ state[o] = "live" /\ o \in bound
    /\ \E peer \in Peers :
         /\ \/ o \notin wide /\ last_addr' = [last_addr EXCEPT ![o] = peer]
            \/ (o \in wide \/ o \notin length) /\ UNCHANGED last_addr
         /\ heard' = [heard EXCEPT ![o] = @ \cup {peer}]
    /\ length' = length \cup {o}
    /\ UNCHANGED <<setupVars, open_ports, state, role, port, bound, wide>>

\* send_str and send_short: sendto gives a client's descriptor its local port.
Send(o) ==
    /\ Ready /\ state[o] = "live"
    /\ bound' = bound \cup {o}
    /\ UNCHANGED <<setupVars, open_ports, state, role, port, wide, last_addr, length, heard>>

----------------------------------------------------------------------------

ObjectStep ==
    \/ \E o \in Objects :
         \/ \E p \in Ports, r \in {"server", "client"} : Make(o, p, r)
         \/ Made(o) \/ Destroy(o) \/ Receive(o) \/ Send(o)
    \/ \E p \in Ports, r \in {"server", "client"} : MakeSecure(p, r)

Next == ObjectStep \/ (SetupStep /\ UNCHANGED objectVars)

Spec == Init /\ [][Next]_vars

----------------------------------------------------------------------------

Kept(o) == state[o] # "none"

\* No two objects that exist, or are being made, have one port, whatever was
\* made, failed and was destroyed before, and none has a port below 1000
\* (Socket.cxx:11-15).
PortsOnce ==
    \A o \in Objects : Kept(o) =>
        /\ port[o] \in open_ports /\ port[o] >= 1000
        /\ \A q \in Objects : Kept(q) /\ port[q] = port[o] => q = o

Lost(p) == p \in open_ports /\ \A o \in Objects : Kept(o) => port[o] # p

\* The registry only ever grows (Socket.cxx:14, UDP_Socket.cxx:23-25): a port
\* whose object was destroyed, or whose constructor threw, is lost to the
\* process.
PortLost ==
    [][/\ \A p \in Ports : Lost(p) => Lost(p)'
       /\ \A o \in Objects : Kept(o) /\ ~Kept(o)' => Lost(port[o])']_vars

\* A socket whose addresses fit in last_addr sends to somebody it heard itself, a
\* client also to the host it was made for (Unreliable_UDP_Socket.cxx:17-51), or
\* to an address nobody has: a server that has not heard twice, a client that has
\* not heard since it read its address from freed memory.  Nothing is said of an
\* IPv6 address, of which UDP_Socket.h:26 keeps the first 16 bytes.
SendsToHeard ==
    \A o \in Objects : state[o] = "live" /\ o \notin wide =>
        \/ last_addr[o] \in heard[o]
        \/ last_addr[o] = Host /\ role[o] = "client"
        \/ last_addr[o] = Nobody /\ Cardinality(heard[o]) <= IF role[o] = "server" THEN 1 ELSE 0

=============================================================================
