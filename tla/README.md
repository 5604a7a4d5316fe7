# A TLA+ development for the Inferno game servers

The repository holds the servers of an online game: a login server with its
client, a chat session, a chat server and a match maker that keep login tokens, a
match server, the packets they exchange, socket classes, and a navigation graph.
This directory models what can be model-checked of it, checks it with TLC, and
proves some of it with TLAPS.

Line numbers are of the files under `src/GameServer` unless a path is given.

## 1. Inventory

| component | state | operations | what is hard |
|---|---|---|---|
| **Login server** `LoginServer/server` | listening socket, data connections, the two port counters, one MySQL connection, the credentials table | `start` (accept, fork), `get_request_type`, `login_user`, `signup_user`, `recv_password`, `chat_server_auth`, `match_server_auth` | every child works on a *copy* of the counters and on the *same* MySQL socket; second connection (the "tunnel") matched by port only; many early returns |
| **Login client** `LoginServer/client` | one data connection, one tunnel per request | `main` (services loop), `login`, `signup` | untagged shorts on the data connection; the loop reuses a connection the server serves once |
| **Chat session** `ChatServer/Session` | `client_set`, `temp_set`, `max_fd`, the connections | `enter_main_loop`, `handle_accept`, `handle_recv`, `addClient`, `removeClient` | select's result overwrites the set to watch; the scan uses the copy; SIGPIPE |
| **Chat server** `ChatServer/ChatServer`, `Linear/ChatServer` | token -> user table, queue of expiries | `update`, `receive_new`, `scrub_list` | expiry of refreshed tokens, empty queue |
| **Match maker** `MatchMaker`, `Linear/MatchMaker` | the same table; queues nothing uses | the same | the same |
| **Match server** `MatchServer` | bounded queue of packets, roster | `Acceptor::startReceiving`, `Converter::convert`, `addClient`, `recalculateELO` | two threads, queue full and empty, stale buffer |
| **Sockets** `src/Sockets`, and a set-up function in every program | registry of open ports, per socket address; a list of addresses and a descriptor while one is opened | constructors, `initialize_*`, `setup_*_connection`, `send_*`, `recv_*` | any call on any address may fail; a port is never given back; reply address |
| **Packets** `src/Packets` | byte buffers | header and payload writers and readers | offsets that must agree |
| **Server AI** `src/Server_AI` | vertices, edges | `add_vertex`, `add_edge`, parsers, `get_closest_vertex` | ids that are indices |

Interactions: login client and server talk over a data connection and a tunnel;
children of the server meet in the port table of the kernel and on the MySQL
connection; the login server is meant to hand tokens to the chat server and the
match maker by UDP (`chat_server_auth`, `match_server_auth`; nothing calls them and
neither receiver answers). The chat session is a program of its own.

What makes each correct:

* login: a token only for the right password, an account never overwritten; a
  child reads from its own client and, if the name can be pasted into a query as it
  is, its own row; ports are freed on every path;
  a failure of one request does not harm the others; a request comes back.
* chat session: only live descriptors are used; messages are relayed in order,
  never to their sender; whoever connects is accepted, whoever leaves is let go.
* token tables: nobody is in the table without an expiry queued; a scrub leaves nobody who was not
  heard of for 300 s; a hand-over ends although nobody answers it.
* match server: packets keep their order and their end; only a full queue loses one.
* sockets: success means a usable descriptor, failure leaves nothing open; a port
  belongs to one object; a reply goes to somebody who wrote, if the address fits.
* packets: what one side writes the other reads.
* graph: until the ids wrap, a search finds a nearest vertex of its own graph, or throws.

`PROJECT.json` lists the hazards at their lines with the properties aimed at them.

## 2. The modules

| module | models | built on |
|---|---|---|
| `LoginNet` | kernel sockets, data connections, tunnels | |
| `LoginServer` | parent, children, MySQL connection | `LoginNet` |
| `LoginClient` | the client program | `LoginNet` |
| `LoginSystem` | both composed; properties, fairness | `LoginServer`, `LoginClient` |
| `AuthService` | the abstract service: accounts and sessions | |
| `LoginServerProofs` | theorems about `LoginSystem`: types, ports, database connection, tunnels | |
| `LoginSessionProofs` | theorems about `LoginSystem` where users only log in | `LoginServerProofs` |
| `ChatSession` | the chat session and its clients | |
| `ChatProofs` | theorems about `ChatSession` | |
| `PacketLayout` | where each of fourteen packet classes writes and reads its fields | |
| `PacketWire` | a packet through a buffer: serialize, headers, sizes, deserialize | `PacketLayout` |
| `PacketProofs` | theorems about `PacketWire` | |
| `TokenTable` | the tables of the chat server and the match maker | |
| `AuthHandoff` | the login server's hand-over to them, by UDP with repeats | `TokenTable` |
| `TokenProofs` | theorems about `AuthHandoff` and its tables | |
| `MatchPipeline` | acceptor, queue, converter | |
| `MatchRoster` | the clients of a match server and their rating | |
| `MatchSystem` | both composed; fairness | `MatchPipeline`, `MatchRoster` |
| `MatchProofs` | theorems about `MatchSystem` | |
| `SocketSetup` | sixteen functions that open a socket | |
| `SocketObjects` | the registry of ports, UDP and secure socket objects | `SocketSetup` |
| `SocketProofs` | theorems about `SocketObjects` | |
| `NavGraph` | the navigation graphs of a process | |
| `NavProofs` | theorems about `NavGraph` | |
| `MCLogin`, `MCChat`, `MCTokens`, `MCNav` | instances for TLC | |

### Login

A client process keeps one data connection, and the parent forks one child for it,
so clients and children share the constant `Clients`: child `c` serves the data
connection of client `c`. `toServer[c]` and `toClient[c]` are the two directions of
that connection. `listening`, `port`, `queue` are the children's secure sockets
and the tunnels the kernel completed but nobody accepted; `peer[c]` is the client
at the other end of the tunnel that child `c` popped, which the code never compares
with `c`. `up` and `down` are the streams inside the tunnels. `next` holds each
process's own copy of `next_login_port` and `next_registration_port`. `replies` is
the MySQL socket every process inherited: the server answers queries in their
order, and whichever process reads next takes the next reply.

There is one action per blocking call, with everything the code does up to the
next one: `AcceptConnection` is accept, fork and the child's copy of memory;
`ReadCode` is `recv`, the ACK and the dispatch; `Announce*` is choosing and sending
the port; `BindSecurePort` the first `BIO_do_accept`, `AcceptTunnel` the second;
and so on in the order of `login_user` and `recv_password`. Each call that can fail
has an action for the failure: `...Fails` for an error, `...Eof` for a stream whose
other end is gone. A failed `SSL_read` returns at most 0 and leaves what it was to
fill uninitialised, so the loop around it ends at once or never: both are
alternatives (`spin`).

What the model abstracts: a name, a password or a hash is a model value; the length
and the bytes after it are one message, which the code sends and reads in this
order on one stream; a MySQL query and its reply are one item each (a prepared
statement counts as one round trip). The schema of `credentials` is not in the
repository: `username` is taken to be a unique key (`NameTaken`), the one
assumption about it besides how names compare, below. `SIGPIPE` ends a process that writes to a reset connection
(`GoOn`, `Crash`). `hash_SHA_256` is injective (`Hash`). The `Linear` copy of
`LoginServer.cxx` differs in the spelling of one call in the constructor only.

`login_user` pastes the name into the text of its query (`LoginServer.cxx` 426).
`Literal` is the set of names that mean themselves there: no quote, no backslash, and
compared by the database as they are typed. For any other name `LookupReplies` lets the
answer be any row, with any hash (a query can make one up), no row, or an error, at which
`executeQuery` throws and the child dies with the database up (`LookupThrows`). What a
child holds of such a name is therefore arbitrary, and no property vouches for it:
`LookupOwnRow`, `TokenVouched` and `AuthService` speak of literal names, in a system where
others may send any. One assumption is left: the text stays a single SELECT, which changes
no row (the connector is not asked for several statements). The INSERT of a signup is
prepared, so its name is a value.

A client whose TLS handshake fails returns without closing the TCP connection
(`client.cxx` 181-192, 342-353): its tunnel is then `"left"`, open with nobody in it, or
`"closed"` if the server had gone.

`Faults` says which calls of the environment may fail (`slow`, `fork`, `bind`,
`ssl`, `rng`, `crash`), so that a property can be checked with and without.

### Chat session

One process. `Select` copies `client_set` to `temp_set` and keeps the ready
descriptors in `client_set`, as `select` does (135-136); the scan then visits the
descriptors of the *copy* up to the current `max_fd`, one action per visit:
`HandleAccept`, `AcceptFails`, `HandleDisconnect`, `HandleRecv`. A visit has no
guard but its call's: on a descriptor that is not ready, the process waits. `accept`
gives the lowest free descriptor, which the scan may still reach.
`Session(int, int)`, which the launcher uses, never clears the set: `Leftover` is
the set of bits it may hold, any numbers. Bits of the standard streams (0..2) are watched
and visited: `select` may report the terminal at any time, `recv` fails on it and the
descriptor is closed (`HandleTerminal`), and the next `accept` gives it to a client. One that
gets 1 becomes the standard output, and receives the line that `handle_accept` prints
(180; its text is not kept in `outbox`, but a reset connection can kill the process there,
`TellStdout`). Bits above `max_fd` in words that `select` does not touch stay (`Untouched`,
with words of `WordBits`), and are watched once `max_fd` reaches them. The same constructor
never opens `logfile`, so where the code prints an error to it the process goes on or dies
(`LogError`). A send to a client that has closed marks the
connection as reset, at once or later, and the send after that kills the process.

### Packets

`PacketLayout` has one record per class: its layer, the length of its content, and
the `memcpy` calls of its serialize and deserialize as (field, offset, width), writes
counted from the front and reads from the tail, in the code's order. `PacketWire`
runs them. A byte is the field it belongs to, with the number of the packet, so that
a wrong place shows as a byte of something else. `serialize` is one action: the
content, the layer's header, and the general header at the *same* pointer, because
`add_header` of each layer passes `tail` on unchanged; of several writes of a byte
the last stays. `StripHeader`, `StripLayer`, `ReadContent` are the three
`deserialize` functions. Nothing in the repository calls them, so where the tail of a
received packet is taken to be is the caller's choice and marked external: where the
last write ends (`"header"`, at length + 12, which no size function reports), or at
`get_packet_size` (`"packet"`). At the latter a Sync class copies from `data - 1`, in front
of the buffer; the byte is then `Foreign`. `I_Primary_Packet` is left out: its constructor
(`I_Primary_Packet.cxx` 5) initialises a struct from a pointer and does not compile, and the
makefile does not build it. Not modelled: byte
order (both ends copy memory) and the field `type`, which no function touches.

### Tokens

`TokenTable` has one copy of the table and the queue per program. `ReceiveToken` is one
turn of the loop in `receive_new`, `ReceiveFails` the `recvfrom` that ends it, `Scrub` the
whole of `scrub_list`. The size given to `recvfrom` is `strlen(buffer)` of a buffer that
was just cleared, 0: the datagram is taken and none of it stored, so `Buffer` is an empty
token and any name the stack may hold. `insert` leaves a name that is in the map alone,
`push_back` queues it again. `front()` of an empty queue is undefined behaviour: the loop
ends there, or `pc` becomes `"undefined"`. The match maker's constructor makes neither
map nor queue (`Made`), so its first use of them is undefined. A time is kept as the
time left; `Tick` lets it pass for every entry. So the clock never goes back, although
`gettimeofday`, which the code asks, gives a time that somebody may set.

`AuthHandoff` is `chat_server_auth` and `match_server_auth`: `SendAuth`, then rounds of
`TakeAnswer` or `NoAnswer`, and `KeepWaiting` or `Resend` by the time elapsed. `net` is a
set: a datagram in it may be delivered never, once or again, in any order (`Reaches` says
whether it can arrive at all; no program binds the port that the receivers read from, so
in the deployment as committed nothing does).

### Match server

The acceptor's `recvfrom` and its `push` are one action each, and so are the converter's
`pop` and `processPacket`, so that the queue's two ends interleave. A byte is the number of
the datagram it came from. `fate` records what became of a datagram first; no code reads
it. `MatchRoster` computes the rating as the code does: `int` difference divided by a
`size_t`, which for a negative difference gives a value that no `int` holds (`Undefined`).
No converter code calls `addClient` yet; the composition only runs them side by side.

### Sockets

The set-up functions of all programs are one machine with a record per function: the calls
made on a descriptor, and when the list of addresses is freed. `Resolve`, `OpenSocket`,
`CallSucceeds`, `CallFails`, ... are the calls; every one may fail. Freeing a list that was
never made, using one that was freed, and reading through the null that ended the loop make
the outcome `"undefined"`. `SocketObjects` adds the objects: `Make` is `Socket::Socket` and
the start of `initialize`, `Made` its return. A client copies its address from the list it
has freed (`Nobody` if the memory was reused), and a server's `last_addrlen` is written by
its first `recvfrom` only. `last_addr` is a `struct sockaddr` of 16 bytes, while the list may
give an IPv6 address of 28: the objects of `wide` have one. A client copies the front of it
(`HostRead`); a received one is cut, and `last_addrlen`, which lies behind `last_addr` in the
object, is written over: `last_addr` stays an address nobody has. `Secure_Socket` is `Secure_initialize_*`: no object ever comes
of it.

### Navigation graph

`graph[g]` and `adj[g]` are the two halves of the vector; `made` counts all vertices of the
process and `count` is it as a `uint16_t`. A graph may be deleted and made again. The
searches are operators, evaluated in every state for every vertex and position, and
compared with a reference that uses squares instead of roots (`UnitNearer`); `Closest`
is the loop both share, turn by turn. Coordinates are so small that the sum of squares
is an `int` (`CoordinatesSmall`); beyond that the code converts a `double` that no `int`
holds, and says nothing.

## 3. What TLC checks

| run | instance | shows |
|---|---|---|
| `LoginTwo` | 2 clients, 1 request each, login or signup, known, unknown and not literal names, all faults; 367 223 states | `TypeOK`; `DatabaseOutlivesRequests`; `ListenersLive`; `TunnelUnshared`; `ServicesSerial`; the system implements `AuthService` (`ImplementsAuth`) |
| `LoginsThree` | 3 clients that log in: one with a right or wrong password, one with a wrong one, one under a name that changes the query; faults `bind`, `rng`; 423 975 states | `LookupOwnRow`, `TokenVouched` |
| `LoginLive` | 2 clients, faults `slow`, `bind`, `ssl`, weak fairness; 63 992 states | `FirstRequestReturns`, `PairedSessionEnds` |
| `ChatSafe` | 3 chat clients, 2 messages each, leftover bits 0, 1 and 5, words of 4 bits, failures; 1 020 245 states | `TypeOK`, `DescriptorsLive`, `RelayedInOrder`, `DroppedForever` |
| `ChatAccepts` | 3 chat clients, cleared set, weak fairness; 15 848 states | `FirstTwoAccepted` |
| `PacketsKept` | any two packets of the fourteen classes in one buffer, both tails; 1 239 states | `TypeOK` (no reader moves the tail in front of the data), `BufferHolds`, `ContentSurvives`, `HeaderSurvives` |
| `Tokens` | one login process, two names, one token, `TokenLife` 2, 3 queued expiries, 2 repeats, faults, weak fairness; 144 309 states | `TypeOK`, `UsersQueued`, `FreshAfterScrub`, `HandoffEnds` |
| `Match` | queue of 2, packets of 3 bytes, 3 datagrams, failed receives; 3 places, ratings 1 and 4; weak fairness of both threads; 261 000 states | `TypeOK`, `NewestFirst`, `Terminated`, `QueuedInOrder`, `NeverGoesBack`, `EachProcessed`, `RatingWithin` |
| `Sockets` | each of 16 functions with 1 or 2 addresses; 2 objects, short and long addresses, 4 ports, 2 peers; 176 076 states | `TypeOK`, `SuccessUsable`, `OnlyKnownLeaks`, `PortsOnce`, `PortLost`, `SendsToHeard` |
| `Nav` | 2 graphs, 4 vertices at 3 positions, ids wrap after 3, 2 edges each; 88 117 states | `TypeOK`, `AnswersWhenOwn`, `NearestFound`, `NeighbourFound` |

Why the bounds are enough. Two clients meet in every way the login code allows: on
one port, in one queue, on the MySQL connection; since logins and signups use
different ports, two *tunnels at once* need one of each, and a third client is
needed only to read a row of another login while a signup's reply is outstanding.
`LoginsThree` has the three logins, `LookupSwap` the two logins and a signup; the client
that dies in the middle of a login is in `LoginTwo`. One name that is not literal is
enough, since the answer to it may be anything. One
request per client is all a connection is served for; what a second request meets
is a child that has exited. In the chat session the third client is the first that
select can have taken from the set for good, and two messages let a client's text be
read as one piece or two. The leftover bits are standard input, standard output, and one in
the word above the listener's, where the second client comes. Packets do not depend on more than the bytes the previous
one left, so all pairs of classes are all cases. Three queued expiries let a name be
queued twice with another one between; the match maker needs no expiry, and two tries
are one repeat and one that fails. A queue of two is empty, half full and full, and three
datagrams are one more than fit; the middle one of three bytes is the only one whose
datagram may end before or after it. Two addresses are the first and the last of a list,
and four ports are one that is too low and more than two objects need. Two graphs with
three ids show one graph, two graphs, a graph made anew, and a counter that has wrapped.

`ContentSurvives` holds for every field but three, which `Lost` names: `I_Minion`
writes `rot_x` over the last two bytes of `z` and reads `y` and `z` two bytes early
(`Packets/I_Minion_Packet.cxx` 17-18, 33-35), and `G_Primary_Notify` never copies
`experience`. The property says that nothing else is touched by it, when the tail is where
the last write ends. No size function of the code reports that place, and of content read
from `get_packet_size` nothing is claimed.

`FirstRequestReturns` leaves out a login under a name that is not literal: the child may
die of the query, and its client, which the parent's copy of the data connection keeps
from seeing that, waits for ever. `NearestFound` and `AnswersWhenOwn` hold until the id
counter wraps (`Unwrapped`): after 65536 vertices ids repeat or name other places, and a
search may answer with another vertex without a word. `SendsToHeard` speaks of objects whose
addresses fit in `last_addr`. `UsersQueued` says that an expiry is queued, and not that it
is ever looked at: `receive_new` blocks, and `scrub_list` may never be reached.

Two runs expect a violation; they state what the code's own words say of it
(`findings` in `PROJECT.json` quotes the lines):

| run | what the code does |
|---|---|
| `LookupSwap` | "Lookup username in database": a child reads the row of another child's query |
| `TokensEmpty` | "Record token": the token recorded is the empty string |

Other differences between words and code show in what the passing runs say:

* "Get first free port and update" (`LoginServer.cxx` 349): every child takes the same
  port from its own copy of the counter, which is why `ServicesSerial` holds.
* "Disconnection request handling" (`ChatServer/Session.cxx` 191): `DroppedForever` says that
  a descriptor select has taken out is not watched again, so the client behind it is not
  let go when it leaves.
* "Strip header info (from packet tail)" (`Packets/Protocol_Packet.cxx` 11): the layer's
  header shares its place with the general header, and `HeaderSurvives` says which one
  comes back.
* "Delete elements until expiry time has not been reached" (`ChatServer.cxx` 61): the first
  expiry of a name drops the user although a later one of the same name waits in the
  queue; `FreshAfterScrub` says what is left.
* "Create account request timeout" (`LoginServer.cxx` 650): the request goes on, and the
  client takes the -1 for the port, which is why `FirstRequestReturns` counts the
  request that ends in a refused connection.

`ImplementsAuth` is checked for two clients. In the instance of `LookupSwap`, two logins
beside a signup, it fails, and so does `TokenVouched`: a login that reads the other's
row compares the typed password with the wrong hash. It is the same disagreement, so
only `LookupOwnRow` is kept as a run.

`LookupSwap` and `LoginsThree` belong together: with logins alone no two children
ever use the database at once, because all logins need port 14000 from before their
lookup until they exit, so the port works as a lock nobody wrote. A signup frees
port 13000 *before* its INSERT (`KeepPassword`), and two logins and a signup, or two
signups, do meet on the connection.

**Fairness.** `FairSpec` assumes weak fairness of the parent, of each child, and of
each client program once it is started: the operating system runs every process
whose call can return. Nothing makes a user start a client or type. `FirstRequestReturns`
is about a client that is alone, since another one may keep the port. In the chat
session, weak fairness of the one process; in `Tokens`, of the clock and of a child
in its hand-over, none of whose calls block; in `Match`, of the two threads. Deadlock
is not checked: a server with nobody to serve waits, and a client may wait forever for
a child that has exited.

Every property has a mutant in `PROJECT.json`: a variant of one definition, placed
before it in its module, with which TLC finds the property violated.

## 4. What is proved

| theorem | statement |
|---|---|
| `LoginServerProofs!TypeCorrect` | `Spec => []TypeOK` |
| `LoginServerProofs!ListenersLiveCorrect` | `Spec => []ListenersLive` |
| `LoginServerProofs!ServicesSerialCorrect` | `Spec => []ServicesSerial` |
| `LoginServerProofs!DatabaseCorrect` | `Spec => []DatabaseOutlivesRequests` |
| `LoginServerProofs!TunnelUnsharedCorrect` | `Spec => []TunnelUnshared` |
| `LoginServerProofs!NoSecondTunnel` | `Spec => [][~DialsAgain]_vars` |
| `LoginSessionProofs!LookupOwnRowCorrect` | `LoginsOnly`: `Spec => []LookupOwnRow` |
| `LoginSessionProofs!TokenVouchedCorrect` | `LoginsOnly`: `Spec => []TokenVouched` |
| `LoginSessionProofs!ImplementsAuthCorrect` | `LoginsOnly`: `Spec => ImplementsAuth` |
| `ChatProofs!ChatTypeCorrect` | `Spec => []TypeOK` |
| `ChatProofs!DescriptorsLiveCorrect` | `Spec => []DescriptorsLive` |
| `ChatProofs!DroppedForeverCorrect` | `Spec => DroppedForever` |
| `ChatProofs!RelayedInOrderCorrect` | `Spec => []RelayedInOrder` |
| `TokenProofs!TokenTypeCorrect` | `Spec => []TypeOK` |
| `TokenProofs!UsersQueuedCorrect` | `Spec => []UsersQueued` |
| `TokenProofs!SortedCorrect` | `Spec => []Sorted` |
| `TokenProofs!FreshAfterScrubCorrect` | `Spec => FreshAfterScrub` |
| `MatchProofs!MatchTypeCorrect` | `Spec => []TypeOK` |
| `MatchProofs!NewestFirstCorrect` | `Spec => []NewestFirst` |
| `MatchProofs!TerminatedCorrect` | `Spec => []Terminated` |
| `MatchProofs!QueuedInOrderCorrect` | `Spec => []QueuedInOrder` |
| `MatchProofs!NeverGoesBackCorrect` | `Spec => NeverGoesBack` |
| `MatchProofs!RatingWithinCorrect` | `Spec => []RatingWithin` |
| `SocketProofs!SocketTypeCorrect` | `Spec => []TypeOK` |
| `SocketProofs!SuccessUsableCorrect` | `Spec => []SuccessUsable` |
| `SocketProofs!OnlyKnownLeaksCorrect` | `Spec => []OnlyKnownLeaks` |
| `SocketProofs!PortsOnceCorrect` | `Spec => []PortsOnce` |
| `SocketProofs!SendsToHeardCorrect` | `Spec => []SendsToHeard` |
| `SocketProofs!PortLostCorrect` | `Spec => PortLost` |
| `NavProofs!NavTypeCorrect` | `Spec => []TypeOK` |
| `NavProofs!AnswersWhenOwnCorrect` | `Spec => []AnswersWhenOwn` |
| `NavProofs!NearestCorrect` | `Spec => []NearestFound` |
| `NavProofs!NeighbourCorrect` | `Spec => []NeighbourFound` |
| `PacketProofs!PacketTypeCorrect` | `Spec => []TypeOK` |
| `PacketProofs!BufferHoldsCorrect` | `Spec => []BufferHolds` |
| `PacketProofs!ContentCorrect` | `Spec => []ContentSurvives` |
| `PacketProofs!HeaderCorrect` | `Spec => []HeaderSurvives` |

Those of the login hold for any sets of clients and strings, any accounts, any
requests, any faults, from the assumptions `NetAssumption`, `ServerAssumption` and
`ClientAssumption` alone; those of the chat session for any clients, any size of the
descriptor table, any leftover bits, any width of a word of the set and any number of
messages, from
`SessionAssumption`; those of the token tables for any servers, names, tokens and
children, any life of a token, any length of the queue and any number of repeats, from
`TableAssumption` and `HandoffAssumption`; those of the match server for a queue of any
capacity, packets of any size, any number of datagrams and any ratings, from
`PipelineAssumption` and `RosterAssumption`; those of the sockets for lists of any length
and any objects, ports and peers, from `SetupAssumption` and `ObjectsAssumption`; those of
the graphs for any graphs and points, any size of the id counter and any number of
vertices and edges, from `GraphAssumption` and `CoordinatesSmall`; those of the packets
for any of the fourteen classes, any choice of the tail and any number of packets, from
`WireAssumption`.

Three theorems have one hypothesis more, `LoginsOnly`: no user asks for a signup. It is
what makes them true, not what makes them provable: `LookupSwap` is two logins beside a
signup, where all three fail. Any number of clients, requests, accounts and faults is
left, and `LoginsThree` is an instance of it. What the three say is about literal names;
the names that are not may be sent by anybody, beside them.

* Types. `TypeOK` is not inductive: an action that updates `tunnel[peer[c]]` keeps
  its type only if `peer[c]` is a client. `TypeInv` adds `HasPeer`: a child that has
  come as far as the handshake has a peer.
* Ports. `ServicesSerial` rests on where the port numbers come from. `PortInv` joins
  `ListenersLive` with `FreshCounters` (the parent never bumps its counters, so a
  child that has not taken a port still has the first ones) and `PortsByService` (a
  child that binds or listens has 14000 for a login, 13000 for a signup). That the
  child of a connection starts once needs `BacklogInv`: a queued client has no child
  yet, and no client is queued twice. `ServicesSerial` follows: children of one
  service have one port, and one port has one listener.
* Tunnels. Nothing in the code ties a tunnel to the child that announced the port: the
  child takes whoever connected first. `TunnelUnshared` still holds, by a count that no
  variable keeps. A child announces at most one port in its life, so at most one port
  value is ever on the way to a client, in its hands, or used (`TunnelInv` spells out
  where); a client therefore dials a port that listens at most once, however often its
  user types, and is in one queue or with one child. `NoSecondTunnel` is the same about
  a step: the second request of a client never gets a tunnel.
* Logins only. Three layers, each inductive over the one below. `LoginsInv`: no signup
  child gets a tunnel. One may still be *started*, by a client that dies and leaves its
  child with a request code nobody sent, so the layer is about who can reach port 13000.
  `RowsInv`: the children that hold port 14000 use the database connection one at a time
  (`ServicesSerial`), so at most one query is out and its reply is read by the child that
  asked. `TalkInv`: what a child holds is what its peer wrote, step by step of
  `login_user`, so that the row compared is the row of the name that was typed, if that
  name is literal. The refinement follows step by step: a client that takes its token is a
  `Grant`, one that goes on to type its next request a `Leave`, all else a stutter.
* Database. The invariant follows the code path to the destructor: request codes on
  the way are 0 or 1 (`CodesSent`), a child that has not read one has `svc = -1`
  (`Unserved`), and a child about to break has lost its client (`BreakInv`).

* Chat session. `ChatInv` joins `TypeOK` and `DescriptorsLive` with `QueueInv`: a
  connection that waits to be accepted waits once and has no descriptor, so the
  lowest free descriptor that `accept` gives is given to one client only. What a set may
  hold of leftover bits is settled by two lemmas about `select`: it gives back a part of
  what it watched (`SelectShrinks`), and what it does not touch lies above `max_fd`
  (`UntouchedAbove`). For
  `DroppedForever`, `ScanInv` says that `max_fd` covers every open descriptor and
  that nothing is left to visit between two scans. For `RelayedInOrder`, `StreamInv`
  says that the numbers a receiver has of a sender are below those still waiting at
  the sender's descriptor; with one descriptor per client, a piece never goes back to
  the client it came from.

* Token tables. `UsersQueued` is inductive with the types: who is inserted is also
  queued, and who is popped is also erased. `FreshAfterScrub` does not follow from it:
  `scrub_list` stops at the first entry that has not expired, and only `Sorted` says
  that those behind it have not either. A new entry has the longest time left of all, and
  time passes for all entries alike, so the queue stays sorted. `ScrubKeeps` joins the
  two for one queue; the steps of the other server, of the hand-over and of the clock
  leave a table alone or keep its order.

* Match server. What the properties say of the queue comes from the acceptor's buffer:
  `Layered` says of the buffer (`BufferInv`) and of every packet (`QueueInv`) that no byte
  is newer than those before it and that the last one is zero. `NotAhead` (what is queued
  is no newer than the last datagram, and older before that one is pushed, unless a
  receive failed) makes `QueuedInOrder` inductive, and `Behind` (the converter is behind
  the queue) gives `NeverGoesBack`. `RosterInv` carries what the average must not lose:
  the first client is a weakest one as long as there is a rating, and there is a
  strongest one; `MovesTowards` is the arithmetic of the division.

* Sockets. `Progress` says what a running function holds at each place: before the list,
  between two addresses with no descriptor, on a descriptor with the calls that
  succeeded the first of those to be made (`Begun`), or before `listen` with the list
  freed. `SetupTable` is the one lemma that looks at the sixteen records. `Addressed` and
  `LengthWritten` say what an object sends to by what it has heard and whether its
  length was written, for the objects that are not `wide`; `PortLost` follows from `PortsOnce`.

* Navigation graph. `Ahead` is the invariant the ids need: the id of a vertex is never
  below its place, and the distance never shrinks towards the end of the vector. So a
  graph whose last vertex has its place for id has all of them, and one whose last vertex
  has not throws before it answers. The searches loop over what they found; `Closest` is
  a function on turns, and that the result beats every turn is shown by taking the first
  turn at which it would not (`NatLessThanWellFounded`). The root is cut to an `int`, so
  a smaller cut root is not a smaller distance; `UnitNearer` is what the cut can hide at
  most, in squares.
* Packets. `WritesInside` and `ReadBack` are settled class by class, by expanding the
  fourteen layouts; everything else speaks of any class. A write that no later write
  covers is `Final`, and `Kept` says that the buffer holds all such writes of the current
  packet until the next one. `ContentFinal` and `GeneralFinal` say that the fields and
  the general header are among them, `FieldIs` that a reader whose tail is where it
  should be finds them. `TailOK` says where the tail is after each reader.

TLC checked the inductive invariants before they were proved: those of the tunnels on
the instance of `LoginTwo`, those of the logins on that of `LoginsThree` and on two
clients with two requests and all faults, that of the packets on `PacketsKept`.

Only model-checked: liveness (`FirstRequestReturns`, `PairedSessionEnds`,
`FirstTwoAccepted`, `HandoffEnds`, `EachProcessed`), which the proof system does not
handle, and `ImplementsAuth` for two clients one of whom may sign up. Every invariant and
every action property of a passing run is a theorem.

## 5. Plan

Done: the login server, its client and their composition with `AuthService`; the chat
session; the packets; the token tables and the hand-over; the match server; the sockets
and the set-up functions; the navigation graph; proofs of the safety of all of them.

Next:

1. the refinement of `AuthService` for two clients of any requests, where the
   connection is not shared by two logins;
2. an abstract room that loses messages, and the refinement of it by `ChatSession`;
3. an abstract registry of ports, and the refinement of it by `SocketObjects`.

## 6. Not modelled

* Terminal input and output, logging, the parameters of TLS, makefiles and object files.
* `change_password` and `create_session`, which are empty, and the transfers of
  `Secure_Socket`, which are too.
* The roster of the chat session (`addClient`, `removeClient`): two lists that nothing
  fills and the loop does not use. `Client::is_timed_out` has no caller.
* `parse_al_file` of the graph: `parse_vl_file` before it never returns. The constructor
  of a graph from a vector has no caller.
* `TCP_Socket`, which does not compile. (The match server's launcher does not compile as
  written either; the model takes its two threads for what they are meant to be.)
* The match queues of the match maker, which nothing touches.
* `src/Linear` beyond its socket set-up: its servers repeat those of `src/GameServer`,
  and its launcher only constructs them.
* The loop of the match client, which sends a packet every 17 ms for manual tests.
