----------------------------- MODULE LoginNet -----------------------------
(***************************************************************************)
(* What the login server's processes and the login client share: the       *)
(* kernel's socket tables and the streams between the two programs.        *)
(*                                                                         *)
(* A client process opens one data connection to the server and keeps it   *)
(* for all its requests.  The server forks one child per connection, so a  *)
(* child is named by the client whose data connection it serves.  Within a *)
(* request the child opens a second listening socket (the secure port) and *)
(* the client a TLS connection (the tunnel) to that port; nothing in the   *)
(* code ties a tunnel to the child that announced the port.                *)
(***************************************************************************)
EXTENDS Integers, Sequences, FiniteSets

CONSTANTS
    Clients,      \* client processes, and the children that serve them
    Parent,       \* the server process that accepts and forks
    Strings,      \* user names and passwords
    Empty,        \* the empty string, what an unread buffer holds
    None,         \* no hash, no peer, no token
    Faults        \* the faults the environment may inject, see FaultKinds

\* slow: a name that arrives later than TIMEOUT; fork, bind, ssl, rng: that
\* call fails; crash: a client process or its host dies.
FaultKinds == {"slow", "fork", "bind", "ssl", "rng", "crash"}

ASSUME NetAssumption ==
    /\ Parent \notin Clients
    /\ None \notin Clients
    /\ Empty \in Strings
    /\ Faults \subseteq FaultKinds

VARIABLES
    backlog,      \* data connections the kernel completed, not yet accepted
    toServer,     \* per data connection: what the client sent
    toClient,     \* per data connection: the shorts the child sent
    gone,         \* clients whose process has ended
    port,         \* per child: the secure port it chose
    listening,    \* children whose secure listening socket is open
    queue,        \* per child: tunnels its listening socket holds
    tunnel,       \* per client: state of its TLS connection
    up,           \* per client: what it wrote into its tunnel
    down          \* per client: what was written to it through the tunnel

dataVars   == <<toServer, toClient>>
socketVars == <<port, listening, queue, tunnel>>
streamVars == <<up, down>>
netVars    == <<backlog, dataVars, gone, socketVars, streamVars>>

Messages == [tag : {"code"}, val : Int] \cup [tag : {"name"}, val : Strings]
Tokens   == [by : Clients, name : Strings]

\* A tunnel is queued once the kernel completed the connection, accepted once
\* a child popped it, open after the TLS handshake, closed when an end is gone;
\* left: its client has given up the handshake, with the connection still open.
TunnelStates == {"none", "queued", "accepted", "open", "left", "closed"}

NetTypeOK ==
    /\ backlog   \in Seq(Clients)
    /\ toServer  \in [Clients -> Seq(Messages)]
    /\ toClient  \in [Clients -> Seq(Int)]
    /\ gone      \in SUBSET Clients
    /\ port      \in [Clients -> Int]
    /\ listening \in SUBSET Clients
    /\ queue     \in [Clients -> Seq(Clients)]
    /\ tunnel    \in [Clients -> TunnelStates]
    /\ up        \in [Clients -> Seq(Strings)]
    /\ down      \in [Clients -> Seq(Tokens)]

NetInit ==
    /\ backlog   = <<>>
    /\ toServer  = [d \in Clients |-> <<>>]
    /\ toClient  = [d \in Clients |-> <<>>]
    /\ gone      = {}
    /\ port      = [c \in Clients |-> 0]
    /\ listening = {}
    /\ queue     = [c \in Clients |-> <<>>]
    /\ tunnel    = [d \in Clients |-> "none"]
    /\ up        = [d \in Clients |-> <<>>]
    /\ down      = [d \in Clients |-> <<>>]

Waiting(c, d) == \E i \in DOMAIN queue[c] : queue[c][i] = d

\* The address family, the interface and SO_REUSEADDR aside, a port is free
\* when no other process listens on it.
PortFree(p) == \A c \in listening : port[c] # p

\* Short integers on the data connection.
Success    == 0
Failure    == 1
Proceed    == 1        \* the ACK that answers a request code
TimedOut   == 65535    \* htons(-1), as ntohs reads it back

\* What hash_SHA_256 does: equal hashes only for equal strings.
Hash(s) == <<"sha256", s>>
Hashes  == {Hash(s) : s \in Strings}

===========================================================================
