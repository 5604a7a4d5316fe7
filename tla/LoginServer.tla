---------------------------- MODULE LoginServer ----------------------------
(***************************************************************************)
(* The login server: a parent process that accepts data connections and    *)
(* forks a child for each, and the children, each of which reads one       *)
(* request, serves it and exits.  All processes share the one MySQL        *)
(* connection that the constructor opened before the first fork.           *)
(*                                                                         *)
(* One action per blocking call of a child, with what the code does up to  *)
(* the next one.                                                           *)
(***************************************************************************)
EXTENDS LoginNet

CONSTANTS
    MaxFds,       \* data connections the parent's descriptor table can hold
    Registered,   \* accounts in the credentials table at start: name -> hash
    Literal       \* names that mean themselves when pasted into a query

ASSUME ServerAssumption ==
    /\ MaxFds \in Nat \ {0}
    /\ Literal \subseteq Strings
    /\ Registered \in [Strings -> Hashes \cup {None}]

VARIABLES
    held,         \* data connections open in the parent (it never closes one)
    cpc,          \* per child: the call it is about to make
    next,         \* per process: its own copy of the two port counters
    svc,          \* per child: the request code it read
    peer,         \* per child: the client at the other end of its tunnel
    uname,        \* per child: uname_buffer
    pass,         \* per child: the password a signup received
    row,          \* per child: the row its lookup returned
    dbUp,         \* the shared MySQL connection is open
    replies,      \* the replies in that connection nobody has read yet
    accounts      \* the credentials table

localVars  == <<svc, peer, uname, pass, row>>
parentVars == <<backlog, held>>
dbVars     == <<dbUp, replies, accounts>>
serverVars == <<held, cpc, next, localVars, dbVars>>

ChildPcs == {"none", "code", "break", "name", "announce", "bind", "accept",
             "handshake", "uname", "lookup", "row", "password", "token",
             "cleanup", "insert", "result", "spin", "exited"}

Counters   == [login : Int, registration : Int]
ReplyKinds == {"row", "empty", "ok", "error"}
Replies    == [kind : ReplyKinds, name : Strings, hash : Hashes \cup {None}]

ServerTypeOK ==
    /\ held     \in SUBSET Clients
    /\ cpc      \in [Clients -> ChildPcs]
    /\ next     \in [Clients \cup {Parent} -> Counters]
    /\ svc      \in [Clients -> Int]
    /\ peer     \in [Clients -> Clients \cup {None}]
    /\ uname    \in [Clients -> Strings]
    /\ pass     \in [Clients -> Strings]
    /\ row      \in [Clients -> Replies \cup {None}]
    /\ dbUp     \in BOOLEAN
    /\ replies  \in Seq(Replies)
    /\ accounts \in [Strings -> Hashes \cup {None}]

FirstPorts == [login |-> 14000, registration |-> 13000]

ServerInit ==
    /\ held     = {}
    /\ cpc      = [c \in Clients |-> "none"]
    /\ next     = [p \in Clients \cup {Parent} |-> FirstPorts]
    /\ svc      = [c \in Clients |-> -1]
    /\ peer     = [c \in Clients |-> None]
    /\ uname    = [c \in Clients |-> Empty]
    /\ pass     = [c \in Clients |-> Empty]
    /\ row      = [c \in Clients |-> None]
    /\ dbUp     = TRUE
    /\ replies  = <<>>
    /\ accounts = Registered

----------------------------------------------------------------------------
(* Helpers: where a child goes next, and what its exit takes with it.      *)

Stay(c, pc) ==
    /\ cpc' = [cpc EXCEPT ![c] = pc]
    /\ UNCHANGED <<listening, queue, tunnel>>

\* The kernel closes what the process had open: its secure listening socket,
\* the tunnels queued there and its own tunnel.
CloseSecure(c) ==
    /\ listening' = listening \ {c}
    /\ queue' = [queue EXCEPT ![c] = <<>>]
    /\ tunnel' = [d \in Clients |->
                    IF d = peer[c] \/ Waiting(c, d) THEN "closed" ELSE tunnel[d]]

\* return false, an uncaught exception, SIGPIPE: the child's process ends.
Exit(c) ==
    /\ cpc' = [cpc EXCEPT ![c] = "exited"]
    /\ CloseSecure(c)

\* After a send to the client: go on, or be killed by SIGPIPE if the client
\* has gone (the first send after that is still accepted by the kernel).
GoOn(c, pc) == Stay(c, pc) \/ (c \in gone /\ Exit(c))

Tell(c, short) == toClient' = [toClient EXCEPT ![c] = Append(@, short)]

\* Nothing left to read and nobody left to write.
ClientEof(c) == c \in gone /\ toServer[c] = <<>>
TunnelEof(c) == up[peer[c]] = <<>> /\ tunnel[peer[c]] = "closed"

----------------------------------------------------------------------------
(* The parent.                                                             *)

TakeConnection ==
    /\ backlog # <<>>
    /\ Cardinality(held) < MaxFds
    /\ held' = held \cup {Head(backlog)}
    /\ backlog' = Tail(backlog)

\* The child starts with a copy of the parent's memory, counters included.
AcceptConnection ==
    /\ TakeConnection
    /\ next' = [next EXCEPT ![Head(backlog)] = next[Parent]]
    /\ cpc' = [cpc EXCEPT ![Head(backlog)] = "code"]
    /\ UNCHANGED <<dataVars, gone, socketVars, streamVars, localVars, dbVars>>

\* fork returns -1, which is not 0: the parent goes back to accept.
AcceptForkFails ==
    /\ "fork" \in Faults
    /\ TakeConnection
    /\ UNCHANGED <<dataVars, gone, socketVars, streamVars, cpc, next, localVars, dbVars>>

----------------------------------------------------------------------------
(* Reading the request.                                                    *)

ServiceOf(code) ==
    CASE code = 0  -> "announce"
      [] code = 1  -> "name"
      [] code = -1 -> "break"
      [] OTHER     -> "cleanup"

StartRequest(c, code) ==
    /\ cpc[c] = "code"
    /\ svc' = [svc EXCEPT ![c] = code]
    /\ Tell(c, Proceed)
    /\ Stay(c, ServiceOf(code))
    /\ UNCHANGED <<parentVars, gone, port, streamVars, next, peer, uname, pass, row, dbVars>>

ReadCode(c) ==
    /\ toServer[c] # <<>>
    /\ Head(toServer[c]).tag = "code"
    /\ toServer' = [toServer EXCEPT ![c] = Tail(@)]
    /\ StartRequest(c, Head(toServer[c]).val)

\* recv returns 0 and leaves request_code as it was: any value.
GarbageCodes == {0, 1, 2, -1}
ReadCodeEof(c) ==
    /\ ClientEof(c)
    /\ \E code \in GarbageCodes : StartRequest(c, code)
    /\ UNCHANGED toServer

\* recv reports that the connection was reset.
ReadCodeFails(c) ==
    /\ cpc[c] = "code"
    /\ c \in gone
    /\ Tell(c, 0)
    /\ Stay(c, "break")
    /\ UNCHANGED <<parentVars, gone, toServer, port, streamVars, next, localVars, dbVars>>

\* The code arrived, but the ACK meets a connection that was reset.
SendAckFails(c) ==
    /\ cpc[c] = "code"
    /\ toServer[c] # <<>>
    /\ c \in gone
    /\ toServer' = [toServer EXCEPT ![c] = Tail(@)]
    /\ Stay(c, "break")
    /\ UNCHANGED <<parentVars, gone, toClient, port, streamVars, next, localVars, dbVars>>

\* The child leaves the service loop, returns from start and main, and the
\* destructor closes the MySQL connection it shares with every process.
BreakOut(c) ==
    /\ cpc[c] = "break"
    /\ Exit(c)
    /\ dbUp' = FALSE
    /\ UNCHANGED <<parentVars, gone, dataVars, port, streamVars, next, localVars, replies, accounts>>

\* A signup's name comes over the data connection; a name that arrives late
\* makes the child report a timeout, and then go on all the same.
ReadName(c) ==
    /\ cpc[c] = "name"
    /\ toServer[c] # <<>>
    /\ Head(toServer[c]).tag = "name"
    /\ uname' = [uname EXCEPT ![c] = Head(toServer[c]).val]
    /\ toServer' = [toServer EXCEPT ![c] = Tail(@)]
    /\ \/ UNCHANGED toClient
       \/ "slow" \in Faults /\ Tell(c, TimedOut)
    /\ GoOn(c, "announce")
    /\ UNCHANGED <<parentVars, gone, port, streamVars, next, svc, peer, pass, row, dbVars>>

\* recv returns 0 and leaves namelen as it was: if that is not positive the
\* name is empty, otherwise the loop sends until SIGPIPE ends it.
ReadNameEof(c) ==
    /\ cpc[c] = "name"
    /\ ClientEof(c)
    /\ GoOn(c, "announce")
    /\ UNCHANGED <<parentVars, gone, dataVars, port, streamVars, next, localVars, dbVars>>

----------------------------------------------------------------------------
(* The secure port.                                                        *)

Bump(n) == IF n + 1 <= 14000 THEN 13000 ELSE n + 1

\* The variant in which all children share the parent's counters.
SharedCounterPort(c, which) ==
    /\ port' = [port EXCEPT ![c] = next[Parent][which]]
    /\ next' = [next EXCEPT ![Parent][which] = Bump(@)]

ChoosePort(c, which) ==
    /\ port' = [port EXCEPT ![c] = next[c][which]]
    /\ next' = [next EXCEPT ![c][which] = Bump(@)]

Announce(c, which) ==
    /\ cpc[c] = "announce"
    /\ ChoosePort(c, which)
    /\ Tell(c, port'[c])
    /\ GoOn(c, "bind")
    /\ UNCHANGED <<parentVars, gone, toServer, streamVars, localVars, dbVars>>

AnnounceLoginPort(c)  == svc[c] = 0 /\ Announce(c, "login")
AnnounceSignupPort(c) == svc[c] = 1 /\ Announce(c, "registration")

\* The variant with SO_REUSEPORT, which lets several processes share a port.
BindSharedPort(c) ==
    /\ cpc[c] = "bind"
    /\ listening' = listening \cup {c}
    /\ cpc' = [cpc EXCEPT ![c] = "accept"]
    /\ UNCHANGED <<parentVars, gone, dataVars, port, queue, tunnel, streamVars, next, localVars,
                   dbVars>>

\* The first BIO_do_accept binds and listens.
BindSecurePort(c) ==
    /\ cpc[c] = "bind"
    /\ PortFree(port[c])
    /\ listening' = listening \cup {c}
    /\ cpc' = [cpc EXCEPT ![c] = "accept"]
    /\ UNCHANGED <<parentVars, gone, dataVars, port, queue, tunnel, streamVars, next, localVars, dbVars>>

\* The port is taken, or still in TIME_WAIT.
BindFails(c) ==
    /\ cpc[c] = "bind"
    /\ ~PortFree(port[c]) \/ "bind" \in Faults
    /\ Exit(c)
    /\ UNCHANGED <<parentVars, gone, dataVars, port, streamVars, next, localVars, dbVars>>

\* The variant that leaves the tunnel it took in the queue.
AcceptTunnelKeepsQueue(c) ==
    /\ cpc[c] = "accept"
    /\ queue[c] # <<>>
    /\ peer' = [peer EXCEPT ![c] = Head(queue[c])]
    /\ tunnel' = [tunnel EXCEPT ![Head(queue[c])] = IF @ = "queued" THEN "accepted" ELSE @]
    /\ cpc' = [cpc EXCEPT ![c] = "handshake"]
    /\ UNCHANGED <<parentVars, gone, dataVars, port, listening, queue, streamVars, next,
                   svc, uname, pass, row, dbVars>>

\* The second BIO_do_accept takes whoever connected to the port first.
AcceptTunnel(c) ==
    /\ cpc[c] = "accept"
    /\ queue[c] # <<>>
    /\ peer' = [peer EXCEPT ![c] = Head(queue[c])]
    /\ queue' = [queue EXCEPT ![c] = Tail(@)]
    /\ tunnel' = [tunnel EXCEPT ![Head(queue[c])] = IF @ = "queued" THEN "accepted" ELSE @]
    /\ cpc' = [cpc EXCEPT ![c] = "handshake"]
    /\ UNCHANGED <<parentVars, gone, dataVars, port, listening, streamVars, next,
                   svc, uname, pass, row, dbVars>>

SslAccept(c) ==
    /\ cpc[c] = "handshake"
    /\ tunnel[peer[c]] = "accepted"
    /\ tunnel' = [tunnel EXCEPT ![peer[c]] = "open"]
    /\ cpc' = [cpc EXCEPT ![c] = IF svc[c] = 0 THEN "uname" ELSE "password"]
    /\ UNCHANGED <<parentVars, gone, dataVars, port, listening, queue, streamVars,
                   next, localVars, dbVars>>

\* With a client that has given up in silence, the child waits for ever.
SslAcceptFails(c) ==
    /\ cpc[c] = "handshake"
    /\ tunnel[peer[c]] = "closed" \/ (tunnel[peer[c]] = "accepted" /\ "ssl" \in Faults)
    /\ Exit(c)
    /\ UNCHANGED <<parentVars, gone, dataVars, port, streamVars, next, localVars, dbVars>>

----------------------------------------------------------------------------
(* The shared MySQL connection.  The server answers in the order of the    *)
(* queries; whichever process reads next gets the next reply.              *)

RowOf(n) == IF accounts[n] = None
              THEN [kind |-> "empty", name |-> n, hash |-> None]
              ELSE [kind |-> "row", name |-> n, hash |-> accounts[n]]

\* The query is made by pasting the name between quotes.  A name that is not
\* literal changes its meaning: the answer may be any row, none, or an error.
LookupReplies(n) ==
    IF n \in Literal
      THEN {RowOf(n)}
      ELSE [kind : {"row"}, name : Strings, hash : Hashes]
              \cup [kind : {"empty", "error"}, name : {n}, hash : {None}]

Ask(reply) == dbUp /\ replies' = Append(replies, reply) /\ UNCHANGED dbUp

TakeReply == replies # <<>> /\ replies' = Tail(replies) /\ UNCHANGED <<dbUp, accounts>>

----------------------------------------------------------------------------
(* Login, over the tunnel.                                                 *)

TakeTunnelMessage(c) ==
    /\ up[peer[c]] # <<>>
    /\ up' = [up EXCEPT ![peer[c]] = Tail(@)]

ReadUsername(c) ==
    /\ cpc[c] = "uname"
    /\ TakeTunnelMessage(c)
    /\ uname' = [uname EXCEPT ![c] = Head(up[peer[c]])]
    /\ Stay(c, "lookup")
    /\ UNCHANGED <<parentVars, gone, dataVars, port, down, next, svc, peer, pass, row, dbVars>>

\* SSL_read fails and leaves namelen as it was: an empty name, or a loop that
\* never ends.
ReadUsernameEof(c) ==
    /\ cpc[c] = "uname"
    /\ TunnelEof(c)
    /\ Stay(c, "lookup") \/ Stay(c, "spin")
    /\ UNCHANGED <<parentVars, gone, dataVars, port, streamVars, next, localVars, dbVars>>

\* The variant whose query has lost its WHERE clause.
LookupFirstRow(c) ==
    /\ cpc[c] = "lookup"
    /\ \E n \in Strings : accounts[n] # None /\ Ask(RowOf(n))
    /\ Stay(c, "row")
    /\ UNCHANGED <<parentVars, gone, dataVars, port, streamVars, next, localVars, accounts>>

LookupUser(c) ==
    /\ cpc[c] = "lookup"
    /\ \E r \in LookupReplies(uname[c]) : Ask(r)
    /\ Stay(c, "row")
    /\ UNCHANGED <<parentVars, gone, dataVars, port, streamVars, next, localVars, accounts>>

\* The connection is lost: executeQuery throws, nobody catches.
LookupFails(c) ==
    /\ cpc[c] = "lookup" \/ (cpc[c] = "row" /\ replies = <<>>)
    /\ ~dbUp
    /\ Exit(c)
    /\ UNCHANGED <<parentVars, gone, dataVars, port, streamVars, next, localVars, dbVars>>

\* The variant that forgets to tell the client that its name was found.
ReadRowSilently(c) ==
    /\ cpc[c] = "row"
    /\ TakeReply
    /\ Head(replies).kind = "row"
    /\ row' = [row EXCEPT ![c] = Head(replies)]
    /\ GoOn(c, "password")
    /\ UNCHANGED <<parentVars, gone, dataVars, port, streamVars, next, svc, peer, uname, pass>>

\* The variant that takes the name for the hash.
ReadRowWrongColumn(c) ==
    /\ cpc[c] = "row"
    /\ TakeReply
    /\ Head(replies).kind = "row"
    /\ row' = [row EXCEPT ![c] = [Head(replies) EXCEPT !.hash = Head(replies).name]]
    /\ Tell(c, Success)
    /\ GoOn(c, "password")
    /\ UNCHANGED <<parentVars, gone, toServer, port, streamVars, next, svc, peer, uname, pass>>

ReadRow(c) ==
    /\ cpc[c] = "row"
    /\ TakeReply
    /\ Head(replies).kind = "row"
    /\ row' = [row EXCEPT ![c] = Head(replies)]
    /\ Tell(c, Success)
    /\ GoOn(c, "password")
    /\ UNCHANGED <<parentVars, gone, toServer, port, streamVars, next, svc, peer, uname, pass>>

\* The variant that returns without an answer.
ReadNoRowSilently(c) ==
    /\ cpc[c] = "row"
    /\ TakeReply
    /\ Head(replies).kind = "empty"
    /\ Exit(c)
    /\ UNCHANGED <<parentVars, gone, dataVars, port, streamVars, next, localVars>>

ReadNoRow(c) ==
    /\ cpc[c] = "row"
    /\ TakeReply
    /\ Head(replies).kind = "empty"
    /\ Tell(c, Failure)
    /\ Exit(c)
    /\ UNCHANGED <<parentVars, gone, toServer, port, streamVars, next, localVars>>

\* No result set, but the server's error, or the reply to somebody's INSERT:
\* executeQuery throws, nobody catches.
LookupThrows(c) ==
    /\ cpc[c] = "row"
    /\ TakeReply
    /\ Head(replies).kind \in {"ok", "error"}
    /\ Exit(c)
    /\ UNCHANGED <<parentVars, gone, dataVars, port, streamVars, next, localVars>>

\* The variant that only asks whether the row has a hash.
HashPresent(c, s) == row[c].hash # None
HashMatches(c, s) == row[c].hash = Hash(s)

ComparePassword(c, s) ==
    \/ HashMatches(c, s)  /\ Tell(c, Success) /\ GoOn(c, "token")
    \/ ~HashMatches(c, s) /\ Tell(c, Failure) /\ Exit(c)

CheckPassword(c) ==
    /\ cpc[c] = "password" /\ svc[c] = 0
    /\ TakeTunnelMessage(c)
    /\ ComparePassword(c, Head(up[peer[c]]))
    /\ UNCHANGED <<parentVars, gone, toServer, port, down, next, localVars, dbVars>>

CheckPasswordEof(c) ==
    /\ cpc[c] = "password" /\ svc[c] = 0
    /\ TunnelEof(c)
    /\ \/ ComparePassword(c, Empty)
       \/ Stay(c, "spin") /\ UNCHANGED toClient
    /\ UNCHANGED <<parentVars, gone, toServer, port, streamVars, next, localVars, dbVars>>

SendToken(c) ==
    /\ cpc[c] = "token"
    /\ down' = [down EXCEPT ![peer[c]] = Append(@, [by |-> c, name |-> uname[c]])]
    /\ Stay(c, "cleanup")
    /\ UNCHANGED <<parentVars, gone, dataVars, port, up, next, localVars, dbVars>>

RngFails(c) ==
    /\ cpc[c] = "token" /\ "rng" \in Faults
    /\ Exit(c)
    /\ UNCHANGED <<parentVars, gone, dataVars, port, streamVars, next, localVars, dbVars>>

\* The variant in which a child returns from main instead of calling exit.
CloseSessionRunsDestructor(c) ==
    /\ cpc[c] = "cleanup"
    /\ Exit(c)
    /\ dbUp' = FALSE
    /\ UNCHANGED <<parentVars, gone, dataVars, port, streamVars, next, localVars, replies, accounts>>

\* close(data_conn) closes the child's descriptor; the parent's stays open.
CloseSession(c) ==
    /\ cpc[c] = "cleanup"
    /\ Exit(c)
    /\ UNCHANGED <<parentVars, gone, dataVars, port, streamVars, next, localVars, dbVars>>

----------------------------------------------------------------------------
(* Signup.  recv_password frees the tunnel and the port before the INSERT. *)

KeepPassword(c, s) ==
    /\ pass' = [pass EXCEPT ![c] = s]
    /\ cpc' = [cpc EXCEPT ![c] = "insert"]
    /\ CloseSecure(c)

ReceivePassword(c) ==
    /\ cpc[c] = "password" /\ svc[c] = 1
    /\ TakeTunnelMessage(c)
    /\ KeepPassword(c, Head(up[peer[c]]))
    /\ UNCHANGED <<parentVars, gone, dataVars, port, down, next, svc, peer, uname, row, dbVars>>

ReceivePasswordEof(c) ==
    /\ cpc[c] = "password" /\ svc[c] = 1
    /\ TunnelEof(c)
    /\ \/ KeepPassword(c, Empty)
       \/ Stay(c, "spin") /\ UNCHANGED pass
    /\ UNCHANGED <<parentVars, gone, dataVars, port, streamVars, next, svc, peer, uname, row, dbVars>>

\* MySQL refuses a second row for the same username.
NameTaken(n) == accounts[n] # None

InsertAccount(c) ==
    /\ cpc[c] = "insert"
    /\ \/ /\ ~NameTaken(uname[c])
          /\ Ask([kind |-> "ok", name |-> uname[c], hash |-> None])
          /\ accounts' = [accounts EXCEPT ![uname[c]] = Hash(pass[c])]
       \/ /\ NameTaken(uname[c])
          /\ Ask([kind |-> "error", name |-> uname[c], hash |-> None])
          /\ UNCHANGED accounts
    /\ Stay(c, "result")
    /\ UNCHANGED <<parentVars, gone, dataVars, port, streamVars, next, localVars>>

\* execute returns or throws; a result set it did not ask for does either.
ResultCodes(kind) ==
    CASE kind = "ok"    -> {Success}
      [] kind = "error" -> {Failure}
      [] OTHER          -> {Success, Failure}

AcknowledgeSignup(c) ==
    /\ cpc[c] = "result"
    /\ TakeReply
    /\ \E code \in ResultCodes(Head(replies).kind) : Tell(c, code)
    /\ Exit(c)
    /\ UNCHANGED <<parentVars, gone, toServer, port, streamVars, next, localVars>>

\* The exception that a lost connection raises is caught here.
InsertFails(c) ==
    /\ cpc[c] = "insert" \/ (cpc[c] = "result" /\ replies = <<>>)
    /\ ~dbUp
    /\ Tell(c, Failure)
    /\ Exit(c)
    /\ UNCHANGED <<parentVars, gone, toServer, port, streamVars, next, localVars, dbVars>>

----------------------------------------------------------------------------

Request(c) == ReadCode(c) \/ ReadCodeEof(c) \/ ReadCodeFails(c) \/ SendAckFails(c) \/ BreakOut(c)
SecurePort(c) ==
    \/ AnnounceLoginPort(c) \/ AnnounceSignupPort(c) \/ BindSecurePort(c) \/ BindFails(c)
    \/ AcceptTunnel(c) \/ SslAccept(c) \/ SslAcceptFails(c)
Login(c) ==
    \/ ReadUsername(c) \/ ReadUsernameEof(c) \/ LookupUser(c) \/ LookupFails(c)
    \/ ReadRow(c) \/ ReadNoRow(c) \/ LookupThrows(c)
    \/ CheckPassword(c) \/ CheckPasswordEof(c) \/ SendToken(c) \/ RngFails(c) \/ CloseSession(c)
Signup(c) ==
    \/ ReadName(c) \/ ReadNameEof(c) \/ ReceivePassword(c) \/ ReceivePasswordEof(c)
    \/ InsertAccount(c) \/ AcknowledgeSignup(c) \/ InsertFails(c)

Child(c) == Request(c) \/ SecurePort(c) \/ Login(c) \/ Signup(c)
ParentStep == AcceptConnection \/ AcceptForkFails

============================================================================
