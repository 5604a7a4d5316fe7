---------------------------- MODULE LoginClient ----------------------------
(***************************************************************************)
(* The login client program: it connects once and then runs its services   *)
(* loop, in which the user asks for a login or a signup, over and over on  *)
(* the same data connection.  One action per send, receive or connect.     *)
(***************************************************************************)
EXTENDS LoginNet

CONSTANTS
    Typed,        \* per client: the requests its user may type
    MaxRequests,  \* bound: requests typed per client
    MaxPending    \* MAXPENDING, the backlog of the server's listening socket

ClientRequests == [svc : {0, 1}, name : Strings, pw : Strings]

ASSUME ClientAssumption ==
    /\ Typed \in [Clients -> SUBSET ClientRequests]
    /\ MaxRequests \in Nat
    /\ MaxPending \in Nat \ {0}

VARIABLES
    pc,           \* per client: the call it is about to make
    want,         \* per client: the request its user typed last
    requests,     \* per client: how many requests its user typed
    dial,         \* per client: ssl_port, the port it read
    token         \* per client: the auth token of its last login

clientVars == <<pc, want, requests, dial, token>>

ClientPcs == {"start", "idle", "sendname", "ack0", "port", "dial", "handshake",
              "tellname", "ack1", "tellpw", "ack2", "token", "spin", "gone"}

ClientTypeOK ==
    /\ pc       \in [Clients -> ClientPcs]
    /\ want     \in [Clients -> ClientRequests]
    /\ requests \in [Clients -> 0..MaxRequests]
    /\ dial     \in [Clients -> Int]
    /\ token    \in [Clients -> Tokens \cup {None}]

ClientInit ==
    /\ pc       = [d \in Clients |-> "start"]
    /\ want     = [d \in Clients |-> [svc |-> 0, name |-> Empty, pw |-> Empty]]
    /\ requests = [d \in Clients |-> 0]
    /\ dial     = [d \in Clients |-> 0]
    /\ token    = [d \in Clients |-> None]

----------------------------------------------------------------------------

Move(d, s) == pc' = [pc EXCEPT ![d] = s]

\* main: the kernel completes the connection before the server accepts it.
Connect(d) ==
    /\ pc[d] = "start"
    /\ Len(backlog) < MaxPending
    /\ backlog' = Append(backlog, d)
    /\ Move(d, "idle")
    /\ UNCHANGED <<dataVars, gone, socketVars, streamVars, want, requests, dial, token>>

\* The services loop: read the user's choice, send the service code.
TypeRequest(d) ==
    /\ pc[d] = "idle"
    /\ requests[d] < MaxRequests
    /\ \E r \in Typed[d] :
          /\ want' = [want EXCEPT ![d] = r]
          /\ toServer' = [toServer EXCEPT ![d] = Append(@, [tag |-> "code", val |-> r.svc])]
          /\ Move(d, IF r.svc = 0 THEN "ack0" ELSE "sendname")
    /\ requests' = [requests EXCEPT ![d] = @ + 1]
    /\ token' = [token EXCEPT ![d] = None]
    /\ UNCHANGED <<backlog, toClient, gone, socketVars, streamVars, dial>>

\* A signup sends the name at once, over the data connection.
SendName(d) ==
    /\ pc[d] = "sendname"
    /\ toServer' = [toServer EXCEPT ![d] = Append(@, [tag |-> "name", val |-> want[d].name])]
    /\ Move(d, "ack0")
    /\ UNCHANGED <<backlog, toClient, gone, socketVars, streamVars, want, requests, dial, token>>

ReceiveShort(d) ==
    /\ toClient[d] # <<>>
    /\ toClient' = [toClient EXCEPT ![d] = Tail(@)]
    /\ UNCHANGED <<backlog, toServer, gone, socketVars, streamVars, want, requests, token>>

\* Both receives go into ssl_port, so the value of the first is lost.
ReceiveAck(d)  == pc[d] = "ack0" /\ ReceiveShort(d) /\ Move(d, "port") /\ UNCHANGED dial

ReceivePort(d) ==
    /\ pc[d] = "port"
    /\ ReceiveShort(d)
    /\ dial' = [dial EXCEPT ![d] = Head(toClient[d])]
    /\ Move(d, "dial")

Reachable(c, d) == c \in listening /\ port[c] = dial[d]

\* BIO_do_connect reaches whichever child listens on that port.
DialSecurePort(d) ==
    /\ pc[d] = "dial"
    /\ \E c \in Clients :
          /\ Reachable(c, d)
          /\ queue' = [queue EXCEPT ![c] = Append(@, d)]
    /\ tunnel' = [tunnel EXCEPT ![d] = "queued"]
    /\ Move(d, "handshake")
    /\ UNCHANGED <<backlog, dataVars, gone, port, listening, streamVars, want, requests, dial, token>>

DialRefused(d) ==
    /\ pc[d] = "dial"
    /\ \A c \in Clients : ~Reachable(c, d)
    /\ Move(d, "idle")
    /\ UNCHANGED <<netVars, want, requests, dial, token>>

SslConnect(d) ==
    /\ pc[d] = "handshake"
    /\ tunnel[d] = "open"
    /\ Move(d, IF want[d].svc = 0 THEN "tellname" ELSE "tellpw")
    /\ UNCHANGED <<netVars, want, requests, dial, token>>

\* The child has gone; or SSL_new fails before anything was said, or SSL_connect
\* does and tells the child.  Either way the client keeps its end open.
SslConnectFails(d) ==
    /\ pc[d] = "handshake"
    /\ \/ tunnel[d] = "closed" /\ UNCHANGED tunnel
       \/ /\ "ssl" \in Faults
          /\ tunnel[d] \in {"queued", "accepted"}
          /\ \E s \in {"left", "closed"} : tunnel' = [tunnel EXCEPT ![d] = s]
    /\ Move(d, "idle")
    /\ UNCHANGED <<backlog, dataVars, gone, port, listening, queue, streamVars,
                   want, requests, dial, token>>

\* What is written to a tunnel whose other end is closed is lost.
Write(d, s) ==
    /\ up' = IF tunnel[d] = "open" THEN [up EXCEPT ![d] = Append(@, s)] ELSE up
    /\ UNCHANGED <<backlog, dataVars, gone, socketVars, down, want, requests, dial, token>>

TellUsername(d) == pc[d] = "tellname" /\ Write(d, want[d].name) /\ Move(d, "ack1")
TellPassword(d) == pc[d] = "tellpw" /\ Write(d, want[d].pw) /\ Move(d, "ack2")

\* On a code other than 0 the function returns, its tunnel still open.
ReceiveNameAck(d) ==
    /\ pc[d] = "ack1"
    /\ ReceiveShort(d)
    /\ Move(d, IF Head(toClient[d]) = Success THEN "tellpw" ELSE "idle")
    /\ UNCHANGED dial

ReceivePasswordAck(d) ==
    /\ pc[d] = "ack2" /\ want[d].svc = 0
    /\ ReceiveShort(d)
    /\ Move(d, IF Head(toClient[d]) = Success THEN "token" ELSE "idle")
    /\ UNCHANGED dial

ReceiveSignupAck(d) ==
    /\ pc[d] = "ack2" /\ want[d].svc = 1
    /\ toClient[d] # <<>>
    /\ toClient' = [toClient EXCEPT ![d] = Tail(@)]
    /\ tunnel' = [tunnel EXCEPT ![d] = IF Head(toClient[d]) = Success THEN "closed" ELSE @]
    /\ Move(d, "idle")
    /\ UNCHANGED <<backlog, toServer, gone, port, listening, queue, streamVars,
                   want, requests, dial, token>>

ReadToken(d) ==
    /\ pc[d] = "token"
    /\ down[d] # <<>>
    /\ token' = [token EXCEPT ![d] = Head(down[d])]
    /\ down' = [down EXCEPT ![d] = Tail(@)]
    /\ tunnel' = [tunnel EXCEPT ![d] = "closed"]
    /\ Move(d, "idle")
    /\ UNCHANGED <<backlog, dataVars, gone, port, listening, queue, up, want, requests, dial>>

\* SSL_read fails, its result is added to total_bytes, the loop never ends.
ReadTokenEof(d) ==
    /\ pc[d] = "token"
    /\ down[d] = <<>>
    /\ tunnel[d] = "closed"
    /\ Move(d, "spin")
    /\ UNCHANGED <<netVars, want, requests, dial, token>>

\* The user interrupts the program, SIGPIPE ends it, or its host dies.
Crash(d) ==
    /\ "crash" \in Faults
    /\ pc[d] \notin {"start", "gone"}
    /\ gone' = gone \cup {d}
    /\ tunnel' = [tunnel EXCEPT ![d] = IF @ = "none" THEN @ ELSE "closed"]
    /\ Move(d, "gone")
    /\ UNCHANGED <<backlog, dataVars, port, listening, queue, streamVars,
                   want, requests, dial, token>>

----------------------------------------------------------------------------

\* The steps of the program itself; the user's typing and crashes apart.
ClientStep(d) ==
    \/ Connect(d) \/ SendName(d) \/ ReceiveAck(d) \/ ReceivePort(d)
    \/ DialSecurePort(d) \/ DialRefused(d) \/ SslConnect(d) \/ SslConnectFails(d)
    \/ TellUsername(d) \/ ReceiveNameAck(d) \/ TellPassword(d) \/ ReceivePasswordAck(d)
    \/ ReceiveSignupAck(d) \/ ReadToken(d) \/ ReadTokenEof(d)

============================================================================
