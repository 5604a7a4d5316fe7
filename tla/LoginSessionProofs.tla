------------------------- MODULE LoginSessionProofs -------------------------
(***************************************************************************)
(* The sessions of a login server whose users only log in: every login     *)
(* under a literal name reads the row of that name, a token is given for   *)
(* the credentials the client typed, and the system implements             *)
(* AuthService.  None of this holds of two logins beside a signup, see the *)
(* run LookupSwap.                                                         *)
(*                                                                         *)
(* Three layers, each inductive over the one below it:                     *)
(*   - no signup child ever gets a tunnel.  One can still be started: a    *)
(*     client that dies leaves its child with a request code nobody sent;  *)
(*   - the children that hold the login port use the database connection   *)
(*     one at a time, so a reply is read by the child that asked for it;   *)
(*   - what a child holds is what its peer has written, step by step.      *)
(***************************************************************************)
EXTENDS LoginServerProofs, SequenceTheorems

LoginsOnly == \A d \in Clients : \A r \in Typed[d] : r.svc = 0

SignupPcs == {"name", "announce", "bind", "accept", "exited"}
LoginPcs  == {"uname", "lookup", "row", "password", "token"}
TunnelPcs == LoginPcs \cup {"accept", "handshake"}

----------------------------------------------------------------------------
(* No signup child ever gets a tunnel.                                     *)

\* A child has its socket open from bind on, and is a login or its client dead.
ServiceOK(c) ==
    /\ cpc[c] = "name" => svc[c] = 1
    /\ cpc[c] \notin {"insert", "result"}
    /\ cpc[c] \in TunnelPcs => c \in listening
    /\ cpc[c] \in LoginPcs => svc[c] = 0
    /\ svc[c] = 1 => c \in gone /\ cpc[c] \in SignupPcs
    /\ svc[c] = 1 \/ c \notin listening => queue[c] = <<>>

\* A client that could still dial knows of no signup port.
ClientOK(d) ==
    /\ want[d].svc = 0
    /\ d \in gone => pc[d] = "gone"
    /\ (\E i \in DOMAIN toClient[d] : toClient[d][i] = 13000) => d \in gone
    /\ pc[d] = "dial" => dial[d] # 13000

LoginsInv ==
    /\ CodesIn({0})
    /\ \A c \in Clients : ServiceOK(c)
    /\ \A d \in Clients : ClientOK(d)

\* What a step of child c leaves of the others.
OthersKept(c) ==
    \A b \in Clients \ {c} :
        /\ cpc'[b] = cpc[b] /\ svc'[b] = svc[b] /\ peer'[b] = peer[b] /\ queue'[b] = queue[b]
        /\ uname'[b] = uname[b] /\ row'[b] = row[b]
        /\ b \in listening' <=> b \in listening

\* A child's step changes its own variables only.
LEMMA ChildKeepsOthers == ASSUME NEW c \in Clients, TypeInv, Child(c) PROVE OthersKept(c)
<1> USE DEF OthersKept, Stay, GoOn, Exit, CloseSecure, localVars
<1>1. /\ cpc \in [Clients -> ChildPcs] /\ svc \in [Clients -> Int] /\ queue \in [Clients -> Seq(Clients)]
      /\ peer \in [Clients -> Clients \cup {None}] /\ uname \in [Clients -> Strings]
      /\ row \in [Clients -> Replies \cup {None}] /\ listening \in SUBSET Clients
  BY DEF TypeInv, TypeOK, NetTypeOK, ServerTypeOK
<1>2. ASSUME NEW code, StartRequest(c, code) PROVE OthersKept(c)
  BY <1>1, <1>2 DEF StartRequest
<1>3. CASE Request(c)
  BY <1>1, <1>2, <1>3 DEF Request, ReadCode, ReadCodeEof, ReadCodeFails, SendAckFails, BreakOut
<1>4. CASE SecurePort(c)
  BY <1>1, <1>4 DEF SecurePort, AnnounceLoginPort, AnnounceSignupPort, Announce, BindSecurePort,
                    BindFails, AcceptTunnel, SslAccept, SslAcceptFails
<1>5. CASE ReadUsername(c) \/ ReadUsernameEof(c) \/ LookupUser(c) \/ LookupFails(c)
  BY <1>1, <1>5 DEF ReadUsername, ReadUsernameEof, LookupUser, LookupFails
<1>6. CASE ReadRow(c) \/ ReadNoRow(c) \/ LookupThrows(c)
  BY <1>1, <1>6 DEF ReadRow, ReadNoRow, LookupThrows
<1>7. CASE CheckPassword(c) \/ CheckPasswordEof(c)
  BY <1>1, <1>7 DEF CheckPassword, CheckPasswordEof, ComparePassword
<1>8. CASE SendToken(c) \/ RngFails(c) \/ CloseSession(c)
  BY <1>1, <1>8 DEF SendToken, RngFails, CloseSession
<1>9. CASE Signup(c)
  BY <1>1, <1>9 DEF Signup, ReadName, ReadNameEof, ReceivePassword, ReceivePasswordEof, KeepPassword,
                    InsertAccount, AcknowledgeSignup, InsertFails
<1> QED BY <1>3, <1>4, <1>5, <1>6, <1>7, <1>8, <1>9 DEF Child, Login

\* So such a step need only be looked at where it takes place.
LEMMA OthersServed ==
    ASSUME NEW c \in Clients, NEW b \in Clients \ {c}, OthersKept(c), UNCHANGED gone, ServiceOK(b)
    PROVE  ServiceOK(b)'
BY DEF OthersKept, ServiceOK

\* A child that has shut down, in whatever way, has nothing left to get wrong.
LEMMA ExitServed ==
    ASSUME NEW c \in Clients, TypeInv, ServiceOK(c), Exit(c), UNCHANGED <<svc, gone>>
    PROVE  ServiceOK(c)'
BY DEF Exit, CloseSecure, ServiceOK, TunnelPcs, LoginPcs, SignupPcs, TypeInv, TypeOK, NetTypeOK, ServerTypeOK

\* The same for a child that stays with its sockets.
LEMMA StayServed ==
    ASSUME NEW c \in Clients, NEW s, TypeInv, ServiceOK(c), Stay(c, s), UNCHANGED <<svc, gone>>,
           s \notin {"name", "insert", "result"},
           s \in TunnelPcs => c \in listening,
           s \in LoginPcs => svc[c] = 0,
           svc[c] = 1 => s \in SignupPcs
    PROVE  ServiceOK(c)'
BY DEF Stay, ServiceOK, TypeInv, TypeOK, NetTypeOK, ServerTypeOK

\* The dispatch: the service of a signup is started for a dead client only.
LEMMA StartServed ==
    ASSUME NEW c \in Clients, NEW code \in Int, TypeInv, PortInv, ServiceOK(c), StartRequest(c, code),
           code = 1 => c \in gone, UNCHANGED gone
    PROVE  ServiceOK(c)'
<1>1. /\ cpc \in [Clients -> ChildPcs] /\ svc \in [Clients -> Int] /\ cpc[c] = "code"
      /\ cpc' = [cpc EXCEPT ![c] = ServiceOf(code)] /\ svc' = [svc EXCEPT ![c] = code]
      /\ UNCHANGED <<queue, listening>>
  BY DEF StartRequest, Stay, TypeInv, TypeOK, ServerTypeOK
<1>2. queue[c] = <<>>
  BY <1>1, NotListening DEF ServiceOK, ListenPcs
<1>3. /\ ServiceOf(code) \in {"announce", "name", "break", "cleanup"}
      /\ ServiceOf(code) = "name" <=> code = 1
  BY DEF ServiceOf
<1> QED BY <1>1, <1>2, <1>3 DEF ServiceOK, TunnelPcs, LoginPcs, SignupPcs

\* get_request_type.
LEMMA RequestServed ==
    ASSUME NEW c \in Clients, TypeInv, PortInv, LoginsInv, Request(c) PROVE ServiceOK(c)'
<1>0. ServiceOK(c) BY DEF LoginsInv
<1>1. CASE ReadCode(c)
  <2>1. Head(toServer[c]) = toServer[c][1] /\ 1 \in DOMAIN toServer[c]
    BY <1>1 DEF ReadCode, TypeInv, TypeOK, NetTypeOK
  <2>2. Head(toServer[c]).val = 0
    BY <1>1, <2>1 DEF ReadCode, LoginsInv, CodesIn
  <2>3. StartRequest(c, 0)
    BY <1>1, <2>2 DEF ReadCode
  <2>4. UNCHANGED gone
    BY <2>3 DEF StartRequest
  <2> QED BY <1>0, <2>3, <2>4, StartServed
<1>2. CASE ReadCodeEof(c)
  <2>1. PICK code \in {0, 1, 2, -1} : StartRequest(c, code)
    BY <1>2 DEF ReadCodeEof, GarbageCodes
  <2>2. c \in gone /\ UNCHANGED gone
    BY <1>2, <2>1 DEF ReadCodeEof, ClientEof, StartRequest
  <2> QED BY <1>0, <2>1, <2>2, StartServed
<1>3. CASE ReadCodeFails(c) \/ SendAckFails(c)
  <2>1. svc[c] # 1
    BY <1>0, <1>3 DEF ReadCodeFails, SendAckFails, ServiceOK, SignupPcs
  <2> QED
    BY <1>0, <1>3, <2>1, StayServed DEF ReadCodeFails, SendAckFails, localVars, TunnelPcs, LoginPcs
<1>4. CASE BreakOut(c)
  BY <1>0, <1>4, ExitServed DEF BreakOut, localVars
<1> QED BY <1>1, <1>2, <1>3, <1>4 DEF Request

\* The secure port: a signup child waits at its accept for ever.
LEMMA SecurePortServed ==
    ASSUME NEW c \in Clients, TypeInv, PortInv, ServiceOK(c), SecurePort(c) PROVE ServiceOK(c)'
<1>0. /\ cpc \in [Clients -> ChildPcs] /\ queue \in [Clients -> Seq(Clients)]
      /\ listening \in SUBSET Clients
  BY DEF TypeInv, TypeOK, NetTypeOK, ServerTypeOK
<1>1. CASE AnnounceLoginPort(c) \/ AnnounceSignupPort(c)
  BY <1>1, StayServed, ExitServed DEF AnnounceLoginPort, AnnounceSignupPort, Announce, GoOn, localVars,
     TunnelPcs, LoginPcs, SignupPcs
<1>2. CASE BindSecurePort(c)
  <2>1. queue[c] = <<>>
    BY <1>2, NotListening DEF BindSecurePort, ServiceOK, ListenPcs
  <2> QED BY <1>0, <1>2, <2>1 DEF BindSecurePort, localVars, ServiceOK, TunnelPcs, LoginPcs, SignupPcs
<1>3. CASE BindFails(c) \/ SslAcceptFails(c)
  BY <1>3, ExitServed DEF BindFails, SslAcceptFails, localVars
<1>4. CASE AcceptTunnel(c)
  BY <1>0, <1>4 DEF AcceptTunnel, ServiceOK, TunnelPcs, LoginPcs, SignupPcs
<1>5. CASE SslAccept(c)
  <2>1. c \in listening /\ svc[c] # 1
    BY <1>5 DEF SslAccept, ServiceOK, TunnelPcs, SignupPcs
  <2>2. svc[c] = 0
    BY <2>1 DEF PortInv, PortsByService, PortOfService
  <2> QED
    BY <1>0, <1>5, <2>1, <2>2 DEF SslAccept, localVars, ServiceOK, TunnelPcs, LoginPcs, SignupPcs
<1> QED BY <1>1, <1>2, <1>3, <1>4, <1>5 DEF SecurePort

\* login_user after the handshake.
LEMMA LoginServed ==
    ASSUME NEW c \in Clients, TypeInv, ServiceOK(c), Login(c) PROVE ServiceOK(c)'
<1>1. cpc[c] \in LoginPcs => c \in listening /\ svc[c] = 0
  BY DEF ServiceOK, TunnelPcs
<1> USE DEF localVars, LoginPcs, TunnelPcs, GoOn
<1>2. CASE ReadUsername(c) \/ ReadUsernameEof(c) \/ LookupUser(c)
  BY <1>1, <1>2, StayServed DEF ReadUsername, ReadUsernameEof, LookupUser
<1>3. CASE LookupFails(c) \/ ReadNoRow(c) \/ LookupThrows(c) \/ RngFails(c) \/ CloseSession(c)
  BY <1>3, ExitServed DEF LookupFails, ReadNoRow, LookupThrows, RngFails, CloseSession
<1>4. CASE ReadRow(c)
  BY <1>1, <1>4, StayServed, ExitServed DEF ReadRow
<1>5. CASE CheckPassword(c) \/ CheckPasswordEof(c)
  BY <1>1, <1>5, StayServed, ExitServed DEF CheckPassword, CheckPasswordEof, ComparePassword
<1>6. CASE SendToken(c)
  BY <1>1, <1>6, StayServed DEF SendToken
<1> QED BY <1>2, <1>3, <1>4, <1>5, <1>6 DEF Login

\* signup_user: it gets no further than the port.
LEMMA SignupServed ==
    ASSUME NEW c \in Clients, TypeInv, PortInv, ServiceOK(c), Signup(c) PROVE ServiceOK(c)'
<1>1. CASE ReadName(c) \/ ReadNameEof(c)
  BY <1>1, StayServed, ExitServed DEF ReadName, ReadNameEof, GoOn, localVars, TunnelPcs, LoginPcs, SignupPcs
<1>2. CASE ReceivePassword(c) \/ ReceivePasswordEof(c)
  BY <1>2 DEF ReceivePassword, ReceivePasswordEof, ServiceOK, SignupPcs
<1>3. CASE InsertAccount(c) \/ AcknowledgeSignup(c)
  BY <1>3 DEF InsertAccount, AcknowledgeSignup, ServiceOK
<1>4. CASE InsertFails(c)
  BY <1>4 DEF InsertFails, ServiceOK
<1> QED BY <1>1, <1>2, <1>3, <1>4 DEF Signup

\* Only the child of a dead client announces the signup port.
LEMMA ChildTellsLogin ==
    ASSUME NEW c \in Clients, TypeInv, PortInv, ServiceOK(c), Child(c)
    PROVE  UNCHANGED toClient \/ \E n \in Int : Tell(c, n) /\ (n = 13000 => c \in gone)
<1>1. CASE cpc[c] = "announce" /\ svc[c] = 1
  <2>1. c \in gone BY <1>1 DEF ServiceOK
  <2> QED BY <2>1, ChildEffects DEF ChildEffect, ChildShorts, Ports
<1>2. CASE cpc[c] = "announce" /\ svc[c] # 1
  <2>1. CASE SecurePort(c)
    <3>1. AnnounceLoginPort(c)
      BY <1>2, <2>1 DEF SecurePort, AnnounceSignupPort, BindSecurePort, BindFails, AcceptTunnel,
                        SslAccept, SslAcceptFails
    <3>2. next[c] = FirstPorts
      BY <1>2 DEF PortInv, FreshCounters
    <3>3. port'[c] = 14000
      BY <3>1, <3>2 DEF AnnounceLoginPort, Announce, ChoosePort, FirstPorts, TypeInv, TypeOK, NetTypeOK
    <3> QED BY <3>1, <3>3 DEF AnnounceLoginPort, Announce
  <2>2. CASE Request(c)
    BY <1>2, <2>2 DEF Request, ReadCode, ReadCodeEof, StartRequest, ReadCodeFails, SendAckFails, BreakOut
  <2>3. CASE Login(c)
    BY <1>2, <2>3 DEF Login, ReadUsername, ReadUsernameEof, LookupUser, LookupFails, ReadRow, ReadNoRow,
                      LookupThrows, CheckPassword, CheckPasswordEof, SendToken, RngFails, CloseSession
  <2>4. CASE Signup(c)
    BY <1>2, <2>4 DEF Signup, ReadName, ReadNameEof, ReceivePassword, ReceivePasswordEof,
                      InsertAccount, AcknowledgeSignup, InsertFails
  <2> QED BY <2>1, <2>2, <2>3, <2>4 DEF Child
<1>3. CASE cpc[c] # "announce"
  BY <1>3, ChildEffects DEF ChildEffect, ChildShorts, Ports
<1> QED BY <1>1, <1>2, <1>3

\* A child takes messages off its data connection one by one.
LEMMA ChildReads ==
    ASSUME NEW c \in Clients, Child(c)
    PROVE  /\ UNCHANGED gone
           /\ \/ UNCHANGED toServer
              \/ toServer[c] # <<>> /\ toServer' = [toServer EXCEPT ![c] = Tail(@)]
<1>1. CASE Request(c)
  BY <1>1 DEF Request, ReadCode, ReadCodeEof, StartRequest, ReadCodeFails, SendAckFails, BreakOut, dataVars
<1>2. CASE SecurePort(c) \/ Login(c) \/ Signup(c)
  BY <1>2, ServiceServes DEF Serves
<1> QED BY <1>1, <1>2 DEF Child

\* Every step of a child keeps the first layer.
LEMMA ChildKeepsLogins ==
    ASSUME NEW c \in Clients, TypeInv, PortInv, LoginsInv, Child(c), UNCHANGED clientVars
    PROVE  LoginsInv'
<1>1. CodesIn({0})'
  <2>1. CASE UNCHANGED toServer
    BY <2>1 DEF LoginsInv, CodesIn
  <2> QED BY <2>1, ChildReads, TakeKeepsCodes DEF LoginsInv
<1>2. ASSUME NEW b \in Clients PROVE ServiceOK(b)'
  <2>1. CASE b = c
    BY <2>1, RequestServed, SecurePortServed, LoginServed, SignupServed DEF LoginsInv, Child
  <2>2. CASE b # c
    BY <2>2, ChildKeepsOthers, ChildReads, OthersServed DEF LoginsInv
  <2> QED BY <2>1, <2>2
<1>3. ASSUME NEW d \in Clients PROVE ClientOK(d)'
  <2>1. UNCHANGED <<gone, want, pc, dial>> /\ ClientOK(d) /\ ServiceOK(c)
    BY ChildReads DEF clientVars, LoginsInv
  <2>2. (\E i \in DOMAIN toClient'[d] : toClient'[d][i] = 13000) => d \in gone
    <3>1. CASE UNCHANGED toClient
      BY <2>1, <3>1 DEF ClientOK
    <3>2. ASSUME NEW n \in Int, Tell(c, n), n = 13000 => c \in gone,
                 NEW i \in DOMAIN toClient'[d], toClient'[d][i] = 13000
          PROVE  d \in gone
      <4>1. toClient \in [Clients -> Seq(Int)]
        BY DEF TypeInv, TypeOK, NetTypeOK
      <4>2. \/ d = c /\ n = 13000
            \/ i \in DOMAIN toClient[d] /\ toClient[d][i] = 13000
        BY <3>2, <4>1 DEF Tell
      <4> QED BY <2>1, <3>2, <4>2 DEF ClientOK
    <3> QED BY <2>1, <3>1, <3>2, ChildTellsLogin
  <2> QED BY <2>1, <2>2 DEF ClientOK
<1> QED BY <1>1, <1>2, <1>3 DEF LoginsInv

\* A fork starts a child afresh, for a connection that had none.
LEMMA ParentKeepsLogins ==
    ASSUME TypeInv, BacklogInv, LoginsInv, ParentStep, UNCHANGED clientVars PROVE LoginsInv'
<1>1. /\ cpc \in [Clients -> ChildPcs] /\ backlog \in Seq(Clients) /\ backlog # <<>>
      /\ UNCHANGED cpc \/ cpc' = [cpc EXCEPT ![Head(backlog)] = "code"]
      /\ UNCHANGED <<svc, listening, queue, gone, toServer, toClient, pc, dial, want>>
  BY DEF ParentStep, AcceptConnection, AcceptForkFails, TakeConnection, dataVars, localVars, clientVars,
         socketVars, TypeInv, TypeOK, ServerTypeOK, NetTypeOK
<1>2. Head(backlog) \in Clients /\ cpc[Head(backlog)] = "none"
  BY <1>1 DEF BacklogInv
<1>3. ASSUME NEW c \in Clients PROVE ServiceOK(c)'
  <2>1. ServiceOK(c) BY DEF LoginsInv
  <2> QED BY <1>1, <1>2, <2>1 DEF ServiceOK, TunnelPcs, LoginPcs, SignupPcs
<1>4. CodesIn({0})' /\ \A d \in Clients : ClientOK(d)'
  BY <1>1 DEF LoginsInv, CodesIn, ClientOK
<1> QED BY <1>3, <1>4 DEF LoginsInv

\* A client dials a login's port: it has heard of no other (client.cxx:145-159).
LEMMA DialServed ==
    ASSUME NEW d \in Clients, TypeInv, PortInv, LoginsInv, DialSecurePort(d), UNCHANGED serverVars,
           NEW c \in Clients
    PROVE  ServiceOK(c)'
<1>1. ServiceOK(c) /\ ClientOK(d)
  BY DEF LoginsInv
<1>2. PICK b \in Clients : Reachable(b, d) /\ queue' = [queue EXCEPT ![b] = Append(@, d)]
  BY DEF DialSecurePort
<1>3. b \in listening /\ svc[b] = 0
  BY <1>1, <1>2 DEF DialSecurePort, Reachable, ClientOK, PortInv, PortsByService, PortOfService
<1>4. UNCHANGED <<cpc, svc, listening, gone>> /\ queue \in [Clients -> Seq(Clients)]
  BY DEF DialSecurePort, serverVars, localVars, TypeInv, TypeOK, NetTypeOK
<1>5. svc[c] = 1 \/ c \notin listening => queue'[c] = queue[c]
  BY <1>2, <1>3, <1>4
<1> QED BY <1>1, <1>4, <1>5 DEF ServiceOK

\* Nothing else a client does touches a child's sockets.
LEMMA UserServed ==
    ASSUME NEW d \in Clients, TypeInv, LoginsInv, UNCHANGED serverVars,
           ClientStep(d) \/ TypeRequest(d) \/ Crash(d), ~DialSecurePort(d), NEW c \in Clients
    PROVE  ServiceOK(c)'
<1>1. UNCHANGED <<cpc, svc, listening, queue>> /\ gone \subseteq gone'
  BY DEF ClientStep, Connect, TypeRequest, SendName, ReceiveAck, ReceivePort, ReceiveShort, DialRefused,
     SslConnect, SslConnectFails, TellUsername, TellPassword, Write, ReceiveNameAck, ReceivePasswordAck,
     ReceiveSignupAck, ReadToken, ReadTokenEof, Crash, netVars, socketVars, serverVars, localVars
<1> QED BY <1>1 DEF LoginsInv, ServiceOK

\* Users that only log in send no other code.
LEMMA UserKeepsCodes ==
    ASSUME NEW d \in Clients, LoginsOnly, TypeInv, LoginsInv,
           ClientStep(d) \/ TypeRequest(d) \/ Crash(d)
    PROVE  CodesIn({0})'
<1>1. CASE TypeRequest(d)
  <2>1. PICK r \in Typed[d] :
          toServer' = [toServer EXCEPT ![d] = Append(@, [tag |-> "code", val |-> r.svc])]
    BY <1>1 DEF TypeRequest
  <2>2. r.svc = 0
    BY DEF LoginsOnly
  <2>3. [tag |-> "code", val |-> r.svc] \in Messages
    BY <2>2 DEF Messages
  <2> QED BY <2>1, <2>2, <2>3, TakeKeepsCodes, SendKeepsCodes DEF LoginsInv
<1>2. CASE SendName(d)
  <2>1. [tag |-> "name", val |-> want[d].name] \in Messages
    BY DEF TypeInv, TypeOK, ClientTypeOK, ClientRequests, Messages
  <2> QED BY <1>2, <2>1, SendKeepsCodes DEF SendName, LoginsInv
<1>3. CASE ~TypeRequest(d) /\ ~SendName(d)
  <2>1. UNCHANGED toServer
    BY <1>3 DEF ClientStep, Connect, ReceiveAck, ReceivePort, ReceiveShort, DialSecurePort, DialRefused,
       SslConnect, SslConnectFails, TellUsername, TellPassword, Write, ReceiveNameAck, ReceivePasswordAck,
       ReceiveSignupAck, ReadToken, ReadTokenEof, Crash, netVars, dataVars
  <2> QED BY <2>1 DEF LoginsInv, CodesIn
<1> QED BY <1>1, <1>2, <1>3

\* The port a live client reads is no signup's.
LEMMA UserKeepsClients ==
    ASSUME NEW d \in Clients, LoginsOnly, TypeInv, LoginsInv,
           ClientStep(d) \/ TypeRequest(d) \/ Crash(d), NEW e \in Clients
    PROVE  ClientOK(e)'
<1> USE DEF Move, netVars, dataVars
<1>1. ClientOK(e) /\ ClientOK(d)
  BY DEF LoginsInv
<1>2. /\ pc \in [Clients -> ClientPcs] /\ toClient \in [Clients -> Seq(Int)]
      /\ dial \in [Clients -> Int] /\ want \in [Clients -> ClientRequests] /\ gone \in SUBSET Clients
  BY DEF TypeInv, TypeOK, NetTypeOK, ClientTypeOK
<1>3. CASE TypeRequest(d)
  <2>1. PICK r \in Typed[d] : want' = [want EXCEPT ![d] = r] /\ pc' = [pc EXCEPT ![d] = "ack0"]
    BY <1>3 DEF TypeRequest, LoginsOnly
  <2>2. r.svc = 0
    BY DEF LoginsOnly
  <2>3. d \notin gone /\ UNCHANGED <<gone, toClient, dial>>
    BY <1>1, <1>3 DEF TypeRequest, ClientOK
  <2> QED BY <1>1, <1>2, <2>1, <2>2, <2>3 DEF ClientOK
<1>4. CASE Crash(d)
  BY <1>1, <1>2, <1>4 DEF Crash, ClientOK
<1>5. CASE ClientStep(d)
  <2>1. UNCHANGED <<want, gone>> /\ d \notin gone
    <3>1. CASE Connect(d) \/ SendName(d) \/ ReceiveAck(d) \/ ReceivePort(d) \/ DialSecurePort(d)
      BY <1>1, <3>1 DEF ClientOK, Connect, SendName, ReceiveAck, ReceivePort, ReceiveShort, DialSecurePort
    <3>2. CASE DialRefused(d) \/ SslConnect(d) \/ SslConnectFails(d) \/ TellUsername(d) \/ TellPassword(d)
      BY <1>1, <3>2 DEF ClientOK, DialRefused, SslConnect, SslConnectFails, TellUsername, TellPassword,
         Write
    <3>3. CASE ReceiveNameAck(d) \/ ReceivePasswordAck(d) \/ ReceiveSignupAck(d)
      BY <1>1, <3>3 DEF ClientOK, ReceiveNameAck, ReceivePasswordAck, ReceiveShort, ReceiveSignupAck
    <3>4. CASE ReadToken(d) \/ ReadTokenEof(d)
      BY <1>1, <3>4 DEF ClientOK, ReadToken, ReadTokenEof
    <3> QED BY <1>5, <3>1, <3>2, <3>3, <3>4 DEF ClientStep
  <2>2. \A b \in Clients \ {d} : pc'[b] = pc[b] /\ dial'[b] = dial[b]
    BY <1>2, <1>5 DEF ClientStep, Connect, SendName, ReceiveAck, ReceivePort, ReceiveShort,
       DialSecurePort, DialRefused, SslConnect, SslConnectFails, TellUsername, TellPassword, Write,
       ReceiveNameAck, ReceivePasswordAck, ReceiveSignupAck, ReadToken, ReadTokenEof
  <2>3. UNCHANGED toClient \/ (toClient[d] # <<>> /\ toClient' = [toClient EXCEPT ![d] = Tail(@)])
    BY <1>5 DEF ClientStep, Connect, SendName, ReceiveAck, ReceivePort, ReceiveShort,
       DialSecurePort, DialRefused, SslConnect, SslConnectFails, TellUsername, TellPassword, Write,
       ReceiveNameAck, ReceivePasswordAck, ReceiveSignupAck, ReadToken, ReadTokenEof
  <2>4. (\E i \in DOMAIN toClient'[e] : toClient'[e][i] = 13000) => e \in gone
    <3>1. CASE UNCHANGED toClient
      BY <1>1, <3>1 DEF ClientOK
    <3>2. CASE toClient[d] # <<>> /\ toClient' = [toClient EXCEPT ![d] = Tail(@)]
      BY <1>1, <1>2, <3>2, ReadShorts DEF ClientOK
    <3> QED BY <2>3, <3>1, <3>2
  <2>5. pc'[d] = "dial" => dial'[d] # 13000
    <3>1. CASE ReceivePort(d)
      <4>1. Head(toClient[d]) = toClient[d][1] /\ 1 \in DOMAIN toClient[d]
        BY <1>2, <3>1 DEF ReceivePort, ReceiveShort
      <4>2. toClient[d][1] # 13000
        BY <1>1, <2>1, <4>1 DEF ClientOK
      <4> QED BY <1>2, <3>1, <4>1, <4>2 DEF ReceivePort
    <3>2. CASE ~ReceivePort(d)
      <4>1. pc'[d] # "dial"
        BY <1>2, <1>5, <3>2 DEF ClientStep, Connect, SendName, ReceiveAck, ReceiveShort, DialSecurePort,
           DialRefused, SslConnect, SslConnectFails, TellUsername, TellPassword, Write, ReceiveNameAck,
           ReceivePasswordAck, ReceiveSignupAck, ReadToken, ReadTokenEof
      <4> QED BY <4>1
    <3> QED BY <3>1, <3>2
  <2> QED BY <1>1, <2>1, <2>2, <2>4, <2>5 DEF ClientOK
<1> QED BY <1>3, <1>4, <1>5

\* The first layer holds at first,
LEMMA LoginsInit == Init => LoginsInv
BY DEF Init, NetInit, ServerInit, ClientInit, LoginsInv, CodesIn, ServiceOK, ClientOK, TunnelPcs, LoginPcs

\* and every step keeps it.
LEMMA LoginsNext == LoginsOnly /\ SafePorts /\ LoginsInv /\ [Next]_vars => LoginsInv'
<1> SUFFICES ASSUME LoginsOnly, SafePorts, LoginsInv, [Next]_vars PROVE LoginsInv' OBVIOUS
<1>1. TypeInv /\ BacklogInv /\ PortInv BY DEF SafePorts
<1>2. CASE ServerStep
  BY <1>1, <1>2, ParentKeepsLogins, ChildKeepsLogins DEF ServerStep
<1>3. CASE UserStep
  <2>1. PICK d \in Clients : ClientStep(d) \/ TypeRequest(d) \/ Crash(d)
    BY <1>3 DEF UserStep
  <2>2. \A c \in Clients : ServiceOK(c)'
    BY <1>1, <1>3, <2>1, DialServed, UserServed DEF UserStep
  <2>3. CodesIn({0})'
    BY <1>1, <2>1, UserKeepsCodes
  <2>4. \A e \in Clients : ClientOK(e)'
    BY <1>1, <2>1, UserKeepsClients
  <2> QED BY <2>2, <2>3, <2>4 DEF LoginsInv
<1>4. CASE UNCHANGED vars
  BY <1>4 DEF vars, netVars, dataVars, socketVars, serverVars, localVars, clientVars, LoginsInv, CodesIn,
     ServiceOK, ClientOK
<1> QED BY <1>2, <1>3, <1>4 DEF Next

----------------------------------------------------------------------------
(* The login children use the database connection one at a time.           *)

\* A child that compares passwords has a row its own query selects.
RowOwn(c) ==
    cpc[c] \in {"password", "token"} => row[c] \in LookupReplies(uname[c]) /\ row[c].kind = "row"

\* At most one reply is under way, and the child that asked for it waits for it.
AskedOwn ==
    replies # <<>> =>
        \E c \in Clients : cpc[c] = "row" /\ \E r \in LookupReplies(uname[c]) : replies = <<r>>

RowsInv == AskedOwn /\ \A c \in Clients : RowOwn(c)

\* Two children between their handshakes and the end of their logins are one.
LEMMA OneLogin ==
    ASSUME SafePorts, LoginsInv, NEW c \in Clients, NEW d \in Clients,
           cpc[c] \in LoginPcs, cpc[d] \in LoginPcs
    PROVE  c = d
<1>1. ServiceOK(c) /\ ServiceOK(d)
  BY DEF LoginsInv
<1>2. c \in listening /\ d \in listening /\ svc[c] = svc[d]
  BY <1>1 DEF ServiceOK, TunnelPcs
<1> QED BY <1>2, PortsGiveSerial DEF ServicesSerial

\* What a query may return depends on the name and on the table.
LEMMA SameReplies ==
    ASSUME NEW c \in Clients, UNCHANGED accounts, uname'[c] = uname[c]
    PROVE  LookupReplies(uname[c])' = LookupReplies(uname[c])
BY DEF LookupReplies, RowOf

\* Whoever waits for a reply while there is one waits for that one.
LEMMA ReplyIsOwn ==
    ASSUME SafePorts, LoginsInv, RowsInv, NEW c \in Clients, cpc[c] = "row", replies # <<>>
    PROVE  \E r \in LookupReplies(uname[c]) : replies = <<r>>
<1>1. PICK d \in Clients : cpc[d] = "row" /\ \E r \in LookupReplies(uname[d]) : replies = <<r>>
  BY DEF RowsInv, AskedOwn
<1>2. c = d
  BY <1>1, OneLogin DEF LoginPcs
<1> QED BY <1>1, <1>2

\* A step of a child that leaves the connection alone.
RowsApart(c) ==
    /\ UNCHANGED <<replies, accounts>>
    /\ cpc[c] = "row" => replies = <<>>
    /\ cpc'[c] \in {"password", "token"} =>
          cpc[c] = "password" /\ uname'[c] = uname[c] /\ row'[c] = row[c]

\* A step of a child is such a step, a query or the reading of a reply.
LEMMA ChildRows ==
    ASSUME NEW c \in Clients, TypeInv, PortInv, ServiceOK(c), Child(c)
    PROVE  RowsApart(c) \/ LookupUser(c) \/ ReadRow(c) \/ ReadNoRow(c) \/ LookupThrows(c)
<1> USE DEF RowsApart, Stay, GoOn, Exit, localVars, dbVars
<1>1. cpc \in [Clients -> ChildPcs]
  BY DEF TypeInv, TypeOK, ServerTypeOK
<1>2. ASSUME NEW code, StartRequest(c, code) PROVE RowsApart(c)
  BY <1>1, <1>2 DEF StartRequest, ServiceOf
<1>3. CASE Request(c)
  BY <1>1, <1>2, <1>3 DEF Request, ReadCode, ReadCodeEof, ReadCodeFails, SendAckFails, BreakOut
<1>4. CASE SslAccept(c)
  <2>1. svc[c] = 0
    BY <1>4 DEF SslAccept, ServiceOK, TunnelPcs, SignupPcs, PortInv, PortsByService, PortOfService
  <2> QED BY <1>1, <1>4, <2>1 DEF SslAccept
<1>5. CASE AnnounceLoginPort(c) \/ AnnounceSignupPort(c) \/ BindSecurePort(c) \/ BindFails(c)
           \/ AcceptTunnel(c) \/ SslAcceptFails(c)
  BY <1>1, <1>5 DEF AnnounceLoginPort, AnnounceSignupPort, Announce, BindSecurePort, BindFails,
                    AcceptTunnel, SslAcceptFails
<1>6. CASE ReadUsername(c) \/ ReadUsernameEof(c) \/ LookupFails(c)
  BY <1>1, <1>6 DEF ReadUsername, ReadUsernameEof, LookupFails
<1>7. CASE CheckPassword(c) \/ CheckPasswordEof(c)
  BY <1>1, <1>7 DEF CheckPassword, CheckPasswordEof, ComparePassword
<1>8. CASE SendToken(c) \/ RngFails(c) \/ CloseSession(c)
  BY <1>1, <1>8 DEF SendToken, RngFails, CloseSession
<1>9. CASE ReadName(c) \/ ReadNameEof(c)
  BY <1>1, <1>9 DEF ReadName, ReadNameEof
<1>10. CASE ReceivePassword(c) \/ ReceivePasswordEof(c) \/ InsertAccount(c) \/ AcknowledgeSignup(c)
            \/ InsertFails(c)
  BY <1>10 DEF ReceivePassword, ReceivePasswordEof, InsertAccount, AcknowledgeSignup, InsertFails,
               ServiceOK, SignupPcs
<1> HIDE DEF RowsApart
<1> QED
  BY <1>3, <1>4, <1>5, <1>6, <1>7, <1>8, <1>9, <1>10 DEF Child, SecurePort, Login, Signup

\* The rows of the other children are theirs.
LEMMA OthersRows ==
    ASSUME NEW c \in Clients, NEW b \in Clients \ {c}, OthersKept(c), UNCHANGED accounts, RowOwn(b)
    PROVE  RowOwn(b)'
BY SameReplies DEF OthersKept, RowOwn

\* A child asks when nobody else waits, and for its own name (425-430).
LEMMA LookupKeepsRows ==
    ASSUME NEW c \in Clients, SafePorts, LoginsInv, RowsInv, LookupUser(c), OthersKept(c)
    PROVE  RowsInv'
<1>1. /\ cpc \in [Clients -> ChildPcs] /\ replies \in Seq(Replies)
      /\ cpc[c] = "lookup" /\ cpc' = [cpc EXCEPT ![c] = "row"] /\ UNCHANGED <<uname, accounts>>
      /\ \E r \in LookupReplies(uname[c]) : replies' = Append(replies, r)
  BY DEF LookupUser, Stay, Ask, localVars, SafePorts, TypeInv, TypeOK, ServerTypeOK
<1>2. replies = <<>>
  <2> SUFFICES ASSUME replies # <<>> PROVE FALSE OBVIOUS
  <2>1. PICK d \in Clients : cpc[d] = "row" BY DEF RowsInv, AskedOwn
  <2> QED BY <1>1, <2>1, OneLogin DEF LoginPcs
<1>3. /\ \E r \in LookupReplies(uname[c]) : replies' = <<r>>
      /\ LookupReplies(uname[c])' = LookupReplies(uname[c])
  BY <1>1, <1>2, SameReplies
<1>4. AskedOwn'
  BY <1>1, <1>3 DEF AskedOwn
<1>5. \A b \in Clients : RowOwn(b)'
  BY <1>1, OthersRows DEF RowsInv, RowOwn
<1> QED BY <1>4, <1>5 DEF RowsInv

\* A child reads the reply to its own query (431-444).
LEMMA ReadKeepsRows ==
    ASSUME NEW c \in Clients, SafePorts, LoginsInv, RowsInv, OthersKept(c),
           ReadRow(c) \/ ReadNoRow(c) \/ LookupThrows(c)
    PROVE  RowsInv'
<1>1. /\ cpc \in [Clients -> ChildPcs] /\ row \in [Clients -> Replies \cup {None}]
      /\ cpc[c] = "row" /\ replies # <<>> /\ replies' = Tail(replies) /\ UNCHANGED <<uname, accounts>>
  BY DEF ReadRow, ReadNoRow, LookupThrows, TakeReply, localVars, SafePorts, TypeInv, TypeOK,
         ServerTypeOK
<1>2. PICK r \in LookupReplies(uname[c]) : replies = <<r>>
  BY <1>1, ReplyIsOwn
<1>3. AskedOwn'
  BY <1>1, <1>2 DEF AskedOwn
<1>4. RowOwn(c)'
  <2>1. CASE ReadRow(c)
    <3>1. row'[c] = r /\ r.kind = "row"
      BY <1>1, <1>2, <2>1 DEF ReadRow
    <3> QED BY <1>1, <1>2, <3>1, SameReplies DEF RowOwn
  <2>2. CASE ReadNoRow(c) \/ LookupThrows(c)
    BY <1>1, <2>2 DEF ReadNoRow, LookupThrows, Exit, RowOwn
  <2> QED BY <2>1, <2>2
<1>5. \A b \in Clients : RowOwn(b)'
  BY <1>1, <1>4, OthersRows DEF RowsInv
<1> QED BY <1>3, <1>5 DEF RowsInv

\* The rest of a child's steps.
LEMMA ApartKeepsRows ==
    ASSUME NEW c \in Clients, RowsInv, RowsApart(c), OthersKept(c) PROVE RowsInv'
<1>1. ASSUME NEW b \in Clients PROVE RowOwn(b)'
  <2>1. CASE b = c
    BY <2>1, SameReplies DEF RowsInv, RowsApart, RowOwn
  <2>2. CASE b # c
    BY <2>2, OthersRows DEF RowsInv, RowsApart
  <2> QED BY <2>1, <2>2
<1>2. AskedOwn'
  <2> SUFFICES ASSUME replies # <<>> PROVE AskedOwn'
    BY DEF AskedOwn, RowsApart
  <2>1. PICK d \in Clients : cpc[d] = "row" /\ \E r \in LookupReplies(uname[d]) : replies = <<r>>
    BY DEF RowsInv, AskedOwn
  <2>2. d # c
    BY <2>1 DEF RowsApart
  <2>3. cpc'[d] = "row" /\ uname'[d] = uname[d]
    BY <2>1, <2>2 DEF OthersKept
  <2> QED BY <2>1, <2>3, SameReplies DEF AskedOwn, RowsApart
<1> QED BY <1>1, <1>2 DEF RowsInv

\* The second layer holds at first,
LEMMA RowsInit == Init => RowsInv
BY DEF Init, ServerInit, RowsInv, AskedOwn, RowOwn

\* and every step keeps it.
LEMMA RowsNext == SafePorts /\ LoginsInv /\ RowsInv /\ [Next]_vars => RowsInv'
<1> SUFFICES ASSUME SafePorts, LoginsInv, RowsInv, [Next]_vars PROVE RowsInv' OBVIOUS
<1>1. TypeInv /\ BacklogInv /\ PortInv BY DEF SafePorts
<1>2. ASSUME NEW c \in Clients, Child(c) PROVE RowsInv'
  <2>1. ServiceOK(c) BY DEF LoginsInv
  <2> QED
    BY <1>1, <1>2, <2>1, ChildKeepsOthers, ChildRows, LookupKeepsRows, ReadKeepsRows, ApartKeepsRows
<1>3. CASE ParentStep
  <2>1. /\ cpc \in [Clients -> ChildPcs] /\ backlog \in Seq(Clients) /\ backlog # <<>>
        /\ UNCHANGED cpc \/ cpc' = [cpc EXCEPT ![Head(backlog)] = "code"]
        /\ UNCHANGED <<uname, row, replies, accounts>>
    BY <1>1, <1>3 DEF ParentStep, AcceptConnection, AcceptForkFails, TakeConnection, localVars, dbVars,
       TypeInv, TypeOK, ServerTypeOK, NetTypeOK
  <2>2. Head(backlog) \in Clients /\ cpc[Head(backlog)] = "none"
    BY <1>1, <2>1 DEF BacklogInv
  <2>3. \A c \in Clients : cpc'[c] = cpc[c] \/ (cpc[c] = "none" /\ cpc'[c] = "code")
    BY <2>1, <2>2
  <2>4. \A c \in Clients : LookupReplies(uname[c])' = LookupReplies(uname[c])
    BY <2>1, SameReplies
  <2> QED BY <2>1, <2>3, <2>4 DEF RowsInv, AskedOwn, RowOwn
<1>4. CASE UNCHANGED serverVars
  <2>1. UNCHANGED <<cpc, uname, row, replies, accounts>>
    BY <1>4 DEF serverVars, localVars, dbVars
  <2>2. \A c \in Clients : LookupReplies(uname[c])' = LookupReplies(uname[c])
    BY <2>1, SameReplies
  <2> QED BY <2>1, <2>2 DEF RowsInv, AskedOwn, RowOwn
<1> QED BY <1>2, <1>3, <1>4 DEF Next, ServerStep, UserStep, vars

----------------------------------------------------------------------------
(* What a child holds is what its peer has written.                        *)

\* A client that is let in has typed the password of the name it typed, if the
\* query takes that name as it is.
TypedRight(d) == want[d].name \in Literal => accounts[want[d].name] = Hash(want[d].pw)

\* What a client in a session has written into its tunnel so far.
Said(d) ==
    CASE pc[d] \in {"handshake", "tellname"} -> <<>>
      [] pc[d] \in {"ack1", "tellpw"}        -> <<want[d].name>>
      [] OTHER                               -> <<want[d].name, want[d].pw>>

\* How far child c is with its peer d.
Heard(c, d) ==
    /\ cpc[c] = "handshake" => tunnel[d] = "accepted" /\ pc[d] = "handshake"
    /\ cpc[c] \in LoginPcs => tunnel[d] = "open"
    /\ cpc[c] = "uname" => up[d] = Said(d)
    /\ cpc[c] \in {"lookup", "row", "password"} =>
          Said(d) # <<>> /\ up[d] = Tail(Said(d)) /\ uname[c] = want[d].name
    /\ cpc[c] = "token" => uname[c] = want[d].name /\ TypedRight(d)

\* A tunnel that still waits has not been spoken into.
QueuedOK(d) == tunnel[d] = "queued" /\ pc[d] = "handshake"

\* What a client hears in a session, and keeps of it.
DialogOK(d) ==
    /\ pc[d] \in {"handshake", "tellname"} => up[d] = <<>>
    /\ pc[d] \in SessionPcs =>
          \A i \in DOMAIN down[d] : down[d][i].name = want[d].name /\ TypedRight(d)
    /\ pc[d] \notin {"idle", "gone"} => token[d] = None
    /\ token[d] # None => token[d].name = want[d].name /\ TypedRight(d)

TalkInv ==
    /\ \A c, d \in Clients : peer[c] = d /\ pc[d] \in SessionPcs => Heard(c, d)
    /\ \A c, d \in Clients : Waiting(c, d) /\ pc[d] \in SessionPcs => QueuedOK(d)
    /\ \A d \in Clients : DialogOK(d)

\* What carries over the first two layers and the tunnels.
SessionBase == SafePorts /\ TunnelInv /\ LoginsInv /\ RowsInv

\* The streams a child's step touches.
LEMMA ChildWires ==
    ASSUME NEW c \in Clients, Child(c)
    PROVE  (UNCHANGED up \/ TakeTunnelMessage(c)) /\ (UNCHANGED down \/ SendToken(c))
<1> USE DEF streamVars
<1>1. CASE Request(c)
  BY <1>1 DEF Request, ReadCode, ReadCodeEof, StartRequest, ReadCodeFails, SendAckFails, BreakOut
<1>2. CASE SecurePort(c)
  BY <1>2 DEF SecurePort, AnnounceLoginPort, AnnounceSignupPort, Announce, BindSecurePort, BindFails,
              AcceptTunnel, SslAccept, SslAcceptFails
<1>3. CASE ReadUsername(c) \/ CheckPassword(c) \/ ReceivePassword(c)
  BY <1>3 DEF ReadUsername, CheckPassword, ReceivePassword
<1>4. CASE SendToken(c)
  BY <1>4 DEF SendToken
<1>5. CASE ReadUsernameEof(c) \/ LookupUser(c) \/ LookupFails(c) \/ CheckPasswordEof(c)
  BY <1>5 DEF ReadUsernameEof, LookupUser, LookupFails, CheckPasswordEof
<1>6. CASE ReadRow(c) \/ ReadNoRow(c) \/ LookupThrows(c) \/ RngFails(c) \/ CloseSession(c)
  BY <1>6 DEF ReadRow, ReadNoRow, LookupThrows, RngFails, CloseSession
<1>7. CASE ReadName(c) \/ ReadNameEof(c) \/ ReceivePasswordEof(c)
  BY <1>7 DEF ReadName, ReadNameEof, ReceivePasswordEof
<1>8. CASE InsertAccount(c) \/ AcknowledgeSignup(c) \/ InsertFails(c)
  BY <1>8 DEF InsertAccount, AcknowledgeSignup, InsertFails
<1> QED BY <1>1, <1>2, <1>3, <1>4, <1>5, <1>6, <1>7, <1>8 DEF Child, Login, Signup

\* The accounts stay what they are: no signup gets as far as its INSERT.
LEMMA ChildKeepsAccounts ==
    ASSUME NEW c \in Clients, TypeInv, PortInv, ServiceOK(c), Child(c) PROVE UNCHANGED accounts
BY ChildRows DEF RowsApart, LookupUser, ReadRow, ReadNoRow, LookupThrows, TakeReply

\* A client that is with another child, or waits there, is not disturbed.
LEMMA ChildLeavesOthers ==
    ASSUME NEW c \in Clients, TypeInv, ChildSockets(c), ChildStreams(c), NEW d \in Clients,
           peer[c] # d, ~Waiting(c, d)
    PROVE  tunnel'[d] = tunnel[d] /\ up'[d] = up[d] /\ down'[d] = down[d]
<1>1. tunnel \in [Clients -> TunnelStates] /\ queue \in [Clients -> Seq(Clients)]
      /\ peer \in [Clients -> Clients \cup {None}]
  BY DEF TypeInv, TypeOK, NetTypeOK, ServerTypeOK
<1>2. tunnel'[d] = tunnel[d]
  <2>1. CASE CloseSecure(c)
    BY <1>1, <2>1 DEF CloseSecure
  <2>2. CASE AcceptTunnel(c)
    <3>1. Waiting(c, Head(queue[c]))
      BY <1>1, <2>2 DEF AcceptTunnel, Waiting
    <3> QED BY <1>1, <2>2, <3>1 DEF AcceptTunnel
  <2>3. CASE SslAccept(c)
    BY <1>1, <2>3 DEF SslAccept
  <2> QED BY <2>1, <2>2, <2>3 DEF ChildSockets
<1> QED BY <1>2 DEF ChildStreams

\* So the other children hear their own peers as before.
LEMMA OthersHear ==
    ASSUME SessionBase, TalkInv, NEW c \in Clients, Child(c), UNCHANGED <<pc, want, accounts>>,
           NEW b \in Clients \ {c}, NEW d \in Clients, peer'[b] = d, pc[d] \in SessionPcs
    PROVE  Heard(b, d)'
<1>1. TypeInv /\ PortInv /\ TunnelUnshared
  BY DEF SessionBase, SafePorts, TunnelInv
<1>2. OthersKept(c) /\ ChildSockets(c) /\ ChildStreams(c)
  BY <1>1, ChildKeepsOthers, ChildEffects DEF ChildEffect
<1>3. cpc'[b] = cpc[b] /\ uname'[b] = uname[b] /\ peer[b] = d
  BY <1>2 DEF OthersKept
<1>4. peer[c] # d /\ ~Waiting(c, d)
  <2>1. d # None BY NetAssumption DEF NetAssumption
  <2> QED BY <1>1, <1>3, <2>1 DEF TunnelUnshared
<1>5. tunnel'[d] = tunnel[d] /\ up'[d] = up[d]
  BY <1>1, <1>2, <1>4, ChildLeavesOthers
<1>6. Heard(b, d)
  BY <1>3 DEF TalkInv
<1> QED BY <1>3, <1>5, <1>6 DEF Heard, Said, TypedRight

\* A client that still waits after a child's step is where it was.
LEMMA ChildKeepsQueued ==
    ASSUME SessionBase, TunnelInv', TalkInv, NEW c \in Clients, Child(c), UNCHANGED pc,
           NEW b \in Clients, NEW d \in Clients, Waiting(b, d)', pc[d] \in SessionPcs
    PROVE  QueuedOK(d)'
<1>1. TypeInv /\ PortInv /\ TunnelUnshared /\ TunnelUnshared'
  BY DEF SessionBase, SafePorts, TunnelInv
<1>2. ChildSockets(c) /\ ChildStreams(c)
  BY <1>1, ChildEffects DEF ChildEffect
<1>3. Waiting(b, d)
  BY <1>1, <1>2, ChildQueues
<1>4. QueuedOK(d)
  BY <1>3 DEF TalkInv
<1>5. \A a \in Clients : peer[a] # d
  <2>1. d # None BY NetAssumption DEF NetAssumption
  <2> QED BY <1>1, <1>3, <2>1 DEF TunnelUnshared
<1>6. /\ queue \in [Clients -> Seq(Clients)] /\ tunnel \in [Clients -> TunnelStates]
      /\ peer \in [Clients -> Clients \cup {None}]
  BY <1>1 DEF TypeInv, TypeOK, NetTypeOK, ServerTypeOK
<1>7. tunnel'[d] = tunnel[d]
  <2>1. CASE ~Waiting(c, d)
    BY <1>1, <1>2, <1>5, <2>1, ChildLeavesOthers
  <2>2. CASE Waiting(c, d)
    <3>1. b = c
      BY <1>1, <1>3, <2>2 DEF TunnelUnshared, Waiting
    <3>2. CASE CloseSecure(c)
      <4>1. queue'[c] = <<>>
        BY <1>6, <3>2 DEF CloseSecure
      <4> QED BY <3>1, <4>1 DEF Waiting
    <3>3. CASE AcceptTunnel(c)
      <4>1. peer'[c] = Head(queue[c]) /\ Head(queue[c]) \in Clients
        BY <1>6, <3>3 DEF AcceptTunnel
      <4>2. Head(queue[c]) # d
        <5> SUFFICES ASSUME Head(queue[c]) = d PROVE FALSE OBVIOUS
        <5>1. peer'[c] = d /\ d # None
          BY <4>1, NetAssumption DEF NetAssumption
        <5>2. \A i \in DOMAIN queue'[b] : queue'[b][i] # d
          BY <1>1, <5>1 DEF TunnelUnshared, Waiting
        <5> QED BY <5>2 DEF Waiting
      <4> QED BY <1>6, <3>3, <4>2 DEF AcceptTunnel
    <3>4. CASE SslAccept(c)
      BY <1>5, <1>6, <3>4 DEF SslAccept
    <3> QED BY <1>2, <3>2, <3>3, <3>4 DEF ChildSockets
  <2> QED BY <2>1, <2>2
<1> QED BY <1>4, <1>7 DEF QueuedOK

\* What Said can be.
LEMMA SaidForms ==
    ASSUME NEW d \in Clients, Said(d) # <<>>
    PROVE  /\ Head(Said(d)) = want[d].name
           /\ Tail(Said(d)) # <<>> => Head(Tail(Said(d))) = want[d].pw
<1>1. Said(d) = <<want[d].name>> \/ Said(d) = <<want[d].name, want[d].pw>>
  BY DEF Said
<1>2. CASE Said(d) = <<want[d].name>>
  BY <1>2
<1>3. CASE Said(d) = <<want[d].name, want[d].pw>>
  BY <1>3
<1> QED BY <1>1, <1>2, <1>3

\* The tunnel a child takes has not been spoken into (389-409).
LEMMA AcceptHears ==
    ASSUME SessionBase, TalkInv, NEW c \in Clients, AcceptTunnel(c), UNCHANGED pc,
           NEW d \in Clients, peer'[c] = d, pc[d] \in SessionPcs
    PROVE  Heard(c, d)'
<1>1. /\ queue \in [Clients -> Seq(Clients)] /\ tunnel \in [Clients -> TunnelStates]
      /\ peer \in [Clients -> Clients \cup {None}] /\ cpc \in [Clients -> ChildPcs]
  BY DEF SessionBase, SafePorts, TypeInv, TypeOK, NetTypeOK, ServerTypeOK
<1>2. d = Head(queue[c]) /\ Waiting(c, d)
  BY <1>1 DEF AcceptTunnel, Waiting
<1>3. QueuedOK(d)
  BY <1>2 DEF TalkInv
<1>4. cpc'[c] = "handshake" /\ tunnel'[d] = "accepted"
  BY <1>1, <1>2, <1>3 DEF AcceptTunnel, QueuedOK
<1> QED BY <1>3, <1>4 DEF Heard, QueuedOK, LoginPcs

\* A step that takes child c on in its session.
Converses(c) ==
    SslAccept(c) \/ ReadUsername(c) \/ ReadUsernameEof(c) \/ LookupUser(c) \/ ReadRow(c)
    \/ CheckPassword(c) \/ CheckPasswordEof(c)

\* The other steps come before the session or end it.
LEMMA SilentSteps ==
    ASSUME NEW c \in Clients, TypeInv, Child(c), ~AcceptTunnel(c), ~Converses(c)
    PROVE  cpc'[c] # "handshake" /\ cpc'[c] \notin LoginPcs
<1> USE DEF LoginPcs, Stay, GoOn, Exit
<1>1. cpc \in [Clients -> ChildPcs]
  BY DEF TypeInv, TypeOK, ServerTypeOK
<1>2. ASSUME NEW code, StartRequest(c, code) PROVE cpc'[c] # "handshake" /\ cpc'[c] \notin LoginPcs
  BY <1>1, <1>2 DEF StartRequest, ServiceOf
<1>3. CASE Request(c)
  BY <1>1, <1>2, <1>3 DEF Request, ReadCode, ReadCodeEof, ReadCodeFails, SendAckFails, BreakOut
<1>4. CASE SecurePort(c)
  BY <1>1, <1>4 DEF SecurePort, AnnounceLoginPort, AnnounceSignupPort, Announce, BindSecurePort,
                    BindFails, Converses, SslAcceptFails
<1>5. CASE LookupFails(c) \/ ReadNoRow(c) \/ LookupThrows(c)
  BY <1>1, <1>5 DEF LookupFails, ReadNoRow, LookupThrows
<1>6. CASE SendToken(c) \/ RngFails(c) \/ CloseSession(c)
  BY <1>1, <1>6 DEF SendToken, RngFails, CloseSession
<1>7. CASE ReadName(c) \/ ReadNameEof(c) \/ ReceivePassword(c) \/ ReceivePasswordEof(c)
  BY <1>1, <1>7 DEF ReadName, ReadNameEof, ReceivePassword, ReceivePasswordEof, KeepPassword
<1>8. CASE InsertAccount(c) \/ AcknowledgeSignup(c) \/ InsertFails(c)
  BY <1>1, <1>8 DEF InsertAccount, AcknowledgeSignup, InsertFails
<1> QED BY <1>3, <1>4, <1>5, <1>6, <1>7, <1>8 DEF Child, Login, Signup, Converses

\* Each of the steps in a session, the peer alive and in the same one: the end
\* of its tunnel is not among them.
LEMMA ConversesHears ==
    ASSUME SessionBase, TalkInv, NEW c \in Clients, Converses(c), UNCHANGED <<pc, want, accounts>>,
           NEW d \in Clients, peer[c] = d, pc[d] \in SessionPcs
    PROVE  Heard(c, d)'
<1>1. /\ tunnel \in [Clients -> TunnelStates] /\ up \in [Clients -> Seq(Strings)]
      /\ uname \in [Clients -> Strings] /\ cpc \in [Clients -> ChildPcs] /\ d \in Clients
  BY DEF SessionBase, SafePorts, TypeInv, TypeOK, NetTypeOK, ServerTypeOK
<1>2. Heard(c, d) /\ DialogOK(d)
  BY DEF TalkInv
<1>3. Said(d)' = Said(d) /\ TypedRight(d)' = TypedRight(d)
  BY DEF Said, TypedRight
<1>4. CASE SslAccept(c)
  <2>1. svc[c] = 0
    BY <1>4 DEF SslAccept, SessionBase, SafePorts, LoginsInv, ServiceOK, TunnelPcs, SignupPcs,
                PortInv, PortsByService, PortOfService
  <2>2. cpc'[c] = "uname" /\ tunnel'[d] = "open" /\ up'[d] = up[d]
    BY <1>1, <1>4, <2>1 DEF SslAccept, streamVars
  <2>3. up[d] = <<>> /\ Said(d) = <<>>
    BY <1>2, <1>4 DEF SslAccept, Heard, DialogOK, Said
  <2> QED BY <1>3, <2>2, <2>3 DEF Heard
<1>5. CASE ReadUsername(c)
  <2>1. /\ cpc[c] = "uname" /\ cpc'[c] = "lookup" /\ tunnel'[d] = tunnel[d] /\ up[d] # <<>>
        /\ up'[d] = Tail(up[d]) /\ uname'[c] = Head(up[d])
    BY <1>1, <1>5 DEF ReadUsername, TakeTunnelMessage, Stay
  <2>2. tunnel[d] = "open" /\ up[d] = Said(d)
    BY <1>2, <2>1 DEF Heard, LoginPcs
  <2>3. uname'[c] = want[d].name
    BY <2>1, <2>2, SaidForms
  <2> QED BY <1>3, <2>1, <2>2, <2>3 DEF Heard
<1>6. CASE ReadUsernameEof(c) \/ CheckPasswordEof(c)
  <2>1. cpc[c] \in LoginPcs /\ tunnel[d] = "closed"
    BY <1>6 DEF ReadUsernameEof, CheckPasswordEof, TunnelEof, LoginPcs
  <2> QED BY <1>2, <2>1 DEF Heard
<1>7. CASE LookupUser(c)
  <2>1. /\ cpc[c] = "lookup" /\ cpc'[c] = "row" /\ tunnel'[d] = tunnel[d] /\ up'[d] = up[d]
        /\ uname'[c] = uname[c]
    BY <1>1, <1>7 DEF LookupUser, Stay, streamVars, localVars
  <2> QED BY <1>2, <1>3, <2>1 DEF Heard, LoginPcs
<1>8. CASE ReadRow(c)
  <2>1. cpc[c] = "row" /\ up'[d] = up[d] /\ uname'[c] = uname[c]
    BY <1>8 DEF ReadRow, streamVars
  <2>2. \/ cpc'[c] = "password" /\ tunnel'[d] = tunnel[d]
        \/ cpc'[c] = "exited"
    BY <1>1, <1>8 DEF ReadRow, GoOn, Stay, Exit
  <2> QED BY <1>2, <1>3, <2>1, <2>2 DEF Heard, LoginPcs
<1>9. CASE CheckPassword(c)
  <2>1. /\ cpc[c] = "password" /\ up[d] # <<>> /\ uname'[c] = uname[c]
    BY <1>9 DEF CheckPassword, TakeTunnelMessage, localVars
  <2>2. \/ cpc'[c] = "token" /\ tunnel'[d] = tunnel[d] /\ row[c].hash = Hash(Head(up[d]))
        \/ cpc'[c] = "exited"
    BY <1>1, <1>9 DEF CheckPassword, ComparePassword, HashMatches, GoOn, Stay, Exit
  <2>3. Head(up[d]) = want[d].pw /\ tunnel[d] = "open" /\ uname[c] = want[d].name
    BY <1>2, <2>1, SaidForms DEF Heard, LoginPcs
  <2>4. row[c] \in LookupReplies(uname[c]) /\ row[c].kind = "row"
    BY <2>1 DEF SessionBase, RowsInv, RowOwn
  <2>5. uname[c] \in Literal => row[c].hash = accounts[uname[c]]
    BY <2>4 DEF LookupReplies, RowOf
  <2> QED BY <1>3, <2>1, <2>2, <2>3, <2>5 DEF Heard, TypedRight, LoginPcs
<1> QED BY <1>4, <1>5, <1>6, <1>7, <1>8, <1>9 DEF Converses

\* So a child that steps hears its own peer.
LEMMA ChildHears ==
    ASSUME SessionBase, TalkInv, NEW c \in Clients, Child(c), UNCHANGED <<pc, want, accounts>>,
           NEW d \in Clients, peer'[c] = d, pc[d] \in SessionPcs
    PROVE  Heard(c, d)'
<1>1. CASE AcceptTunnel(c)
  BY <1>1, AcceptHears
<1>2. CASE Converses(c)
  <2>1. peer' = peer
    BY <1>2 DEF Converses, SslAccept, ReadUsername, ReadUsernameEof, LookupUser, ReadRow,
                CheckPassword, CheckPasswordEof, localVars
  <2> QED BY <1>2, <2>1, ConversesHears
<1>3. CASE ~AcceptTunnel(c) /\ ~Converses(c)
  BY <1>3, SilentSteps DEF SessionBase, SafePorts, Heard, LoginPcs
<1> QED BY <1>1, <1>2, <1>3

\* What a client hears of a child is a token for what it typed (478-494).
LEMMA ChildKeepsDialog ==
    ASSUME SessionBase, TalkInv, NEW c \in Clients, Child(c), UNCHANGED <<clientVars, accounts>>,
           NEW d \in Clients
    PROVE  DialogOK(d)'
<1>1. /\ up \in [Clients -> Seq(Strings)] /\ down \in [Clients -> Seq(Tokens)]
      /\ peer \in [Clients -> Clients \cup {None}]
  BY DEF SessionBase, SafePorts, TypeInv, TypeOK, NetTypeOK, ServerTypeOK
<1>2. DialogOK(d)
  BY DEF TalkInv
<1>3. UNCHANGED <<pc, want, token>> /\ TypedRight(d)' = TypedRight(d)
  BY DEF clientVars, TypedRight
<1>4. up[d] = <<>> => up'[d] = <<>>
  BY <1>1, ChildWires DEF TakeTunnelMessage
<1>5. ASSUME pc[d] \in SessionPcs, NEW i \in DOMAIN down'[d]
      PROVE  down'[d][i].name = want[d].name /\ TypedRight(d)
  <2>1. CASE down'[d] = down[d]
    BY <1>2, <1>5, <2>1 DEF DialogOK
  <2>2. CASE down'[d] # down[d]
    <3>1. /\ cpc[c] = "token"
          /\ down' = [down EXCEPT ![peer[c]] = Append(@, [by |-> c, name |-> uname[c]])]
      BY <2>2, ChildWires DEF SendToken
    <3>2. peer[c] = d
      BY <1>1, <2>2, <3>1
    <3>3. uname[c] = want[d].name /\ TypedRight(d)
      BY <1>5, <3>1, <3>2 DEF TalkInv, Heard
    <3>4. down'[d] = Append(down[d], [by |-> c, name |-> uname[c]]) /\ down[d] \in Seq(Tokens)
      BY <1>1, <3>1, <3>2
    <3>5. i \in DOMAIN down[d] \/ down'[d][i] = [by |-> c, name |-> uname[c]]
      BY <3>4
    <3>6. i \in DOMAIN down[d] => down'[d][i] = down[d][i]
      BY <3>4
    <3> QED BY <1>2, <1>5, <3>3, <3>5, <3>6 DEF DialogOK
  <2> QED BY <2>1, <2>2
<1> QED BY <1>2, <1>3, <1>4, <1>5 DEF DialogOK

\* Every step of a child keeps the third layer.
LEMMA ChildKeepsTalk ==
    ASSUME SessionBase, TunnelInv', TalkInv, NEW c \in Clients, Child(c), UNCHANGED clientVars
    PROVE  TalkInv'
<1>1. UNCHANGED accounts
  BY ChildKeepsAccounts DEF SessionBase, SafePorts, LoginsInv
<1>2. UNCHANGED <<pc, want>>
  BY DEF clientVars
<1>3. ASSUME NEW b \in Clients, NEW d \in Clients, peer'[b] = d, pc'[d] \in SessionPcs
      PROVE  Heard(b, d)'
  <2>1. CASE b = c
    BY <1>1, <1>2, <1>3, <2>1, ChildHears
  <2>2. CASE b # c
    BY <1>1, <1>2, <1>3, <2>2, OthersHear
  <2> QED BY <2>1, <2>2
<1>4. ASSUME NEW b \in Clients, NEW d \in Clients, Waiting(b, d)', pc'[d] \in SessionPcs
      PROVE  QueuedOK(d)'
  BY <1>2, <1>4, ChildKeepsQueued
<1>5. \A d \in Clients : DialogOK(d)'
  BY <1>1, ChildKeepsDialog
<1> QED BY <1>3, <1>4, <1>5 DEF TalkInv

\* A client's step leaves the other clients and the children where they are.
UserApart(d) ==
    /\ UNCHANGED <<cpc, uname, peer, accounts>>
    /\ \A e \in Clients \ {d} :
          /\ pc'[e] = pc[e] /\ want'[e] = want[e] /\ token'[e] = token[e]
          /\ tunnel'[e] = tunnel[e] /\ up'[e] = up[e] /\ down'[e] = down[e]
          /\ \A c \in Clients : Waiting(c, e)' => Waiting(c, e)

\* So does every step of a client, of its user, and its death.
LEMMA UserStaysApart ==
    ASSUME NEW d \in Clients, TypeInv, UNCHANGED serverVars,
           ClientStep(d) \/ TypeRequest(d) \/ Crash(d)
    PROVE  UserApart(d)
<1> USE DEF UserApart, Move, netVars, dataVars, socketVars, streamVars, serverVars, localVars, dbVars
<1>1. /\ tunnel \in [Clients -> TunnelStates] /\ up \in [Clients -> Seq(Strings)]
      /\ down \in [Clients -> Seq(Tokens)] /\ queue \in [Clients -> Seq(Clients)]
      /\ pc \in [Clients -> ClientPcs] /\ want \in [Clients -> ClientRequests]
      /\ token \in [Clients -> Tokens \cup {None}]
  BY DEF TypeInv, TypeOK, NetTypeOK, ClientTypeOK
<1>2. CASE Connect(d) \/ SendName(d)
  BY <1>1, <1>2 DEF Connect, SendName, Waiting
<1>3. CASE TypeRequest(d)
  BY <1>1, <1>3 DEF TypeRequest, Waiting
<1>4. CASE ReceiveAck(d) \/ ReceivePort(d) \/ ReceiveNameAck(d) \/ ReceivePasswordAck(d)
  BY <1>1, <1>4 DEF ReceiveAck, ReceivePort, ReceiveNameAck, ReceivePasswordAck, ReceiveShort, Waiting
<1>5. CASE DialRefused(d) \/ SslConnect(d) \/ SslConnectFails(d) \/ ReadTokenEof(d)
  BY <1>1, <1>5 DEF DialRefused, SslConnect, SslConnectFails, ReadTokenEof, Waiting
<1>6. CASE TellUsername(d) \/ TellPassword(d)
  BY <1>1, <1>6 DEF TellUsername, TellPassword, Write, Waiting
<1>7. CASE ReceiveSignupAck(d) \/ Crash(d)
  BY <1>1, <1>7 DEF ReceiveSignupAck, Crash, Waiting
<1>8. CASE ReadToken(d)
  BY <1>1, <1>8 DEF ReadToken, Waiting
<1>9. CASE DialSecurePort(d)
  <2>1. PICK b \in Clients : queue' = [queue EXCEPT ![b] = Append(@, d)]
    BY <1>9 DEF DialSecurePort
  <2>2. ASSUME NEW e \in Clients \ {d}, NEW c \in Clients, Waiting(c, e)' PROVE Waiting(c, e)
    <3>1. PICK i \in DOMAIN queue'[c] : queue'[c][i] = e
      BY <2>2 DEF Waiting
    <3>2. CASE c = b
      <4>1. queue[b] \in Seq(Clients) /\ queue'[c] = Append(queue[b], d)
        BY <1>1, <2>1, <3>2
      <4>2. i \in DOMAIN queue[b] /\ queue[b][i] = e
        BY <2>2, <3>1, <4>1
      <4> QED BY <3>2, <4>2 DEF Waiting
    <3>3. CASE c # b
      BY <1>1, <2>1, <3>1, <3>3 DEF Waiting
    <3> QED BY <3>2, <3>3
  <2> QED BY <1>1, <1>9, <2>2 DEF DialSecurePort
<1> QED BY <1>2, <1>3, <1>4, <1>5, <1>6, <1>7, <1>8, <1>9 DEF ClientStep

\* A client speaks when it is its turn (client.cxx:181-238).
Speaks(d) ==
    SslConnect(d) \/ TellUsername(d) \/ TellPassword(d) \/ ReceiveNameAck(d) \/ ReceivePasswordAck(d)

\* A second message after a first.
LEMMA TwoMessages ==
    ASSUME NEW S, NEW n \in S, NEW p \in S PROVE Append(<<n>>, p) = <<n, p>>
<1>1. <<n>> \in Seq(S) /\ Len(<<n>>) = 1 /\ <<n>>[1] = n
  OBVIOUS
<1>2. ASSUME NEW s \in Seq(S), Len(s) = 1, s[1] = n PROVE Append(s, p) = <<n, p>>
  <2>1. Len(s) + 1 = 2
    BY <1>2
  <2>2. /\ Append(s, p) \in Seq(S) /\ Len(Append(s, p)) = Len(s) + 1
        /\ \A i \in 1 .. Len(s) : Append(s, p)[i] = s[i]
        /\ Append(s, p)[Len(s) + 1] = p
    BY AppendProperties
  <2>3. Len(Append(s, p)) = 2 /\ Append(s, p)[1] = n
    BY <1>2, <2>1, <2>2
  <2>4. Append(s, p)[2] = p
    BY <2>1, <2>2
  <2>5. ASSUME NEW t \in Seq(S), Len(t) = 2, t[1] = n, t[2] = p PROVE t = <<n, p>>
    BY <2>5
  <2> QED BY <2>2, <2>3, <2>4, <2>5
<1> QED BY <1>1, <1>2

\* The first message of a tunnel is the name, the second the password.
LEMMA SpeakHears ==
    ASSUME SessionBase, TalkInv, NEW d \in Clients, UNCHANGED serverVars, Speaks(d), NEW c \in Clients,
           peer[c] = d, pc'[d] \in SessionPcs
    PROVE  Heard(c, d)'
<1>1. /\ tunnel \in [Clients -> TunnelStates] /\ up \in [Clients -> Seq(Strings)]
      /\ pc \in [Clients -> ClientPcs]
  BY DEF SessionBase, SafePorts, TypeInv, TypeOK, NetTypeOK, ClientTypeOK
<1>2. pc[d] \in SessionPcs /\ UNCHANGED <<cpc, uname, accounts, want, tunnel>>
  BY DEF Speaks, SslConnect, TellUsername, TellPassword, Write, ReceiveNameAck, ReceivePasswordAck,
         ReceiveShort, SessionPcs, serverVars, localVars, dbVars, netVars, socketVars
<1>3. Heard(c, d) /\ DialogOK(d) /\ want[d].svc = 0 /\ TypedRight(d)' = TypedRight(d)
  BY <1>2 DEF TalkInv, SessionBase, LoginsInv, ClientOK, TypedRight
<1>4. CASE SslConnect(d)
  <2>1. /\ tunnel[d] = "open" /\ up' = up /\ pc[d] = "handshake" /\ pc'[d] = "tellname"
    BY <1>1, <1>3, <1>4 DEF SslConnect, Move, netVars, streamVars
  <2>2. Said(d)' = Said(d)
    BY <2>1 DEF Said
  <2> QED BY <1>2, <1>3, <2>1, <2>2 DEF Heard
<1>5. CASE TellUsername(d)
  <2>1. /\ pc[d] = "tellname" /\ pc'[d] = "ack1"
        /\ tunnel[d] = "open" => up'[d] = Append(up[d], want[d].name)
    BY <1>1, <1>5 DEF TellUsername, Write, Move
  <2>2. Said(d) = <<>> /\ Said(d)' = <<want[d].name>>
    BY <1>2, <2>1 DEF Said
  <2>3. Append(<<>>, want[d].name) = <<want[d].name>>
    OBVIOUS
  <2> QED BY <1>2, <1>3, <2>1, <2>2, <2>3 DEF Heard, LoginPcs
<1>6. CASE TellPassword(d)
  <2>1. /\ pc[d] = "tellpw" /\ pc'[d] = "ack2"
        /\ tunnel[d] = "open" => up'[d] = Append(up[d], want[d].pw)
    BY <1>1, <1>6 DEF TellPassword, Write, Move
  <2>2. Said(d) = <<want[d].name>> /\ Said(d)' = <<want[d].name, want[d].pw>>
    BY <1>2, <2>1 DEF Said
  <2>3. /\ Append(<<want[d].name>>, want[d].pw) = <<want[d].name, want[d].pw>>
        /\ Append(Tail(<<want[d].name>>), want[d].pw) = Tail(<<want[d].name, want[d].pw>>)
        /\ <<want[d].name, want[d].pw>> # <<>>
    <3>1. want[d].name \in Strings /\ want[d].pw \in Strings
      BY DEF SessionBase, SafePorts, TypeInv, TypeOK, ClientTypeOK, ClientRequests
    <3>2. Tail(<<want[d].name>>) = <<>>
      OBVIOUS
    <3>3. Append(<<want[d].name>>, want[d].pw) = <<want[d].name, want[d].pw>>
      BY <3>1, TwoMessages
    <3>4. Append(<<>>, want[d].pw) = <<want[d].pw>>
      BY <3>1
    <3>5. Tail(<<want[d].name, want[d].pw>>) = <<want[d].pw>>
      OBVIOUS
    <3> QED BY <3>2, <3>3, <3>4, <3>5
  <2> QED BY <1>2, <1>3, <2>1, <2>2, <2>3 DEF Heard, LoginPcs
<1>7. CASE ReceiveNameAck(d) \/ ReceivePasswordAck(d)
  <2>1. /\ up' = up
        /\ \/ pc[d] = "ack1" /\ pc'[d] = "tellpw"
           \/ pc[d] = "ack2" /\ pc'[d] = "token"
    BY <1>1, <1>7 DEF ReceiveNameAck, ReceivePasswordAck, ReceiveShort, Move, SessionPcs, streamVars
  <2>2. Said(d)' = Said(d)
    BY <1>2, <2>1 DEF Said
  <2> QED BY <1>2, <1>3, <2>1, <2>2 DEF Heard
<1> QED BY <1>4, <1>5, <1>6, <1>7 DEF Speaks

\* It does not speak while it waits, and keeps what it knows while it speaks.
LEMMA SpeakKeepsDialog ==
    ASSUME SessionBase, TalkInv, NEW d \in Clients, UNCHANGED serverVars, Speaks(d)
    PROVE  DialogOK(d)' /\ \A c \in Clients : ~Waiting(c, d)
<1>1. pc \in [Clients -> ClientPcs] /\ up \in [Clients -> Seq(Strings)]
  BY DEF SessionBase, SafePorts, TypeInv, TypeOK, NetTypeOK, ClientTypeOK
<1>2. DialogOK(d) /\ want[d].svc = 0
  BY DEF TalkInv, SessionBase, LoginsInv, ClientOK
<1>3. pc[d] \in SessionPcs /\ UNCHANGED <<token, want, accounts, down>>
  BY DEF Speaks, SslConnect, TellUsername, TellPassword, Write, ReceiveNameAck, ReceivePasswordAck,
         ReceiveShort, SessionPcs, serverVars, dbVars, netVars, streamVars
<1>4. pc'[d] \in {"handshake", "tellname"} => pc[d] = "handshake" /\ up' = up
  BY <1>1, <1>2 DEF Speaks, SslConnect, TellUsername, TellPassword, ReceiveNameAck, ReceivePasswordAck,
                    Move, netVars, streamVars
<1>5. pc[d] = "handshake" => tunnel[d] = "open"
  BY DEF Speaks, SslConnect, TellUsername, TellPassword, ReceiveNameAck, ReceivePasswordAck
<1>6. DialogOK(d)'
  BY <1>2, <1>3, <1>4 DEF DialogOK, TypedRight, SessionPcs
<1>7. \A c \in Clients : ~Waiting(c, d)
  BY <1>3, <1>5 DEF TalkInv, QueuedOK
<1> QED BY <1>6, <1>7

\* A client that dials has never spoken or heard, and waits (client.cxx:166-179).
LEMMA DialStartsTalk ==
    ASSUME SessionBase, TalkInv, NEW d \in Clients, UNCHANGED serverVars, DialSecurePort(d)
    PROVE  DialogOK(d)' /\ QueuedOK(d)' /\ \A c \in Clients : peer'[c] # d
<1>1. pc \in [Clients -> ClientPcs] /\ tunnel \in [Clients -> TunnelStates]
  BY DEF SessionBase, SafePorts, TypeInv, TypeOK, NetTypeOK, ClientTypeOK
<1>2. tunnel[d] = "none"
  BY DialFromNowhere DEF SessionBase
<1>3. up[d] = <<>> /\ down[d] = <<>> /\ \A c \in Clients : peer[c] # d
  BY <1>2 DEF SessionBase, TunnelInv, UnusedInv
<1>4. /\ pc[d] = "dial" /\ pc'[d] = "handshake" /\ tunnel'[d] = "queued"
      /\ UNCHANGED <<up, down, want, token, peer, accounts>>
  BY <1>1 DEF DialSecurePort, Move, streamVars, serverVars, localVars, dbVars
<1>5. token[d] = None
  BY <1>4 DEF TalkInv, DialogOK
<1> QED BY <1>3, <1>4, <1>5 DEF DialogOK, QueuedOK

\* A step that leaves a session, or that is not in one.
LEMMA LeaveKeepsDialog ==
    ASSUME SessionBase, TalkInv, NEW d \in Clients, UNCHANGED serverVars,
           ClientStep(d) \/ TypeRequest(d) \/ Crash(d), ~Speaks(d), ~DialSecurePort(d)
    PROVE  DialogOK(d)' /\ pc'[d] \notin SessionPcs
<1> USE DEF Move, SessionPcs
<1>1. /\ pc \in [Clients -> ClientPcs] /\ token \in [Clients -> Tokens \cup {None}]
      /\ down \in [Clients -> Seq(Tokens)] /\ want \in [Clients -> ClientRequests]
  BY DEF SessionBase, SafePorts, TypeInv, TypeOK, NetTypeOK, ClientTypeOK
<1>2. DialogOK(d) /\ UNCHANGED accounts
  BY DEF TalkInv, serverVars, dbVars
<1>3. CASE TypeRequest(d)
  <2>1. token'[d] = None /\ pc'[d] \in {"ack0", "sendname"}
    BY <1>1, <1>3 DEF TypeRequest
  <2> QED BY <2>1 DEF DialogOK
<1>4. CASE Crash(d)
  <2>1. pc'[d] = "gone" /\ UNCHANGED <<token, want>>
    BY <1>1, <1>4 DEF Crash
  <2> QED BY <1>2, <2>1 DEF DialogOK, TypedRight
<1>5. CASE Connect(d) \/ SendName(d) \/ ReceiveAck(d) \/ ReceivePort(d) \/ DialRefused(d)
           \/ SslConnectFails(d) \/ ReceiveSignupAck(d) \/ ReadTokenEof(d)
  <2>1. /\ pc[d] \notin {"idle", "gone"} /\ UNCHANGED <<token, want>>
        /\ pc'[d] \notin SessionPcs
    BY <1>1, <1>5 DEF Connect, SendName, ReceiveAck, ReceivePort, ReceiveShort, DialRefused,
                      SslConnectFails, ReceiveSignupAck, ReadTokenEof
  <2> QED BY <1>2, <2>1 DEF DialogOK, TypedRight
<1>6. CASE ReadToken(d)
  <2>1. /\ pc[d] = "token" /\ pc'[d] = "idle" /\ UNCHANGED want
        /\ down[d] # <<>> /\ token'[d] = Head(down[d])
    BY <1>1, <1>6 DEF ReadToken
  <2>2. Head(down[d]) = down[d][1] /\ 1 \in DOMAIN down[d]
    BY <1>1, <2>1
  <2>3. token'[d].name = want[d].name /\ TypedRight(d)
    BY <1>2, <2>1, <2>2 DEF DialogOK
  <2> QED BY <1>2, <2>1, <2>3 DEF DialogOK, TypedRight
<1> QED BY <1>3, <1>4, <1>5, <1>6 DEF ClientStep, Speaks

\* Every step of a client keeps the third layer.
LEMMA UserKeepsTalk ==
    ASSUME SessionBase, TalkInv, NEW d \in Clients, UNCHANGED serverVars,
           ClientStep(d) \/ TypeRequest(d) \/ Crash(d)
    PROVE  TalkInv'
<1>1. UserApart(d)
  BY UserStaysApart DEF SessionBase, SafePorts
<1>2. ASSUME NEW c \in Clients, NEW e \in Clients, peer'[c] = e, pc'[e] \in SessionPcs
      PROVE  Heard(c, e)'
  <2>1. peer[c] = e
    BY <1>1, <1>2 DEF UserApart
  <2>2. CASE e = d
    BY <1>2, <2>1, <2>2, SpeakHears, DialStartsTalk, LeaveKeepsDialog
  <2>3. CASE e # d
    BY <1>1, <1>2, <2>1, <2>3 DEF TalkInv, UserApart, Heard, Said, TypedRight
  <2> QED BY <2>2, <2>3
<1>3. ASSUME NEW c \in Clients, NEW e \in Clients, Waiting(c, e)', pc'[e] \in SessionPcs
      PROVE  QueuedOK(e)'
  <2>1. CASE e = d /\ Speaks(d)
    <3>1. UNCHANGED queue
      BY <2>1 DEF Speaks, SslConnect, TellUsername, TellPassword, Write, ReceiveNameAck,
                  ReceivePasswordAck, ReceiveShort, netVars, socketVars
    <3> QED BY <1>3, <2>1, <3>1, SpeakKeepsDialog DEF Waiting
  <2>2. CASE e = d /\ ~Speaks(d)
    BY <1>3, <2>2, DialStartsTalk, LeaveKeepsDialog
  <2>3. CASE e # d
    BY <1>1, <1>3, <2>3 DEF TalkInv, UserApart, QueuedOK
  <2> QED BY <2>1, <2>2, <2>3
<1>4. ASSUME NEW e \in Clients PROVE DialogOK(e)'
  <2>1. CASE e = d
    BY <2>1, SpeakKeepsDialog, DialStartsTalk, LeaveKeepsDialog
  <2>2. CASE e # d
    BY <1>1, <2>2 DEF TalkInv, UserApart, DialogOK, TypedRight
  <2> QED BY <2>1, <2>2
<1> QED BY <1>2, <1>3, <1>4 DEF TalkInv

\* A fork starts a child that is in no session.
LEMMA ParentKeepsTalk ==
    ASSUME SessionBase, TalkInv, ParentStep, UNCHANGED clientVars PROVE TalkInv'
<1>1. /\ cpc \in [Clients -> ChildPcs] /\ backlog # <<>> /\ backlog \in Seq(Clients)
      /\ UNCHANGED cpc \/ cpc' = [cpc EXCEPT ![Head(backlog)] = "code"]
      /\ UNCHANGED <<uname, peer, queue, tunnel, up, down, accounts, pc, want, token>>
  BY DEF ParentStep, AcceptConnection, AcceptForkFails, TakeConnection, localVars, dbVars, socketVars,
         streamVars, clientVars, SessionBase, SafePorts, TypeInv, TypeOK, ServerTypeOK, NetTypeOK
<1>2. \A c \in Clients : cpc'[c] = cpc[c] \/ cpc'[c] = "code"
  BY <1>1
<1>3. ASSUME NEW c \in Clients, NEW d \in Clients, peer'[c] = d, pc'[d] \in SessionPcs
      PROVE  Heard(c, d)'
  BY <1>1, <1>2, <1>3 DEF TalkInv, Heard, Said, TypedRight, LoginPcs
<1>4. ASSUME NEW c \in Clients, NEW d \in Clients, Waiting(c, d)', pc'[d] \in SessionPcs
      PROVE  QueuedOK(d)'
  BY <1>1, <1>4 DEF TalkInv, Waiting, QueuedOK
<1>5. \A d \in Clients : DialogOK(d)'
  BY <1>1 DEF TalkInv, DialogOK, TypedRight
<1> QED BY <1>3, <1>4, <1>5 DEF TalkInv

\* The third layer holds at first,
LEMMA TalkInit == Init => TalkInv
<1> SUFFICES ASSUME Init PROVE TalkInv OBVIOUS
<1>1. \A d \in Clients : pc[d] = "start" /\ token[d] = None
  BY DEF Init, ClientInit
<1> QED BY <1>1 DEF TalkInv, DialogOK, SessionPcs

\* and every step keeps it.
LEMMA TalkNext == SessionBase /\ TunnelInv' /\ TalkInv /\ [Next]_vars => TalkInv'
<1> SUFFICES ASSUME SessionBase, TunnelInv', TalkInv, [Next]_vars PROVE TalkInv' OBVIOUS
<1>1. CASE ServerStep
  BY <1>1, ParentKeepsTalk, ChildKeepsTalk DEF ServerStep
<1>2. CASE UserStep
  BY <1>2, UserKeepsTalk DEF UserStep
<1>3. CASE UNCHANGED vars
  <2>1. UNCHANGED <<cpc, uname, peer, queue, tunnel, up, down, accounts, pc, want, token>>
    BY <1>3 DEF vars, netVars, socketVars, streamVars, serverVars, localVars, dbVars, clientVars
  <2>2. ASSUME NEW c \in Clients, NEW d \in Clients, peer'[c] = d, pc'[d] \in SessionPcs
        PROVE  Heard(c, d)'
    BY <2>1, <2>2 DEF TalkInv, Heard, Said, TypedRight
  <2>3. ASSUME NEW c \in Clients, NEW d \in Clients, Waiting(c, d)', pc'[d] \in SessionPcs
        PROVE  QueuedOK(d)'
    BY <2>1, <2>3 DEF TalkInv, Waiting, QueuedOK
  <2>4. \A d \in Clients : DialogOK(d)'
    BY <2>1 DEF TalkInv, DialogOK, TypedRight
  <2> QED BY <2>2, <2>3, <2>4 DEF TalkInv
<1> QED BY <1>1, <1>2, <1>3 DEF Next

----------------------------------------------------------------------------
(* The specification, for users that only log in.                          *)

\* The inductive invariant of the three layers.
SessionInv == SessionBase /\ TalkInv

\* For users that only log in the three layers hold together.
THEOREM SessionInvariant == ASSUME LoginsOnly PROVE Spec => []SessionInv
<1>1. Init => LoginsInv /\ RowsInv /\ TalkInv
  BY LoginsInit, RowsInit, TalkInit
<1>2. SafePorts /\ LoginsInv /\ [Next]_vars => LoginsInv'
  BY LoginsNext
<1>3. SafePorts /\ LoginsInv /\ RowsInv /\ [Next]_vars => RowsInv'
  BY RowsNext
<1>4. /\ SafePorts /\ TunnelInv /\ LoginsInv /\ RowsInv /\ TalkInv /\ TunnelInv' /\ [Next]_vars
      => TalkInv'
  BY TalkNext DEF SessionBase
<1>5. SafePorts /\ TunnelInv /\ LoginsInv /\ RowsInv /\ TalkInv => SessionInv
  BY DEF SessionInv, SessionBase
<1> QED BY <1>1, <1>2, <1>3, <1>4, <1>5, PortInvariant, TunnelInvariant, PTL DEF Spec

\* As long as users only log in, a login under a literal name compares with the
\* row of the name it was sent, for any number of clients and children on the
\* one database connection, whatever names the others send and whatever fails
\* (425-444).
THEOREM LookupOwnRowCorrect == ASSUME LoginsOnly PROVE Spec => []LookupOwnRow
<1>1. SessionInv => LookupOwnRow
  <2>1. \A n \in Strings : n \in Literal => \A r \in LookupReplies(n) : r.name = n
    BY DEF LookupReplies, RowOf
  <2>2. SessionInv => \A c \in Clients : uname[c] \in Strings /\ RowOwn(c)
    BY DEF SessionInv, SessionBase, RowsInv, SafePorts, TypeInv, TypeOK, ServerTypeOK
  <2> QED BY <2>1, <2>2 DEF RowOwn, LookupOwnRow
<1> QED BY <1>1, SessionInvariant, PTL

\* As long as users only log in, a client holds a token only for the name it
\* typed and, if that name is literal, only if it typed the password of that
\* account, although tunnel, port and reply are each taken by whoever comes
\* first (446-494).
THEOREM TokenVouchedCorrect == ASSUME LoginsOnly PROVE Spec => []TokenVouched
<1>1. SessionInv => TokenVouched
  BY DEF SessionInv, TalkInv, DialogOK, TypedRight, TokenVouched
<1> QED BY <1>1, SessionInvariant, PTL

----------------------------------------------------------------------------
(* The abstract service.                                                   *)

Sessions == [d \in Clients |-> SessionOf(d)]

\* Nobody has a session at first.
LEMMA AuthInit == Init => Auth!Init
BY DEF Init, ServerInit, ClientInit, SessionOf, Auth!Init

\* A client's session is of its own making.
LEMMA OthersSessions ==
    ASSUME NEW d \in Clients, UserApart(d) PROVE Sessions' = [Sessions EXCEPT ![d] = SessionOf(d)']
BY DEF UserApart, Sessions, SessionOf

\* A token that arrives grants a session that was not there (client.cxx:240-258).
LEMMA ReadTokenGrants ==
    ASSUME SessionInv, NEW d \in Clients, ReadToken(d), UserApart(d)
    PROVE  [Auth!Next]_<<accounts, Sessions>>
<1>1. /\ down \in [Clients -> Seq(Tokens)] /\ token \in [Clients -> Tokens \cup {None}]
      /\ want \in [Clients -> ClientRequests]
  BY DEF SessionInv, SessionBase, SafePorts, TypeInv, TypeOK, NetTypeOK, ClientTypeOK
<1>2. /\ token[d] = None /\ TypedRight(d)
      /\ token' = [token EXCEPT ![d] = Head(down[d])] /\ UNCHANGED <<want, accounts>>
  <2>1. pc[d] = "token" /\ down[d] # <<>>
    BY DEF ReadToken
  <2>2. 1 \in DOMAIN down[d]
    BY <1>1, <2>1
  <2>3. DialogOK(d)
    BY DEF SessionInv, TalkInv
  <2> QED BY <2>1, <2>2, <2>3 DEF DialogOK, SessionPcs, ReadToken, UserApart
<1>3. Sessions' = [Sessions EXCEPT ![d] = SessionOf(d)'] /\ Sessions[d] = None
  BY <1>2, OthersSessions DEF Sessions, SessionOf
<1>4. CASE token'[d] = None
  <2>1. SessionOf(d)' = Sessions[d]
    BY <1>3, <1>4 DEF SessionOf
  <2>2. Sessions' = Sessions
    BY <1>3, <2>1 DEF Sessions
  <2> QED BY <1>2, <2>2
<1>5. CASE token'[d] # None
  <2>1. SessionOf(d)' = [name |-> want[d].name, pw |-> want[d].pw]
    BY <1>2, <1>5 DEF SessionOf
  <2>2. [name |-> want[d].name, pw |-> want[d].pw] \in Auth!Credentials
    BY <1>1 DEF Auth!Credentials, ClientRequests
  <2>3. Auth!Vouched([name |-> want[d].name, pw |-> want[d].pw])
    BY <1>2 DEF Auth!Vouched, TypedRight
  <2>4. Auth!Grant(d)
    BY <1>2, <1>3, <2>1, <2>2, <2>3 DEF Auth!Grant, Sessions
  <2> QED BY <2>4 DEF Auth!Next
<1> QED BY <1>4, <1>5

\* A user who types the next request leaves the session, if there was one.
LEMMA TypeRequestLeaves ==
    ASSUME SessionInv, NEW d \in Clients, TypeRequest(d), UserApart(d)
    PROVE  [Auth!Next]_<<accounts, Sessions>>
<1>1. token \in [Clients -> Tokens \cup {None}]
  BY DEF SessionInv, SessionBase, SafePorts, TypeInv, TypeOK, ClientTypeOK
<1>2. token'[d] = None /\ UNCHANGED accounts
  BY <1>1 DEF TypeRequest, UserApart
<1>3. Sessions' = [Sessions EXCEPT ![d] = None]
  BY <1>2, OthersSessions DEF SessionOf
<1>4. CASE Sessions[d] = None
  <2>1. Sessions' = Sessions
    BY <1>3, <1>4 DEF Sessions
  <2> QED BY <1>2, <2>1
<1>5. CASE Sessions[d] # None
  BY <1>2, <1>3, <1>5 DEF Auth!Leave, Auth!Next, Sessions
<1> QED BY <1>4, <1>5

\* Everything else is a stutter of the service, or a step of one of the two.
LEMMA AuthNext == SessionInv /\ [Next]_vars => [Auth!Next]_<<accounts, Sessions>>
<1> SUFFICES ASSUME SessionInv, [Next]_vars PROVE [Auth!Next]_<<accounts, Sessions>> OBVIOUS
<1>1. CASE ServerStep
  <2>1. UNCHANGED <<token, want>>
    BY <1>1 DEF ServerStep, clientVars
  <2>2. UNCHANGED accounts
    <3>1. CASE ParentStep
      BY <3>1 DEF ParentStep, AcceptConnection, AcceptForkFails, dbVars
    <3>2. ASSUME NEW c \in Clients, Child(c) PROVE UNCHANGED accounts
      BY <3>2, ChildKeepsAccounts DEF SessionInv, SessionBase, SafePorts, LoginsInv
    <3> QED BY <1>1, <3>1, <3>2 DEF ServerStep
  <2> QED BY <2>1, <2>2 DEF Sessions, SessionOf
<1>2. CASE UserStep
  <2>1. PICK d \in Clients : ClientStep(d) \/ TypeRequest(d) \/ Crash(d)
    BY <1>2 DEF UserStep
  <2>2. UserApart(d)
    BY <1>2, <2>1, UserStaysApart DEF UserStep, SessionInv, SessionBase, SafePorts
  <2>3. CASE ReadToken(d)
    BY <2>2, <2>3, ReadTokenGrants
  <2>4. CASE TypeRequest(d)
    BY <2>2, <2>4, TypeRequestLeaves
  <2>5. CASE ~ReadToken(d) /\ ~TypeRequest(d)
    <3>1. UNCHANGED <<token, want>>
      BY <2>1, <2>5 DEF ClientStep, Connect, SendName, ReceiveAck, ReceivePort, ReceiveShort,
         DialSecurePort, DialRefused, SslConnect, SslConnectFails, TellUsername, TellPassword, Write,
         ReceiveNameAck, ReceivePasswordAck, ReceiveSignupAck, ReadTokenEof, Crash
    <3> QED BY <2>2, <3>1 DEF UserApart, Sessions, SessionOf
  <2> QED BY <2>1, <2>3, <2>4, <2>5
<1>3. CASE UNCHANGED vars
  BY <1>3 DEF vars, serverVars, dbVars, clientVars, Sessions, SessionOf
<1> QED BY <1>1, <1>2, <1>3 DEF Next

\* As long as users only log in, the parent, the children, the clients, their
\* streams and the one database connection implement AuthService: a session
\* under a literal name is granted only on credentials the accounts vouch for,
\* and no account changes (login_user 345-499).
THEOREM ImplementsAuthCorrect == ASSUME LoginsOnly PROVE Spec => ImplementsAuth
<1>1. SessionInv /\ [Next]_vars => [Auth!Next]_<<accounts, [d \in Clients |-> SessionOf(d)]>>
  BY AuthNext DEF Sessions
<1> QED BY <1>1, AuthInit, SessionInvariant, PTL DEF Spec, ImplementsAuth, Auth!Spec

=============================================================================
