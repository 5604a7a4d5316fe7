------------------------- MODULE LoginServerProofs -------------------------
(***************************************************************************)
(* The login system, for any set of clients, any faults and any requests:  *)
(* its types, and what the children of the server share: the secure ports, *)
(* the database connection, and the clients that connect to the ports.     *)
(*                                                                         *)
(* TypeOK is not inductive by itself: a child reads what was written into  *)
(* its peer's tunnel, so it must have a peer when it does; HasPeer says    *)
(* so.                                                                     *)
(*                                                                         *)
(* A listening socket never outlives its child, no two children listen on  *)
(* one port, and children of the same service therefore work one at a      *)
(* time.  ServicesSerial is not inductive: it rests on ListenersLive and   *)
(* on where the port numbers come from.  The parent never bumps its        *)
(* counters, so a child's copy still holds the first ports when the child  *)
(* announces one.                                                          *)
(*                                                                         *)
(* Only a child whose client died while its request code was outstanding   *)
(* takes the shared database connection down.  The strengthening follows   *)
(* the code of such a child: it has started no service, and the codes that *)
(* clients send start one.                                                 *)
(*                                                                         *)
(* Nothing in the code ties a tunnel to the child that announced the port, *)
(* yet no two children ever share one.  TunnelUnshared rests on a count    *)
(* that no variable keeps: a child announces one port in its life, so one  *)
(* port value ever travels on a data connection, so a client dials a       *)
(* listening port at most once however often its user types.               *)
(***************************************************************************)
EXTENDS LoginSystem, TLAPS

----------------------------------------------------------------------------
(* The types.                                                              *)

PeerPcs == {"handshake", "uname", "lookup", "row", "password", "token"}

HasPeer == \A c \in Clients : cpc[c] \in PeerPcs => peer[c] # None

TypeInv == TypeOK /\ HasPeer

\* The variables that say which processes and sockets are open.
ProcessesOK ==
    /\ cpc       \in [Clients -> ChildPcs]
    /\ listening \in SUBSET Clients
    /\ queue     \in [Clients -> Seq(Clients)]
    /\ tunnel    \in [Clients -> TunnelStates]

\* What the server's step must establish; the clients' variables are unchanged.
ServerSideOK == NetTypeOK /\ ServerTypeOK /\ HasPeer

----------------------------------------------------------------------------
(* The helpers.                                                            *)

\* The parts of the invariant that most steps of a child touch.
LEMMA TypesAsParts == TypeInv => ProcessesOK /\ toClient \in [Clients -> Seq(Int)]
BY DEF TypeInv, TypeOK, NetTypeOK, ServerTypeOK, ProcessesOK

\* The kernel's closing of what a child had open keeps the socket tables typed.
LEMMA CloseSecureTypes ==
    ASSUME NEW c \in Clients, ProcessesOK, CloseSecure(c), cpc' \in [Clients -> ChildPcs]
    PROVE  ProcessesOK'
<1>1. queue' \in [Clients -> Seq(Clients)]
  <2>1. <<>> \in Seq(Clients) OBVIOUS
  <2> QED BY <2>1 DEF ProcessesOK, CloseSecure
<1>2. tunnel' \in [Clients -> TunnelStates]
  BY DEF ProcessesOK, CloseSecure, TunnelStates
<1> QED BY <1>1, <1>2 DEF ProcessesOK, CloseSecure

\* So does a child's exit.
LEMMA ExitTypes == ASSUME NEW c \in Clients, ProcessesOK, Exit(c) PROVE ProcessesOK'
<1>1. cpc' \in [Clients -> ChildPcs] BY DEF Exit, ProcessesOK, ChildPcs
<1> QED BY <1>1, CloseSecureTypes DEF Exit

\* A child that goes on to a known pc keeps them typed.
LEMMA StayTypes ==
    ASSUME NEW c \in Clients, NEW s \in ChildPcs, ProcessesOK, Stay(c, s) PROVE ProcessesOK'
BY DEF Stay, ProcessesOK

\* So does one that goes on or is killed by SIGPIPE.
LEMMA GoOnTypes ==
    ASSUME NEW c \in Clients, NEW s \in ChildPcs, ProcessesOK, GoOn(c, s) PROVE ProcessesOK'
BY StayTypes, ExitTypes DEF GoOn

\* A short sent on a data connection keeps its stream typed.
LEMMA TellTypes ==
    ASSUME NEW c \in Clients, NEW n \in Int, toClient \in [Clients -> Seq(Int)], Tell(c, n)
    PROVE  toClient' \in [Clients -> Seq(Int)]
BY DEF Tell

\* A child that stays at a pc without a tunnel, or exits, needs no peer.
LEMMA KeepPeers ==
    ASSUME NEW c \in Clients, TypeInv, UNCHANGED peer,
           NEW s \in ChildPcs, s \in PeerPcs => peer[c] # None,
           cpc' = [cpc EXCEPT ![c] = s]
    PROVE  HasPeer'
BY DEF TypeInv, HasPeer, TypeOK, ServerTypeOK

\* The same for a child that stays,
LEMMA StayPeers ==
    ASSUME NEW c \in Clients, TypeInv, UNCHANGED peer,
           NEW s \in ChildPcs, s \in PeerPcs => peer[c] # None, Stay(c, s)
    PROVE  HasPeer'
BY KeepPeers DEF Stay

\* for one that exits,
LEMMA ExitPeers ==
    ASSUME NEW c \in Clients, TypeInv, UNCHANGED peer, Exit(c) PROVE HasPeer'
BY KeepPeers DEF Exit, PeerPcs, ChildPcs

\* and for one that does either.
LEMMA GoOnPeers ==
    ASSUME NEW c \in Clients, TypeInv, UNCHANGED peer,
           NEW s \in ChildPcs, s \in PeerPcs => peer[c] # None, GoOn(c, s)
    PROVE  HasPeer'
BY StayPeers, ExitPeers DEF GoOn

\* What a child takes from its tunnel is a string, and the rest stays typed.
LEMMA TunnelMessageTypes ==
    ASSUME NEW c \in Clients, TypeInv, cpc[c] \in PeerPcs, TakeTunnelMessage(c)
    PROVE  Head(up[peer[c]]) \in Strings /\ up' \in [Clients -> Seq(Strings)]
<1>1. peer[c] \in Clients
  BY DEF TypeInv, TypeOK, ServerTypeOK, HasPeer
<1>2. up \in [Clients -> Seq(Strings)] /\ up[peer[c]] # <<>>
  BY DEF TypeInv, TypeOK, NetTypeOK, TakeTunnelMessage
<1>3. up[peer[c]] \in Seq(Strings) BY <1>1, <1>2
<1>4. Head(up[peer[c]]) \in Strings /\ Tail(up[peer[c]]) \in Seq(Strings)
  BY <1>2, <1>3
<1>5. up' = [up EXCEPT ![peer[c]] = Tail(@)]
  BY DEF TakeTunnelMessage
<1>6. up' \in [Clients -> Seq(Strings)]
  BY <1>1, <1>2, <1>4, <1>5
<1> QED BY <1>4, <1>6

\* A reply read from the shared connection is a reply, and so are the others.
LEMMA ReplyTypes ==
    ASSUME TypeInv, TakeReply
    PROVE  Head(replies) \in Replies /\ replies' \in Seq(Replies)
BY DEF TypeInv, TypeOK, ServerTypeOK, TakeReply

\* A query adds a reply to the shared connection and leaves it open.
LEMMA AskTypes ==
    ASSUME TypeInv, NEW r \in Replies, Ask(r)
    PROVE  replies' \in Seq(Replies) /\ dbUp' \in BOOLEAN
BY DEF TypeInv, TypeOK, ServerTypeOK, Ask

----------------------------------------------------------------------------
(* The children's actions, one lemma each.                                 *)

\* get_request_type, recv fails (317-325).
LEMMA TypeReadCodeFails ==
    ASSUME NEW c \in Clients, TypeInv, ReadCodeFails(c) PROVE ServerSideOK'
<1>1. ProcessesOK'
  BY TypesAsParts, StayTypes DEF ReadCodeFails, ChildPcs
<1>2. toClient' \in [Clients -> Seq(Int)]
  BY TypesAsParts, TellTypes DEF ReadCodeFails
<1>3. HasPeer'
  BY StayPeers DEF ReadCodeFails, TypeInv, HasPeer, PeerPcs, ChildPcs, localVars
<1> QED
  BY <1>1, <1>2, <1>3
  DEF ReadCodeFails, ServerSideOK, ProcessesOK, TypeInv, TypeOK, NetTypeOK, ServerTypeOK,
      dataVars, parentVars, streamVars, localVars, dbVars

\* get_request_type, the ACK fails (328-333).
LEMMA TypeSendAckFails ==
    ASSUME NEW c \in Clients, TypeInv, SendAckFails(c) PROVE ServerSideOK'
<1>1. ProcessesOK'
  BY TypesAsParts, StayTypes DEF SendAckFails, ChildPcs
<1>2. toClient' \in [Clients -> Seq(Int)]
  BY TypesAsParts DEF SendAckFails, dataVars
<1>3. HasPeer'
  BY StayPeers DEF SendAckFails, TypeInv, HasPeer, PeerPcs, ChildPcs, localVars
<1>4. toServer' \in [Clients -> Seq(Messages)]
  BY DEF SendAckFails, TypeInv, TypeOK, NetTypeOK
<1> QED
  BY <1>1, <1>2, <1>3, <1>4
  DEF SendAckFails, ServerSideOK, ProcessesOK, TypeInv, TypeOK, NetTypeOK, ServerTypeOK,
      dataVars, parentVars, streamVars, localVars, dbVars

\* start, break and the destructor (287-304, 62-67).
LEMMA TypeBreakOut ==
    ASSUME NEW c \in Clients, TypeInv, BreakOut(c) PROVE ServerSideOK'
<1>1. ProcessesOK'
  BY TypesAsParts, ExitTypes DEF BreakOut, ChildPcs
<1>2. toClient' \in [Clients -> Seq(Int)]
  BY TypesAsParts DEF BreakOut, dataVars
<1>3. HasPeer'
  BY ExitPeers DEF BreakOut, TypeInv, HasPeer, PeerPcs, ChildPcs, localVars
<1> QED
  BY <1>1, <1>2, <1>3
  DEF BreakOut, ServerSideOK, ProcessesOK, TypeInv, TypeOK, NetTypeOK, ServerTypeOK,
      dataVars, parentVars, streamVars, localVars, dbVars

\* signup_user, the name and its timeout (626-656).
LEMMA TypeReadName ==
    ASSUME NEW c \in Clients, TypeInv, ReadName(c) PROVE ServerSideOK'
<1>1. ProcessesOK'
  BY TypesAsParts, GoOnTypes DEF ReadName, ChildPcs
<1>2. toClient' \in [Clients -> Seq(Int)]
  BY TypesAsParts, TellTypes DEF ReadName, TimedOut
<1>3. HasPeer'
  BY GoOnPeers DEF ReadName, TypeInv, HasPeer, PeerPcs, ChildPcs, localVars
<1>4. Head(toServer[c]) \in Messages /\ Tail(toServer[c]) \in Seq(Messages)
  BY DEF ReadName, TypeInv, TypeOK, NetTypeOK
<1>5. Head(toServer[c]).val \in Strings
  BY <1>4 DEF ReadName, Messages
<1> QED
  BY <1>1, <1>2, <1>3, <1>4, <1>5
  DEF ReadName, ServerSideOK, ProcessesOK, TypeInv, TypeOK, NetTypeOK, ServerTypeOK,
      dataVars, parentVars, streamVars, localVars, dbVars

\* signup_user, the stream has ended (626-656).
LEMMA TypeReadNameEof ==
    ASSUME NEW c \in Clients, TypeInv, ReadNameEof(c) PROVE ServerSideOK'
<1>1. ProcessesOK'
  BY TypesAsParts, GoOnTypes DEF ReadNameEof, ChildPcs
<1>2. toClient' \in [Clients -> Seq(Int)]
  BY TypesAsParts DEF ReadNameEof, dataVars
<1>3. HasPeer'
  BY GoOnPeers DEF ReadNameEof, TypeInv, HasPeer, PeerPcs, ChildPcs, localVars
<1> QED
  BY <1>1, <1>2, <1>3
  DEF ReadNameEof, ServerSideOK, ProcessesOK, TypeInv, TypeOK, NetTypeOK, ServerTypeOK,
      dataVars, parentVars, streamVars, localVars, dbVars

\* The secure port cannot be bound (384-387, 738-741).
LEMMA TypeBindFails ==
    ASSUME NEW c \in Clients, TypeInv, BindFails(c) PROVE ServerSideOK'
<1>1. ProcessesOK'
  BY TypesAsParts, ExitTypes DEF BindFails, ChildPcs
<1>2. toClient' \in [Clients -> Seq(Int)]
  BY TypesAsParts DEF BindFails, dataVars
<1>3. HasPeer'
  BY ExitPeers DEF BindFails, TypeInv, HasPeer, PeerPcs, ChildPcs, localVars
<1> QED
  BY <1>1, <1>2, <1>3
  DEF BindFails, ServerSideOK, ProcessesOK, TypeInv, TypeOK, NetTypeOK, ServerTypeOK,
      dataVars, parentVars, streamVars, localVars, dbVars

\* The TLS handshake fails (406-409, 760-763).
LEMMA TypeSslAcceptFails ==
    ASSUME NEW c \in Clients, TypeInv, SslAcceptFails(c) PROVE ServerSideOK'
<1>1. ProcessesOK'
  BY TypesAsParts, ExitTypes DEF SslAcceptFails, ChildPcs
<1>2. toClient' \in [Clients -> Seq(Int)]
  BY TypesAsParts DEF SslAcceptFails, dataVars
<1>3. HasPeer'
  BY ExitPeers DEF SslAcceptFails, TypeInv, HasPeer, PeerPcs, ChildPcs, localVars
<1> QED
  BY <1>1, <1>2, <1>3
  DEF SslAcceptFails, ServerSideOK, ProcessesOK, TypeInv, TypeOK, NetTypeOK, ServerTypeOK,
      dataVars, parentVars, streamVars, localVars, dbVars

\* login_user, the name (411-423).
LEMMA TypeReadUsername ==
    ASSUME NEW c \in Clients, TypeInv, ReadUsername(c) PROVE ServerSideOK'
<1>1. ProcessesOK'
  BY TypesAsParts, StayTypes DEF ReadUsername, ChildPcs
<1>2. toClient' \in [Clients -> Seq(Int)]
  BY TypesAsParts DEF ReadUsername, dataVars
<1>3. HasPeer'
  BY StayPeers DEF ReadUsername, TypeInv, HasPeer, PeerPcs, ChildPcs, localVars
<1>4. Head(up[peer[c]]) \in Strings /\ up' \in [Clients -> Seq(Strings)]
  BY TunnelMessageTypes DEF ReadUsername, PeerPcs
<1> QED
  BY <1>1, <1>2, <1>3, <1>4
  DEF ReadUsername, ServerSideOK, ProcessesOK, TypeInv, TypeOK, NetTypeOK, ServerTypeOK,
      dataVars, parentVars, streamVars, localVars, dbVars

\* login_user, the tunnel has ended (411-423).
LEMMA TypeReadUsernameEof ==
    ASSUME NEW c \in Clients, TypeInv, ReadUsernameEof(c) PROVE ServerSideOK'
<1>1. ProcessesOK'
  BY TypesAsParts, StayTypes DEF ReadUsernameEof, ChildPcs
<1>2. toClient' \in [Clients -> Seq(Int)]
  BY TypesAsParts DEF ReadUsernameEof, dataVars
<1>3. HasPeer'
  BY StayPeers DEF ReadUsernameEof, TypeInv, HasPeer, PeerPcs, ChildPcs, localVars
<1> QED
  BY <1>1, <1>2, <1>3
  DEF ReadUsernameEof, ServerSideOK, ProcessesOK, TypeInv, TypeOK, NetTypeOK, ServerTypeOK,
      dataVars, parentVars, streamVars, localVars, dbVars

\* login_user, executeQuery throws (429).
LEMMA TypeLookupFails ==
    ASSUME NEW c \in Clients, TypeInv, LookupFails(c) PROVE ServerSideOK'
<1>1. ProcessesOK'
  BY TypesAsParts, ExitTypes DEF LookupFails, ChildPcs
<1>2. toClient' \in [Clients -> Seq(Int)]
  BY TypesAsParts DEF LookupFails, dataVars
<1>3. HasPeer'
  BY ExitPeers DEF LookupFails, TypeInv, HasPeer, PeerPcs, ChildPcs, localVars
<1> QED
  BY <1>1, <1>2, <1>3
  DEF LookupFails, ServerSideOK, ProcessesOK, TypeInv, TypeOK, NetTypeOK, ServerTypeOK,
      dataVars, parentVars, streamVars, localVars, dbVars

\* login_user, the name was found (438-442).
LEMMA TypeReadRow ==
    ASSUME NEW c \in Clients, TypeInv, ReadRow(c) PROVE ServerSideOK'
<1>1. ProcessesOK'
  BY TypesAsParts, GoOnTypes DEF ReadRow, ChildPcs
<1>2. toClient' \in [Clients -> Seq(Int)]
  BY TypesAsParts, TellTypes DEF ReadRow, Success
<1>3. HasPeer'
  BY GoOnPeers DEF ReadRow, TypeInv, HasPeer, PeerPcs, ChildPcs, localVars
<1>4. Head(replies) \in Replies /\ replies' \in Seq(Replies)
  BY ReplyTypes DEF ReadRow
<1> QED
  BY <1>1, <1>2, <1>3, <1>4
  DEF ReadRow, TakeReply, ServerSideOK, ProcessesOK, TypeInv, TypeOK, NetTypeOK, ServerTypeOK,
      dataVars, parentVars, streamVars, localVars, dbVars

\* login_user, the name was not found (433-437).
LEMMA TypeReadNoRow ==
    ASSUME NEW c \in Clients, TypeInv, ReadNoRow(c) PROVE ServerSideOK'
<1>1. ProcessesOK'
  BY TypesAsParts, ExitTypes DEF ReadNoRow, ChildPcs
<1>2. toClient' \in [Clients -> Seq(Int)]
  BY TypesAsParts, TellTypes DEF ReadNoRow, Failure
<1>3. HasPeer'
  BY ExitPeers DEF ReadNoRow, TypeInv, HasPeer, PeerPcs, ChildPcs, localVars
<1>4. replies' \in Seq(Replies)
  BY ReplyTypes DEF ReadNoRow
<1> QED
  BY <1>1, <1>2, <1>3, <1>4
  DEF ReadNoRow, TakeReply, ServerSideOK, ProcessesOK, TypeInv, TypeOK, NetTypeOK, ServerTypeOK,
      dataVars, parentVars, streamVars, localVars, dbVars

\* login_user, the reply is no result set (429).
LEMMA TypeLookupThrows ==
    ASSUME NEW c \in Clients, TypeInv, LookupThrows(c) PROVE ServerSideOK'
<1>1. ProcessesOK'
  BY TypesAsParts, ExitTypes DEF LookupThrows, ChildPcs
<1>2. toClient' \in [Clients -> Seq(Int)]
  BY TypesAsParts DEF LookupThrows, dataVars
<1>3. HasPeer'
  BY ExitPeers DEF LookupThrows, TypeInv, HasPeer, PeerPcs, ChildPcs, localVars
<1>4. replies' \in Seq(Replies)
  BY ReplyTypes DEF LookupThrows
<1> QED
  BY <1>1, <1>2, <1>3, <1>4
  DEF LookupThrows, TakeReply, ServerSideOK, ProcessesOK, TypeInv, TypeOK, NetTypeOK, ServerTypeOK,
      dataVars, parentVars, streamVars, localVars, dbVars

\* login_user, the password (446-476).
LEMMA TypeCheckPassword ==
    ASSUME NEW c \in Clients, TypeInv, CheckPassword(c) PROVE ServerSideOK'
<1>1. ProcessesOK'
  BY TypesAsParts, GoOnTypes, ExitTypes DEF CheckPassword, ComparePassword, ChildPcs
<1>2. toClient' \in [Clients -> Seq(Int)]
  BY TypesAsParts, TellTypes DEF CheckPassword, ComparePassword, Success, Failure
<1>3. HasPeer'
  BY GoOnPeers, ExitPeers DEF CheckPassword, ComparePassword, TypeInv, HasPeer, PeerPcs, ChildPcs, localVars
<1>4. up' \in [Clients -> Seq(Strings)]
  BY TunnelMessageTypes DEF CheckPassword, PeerPcs
<1> QED
  BY <1>1, <1>2, <1>3, <1>4
  DEF CheckPassword, ServerSideOK, ProcessesOK, TypeInv, TypeOK, NetTypeOK, ServerTypeOK,
      dataVars, parentVars, streamVars, localVars, dbVars

\* login_user, the tunnel has ended (446-476).
LEMMA TypeCheckPasswordEof ==
    ASSUME NEW c \in Clients, TypeInv, CheckPasswordEof(c) PROVE ServerSideOK'
<1>1. ProcessesOK'
  BY TypesAsParts, GoOnTypes, ExitTypes, StayTypes DEF CheckPasswordEof, ComparePassword, ChildPcs
<1>2. toClient' \in [Clients -> Seq(Int)]
  BY TypesAsParts, TellTypes DEF CheckPasswordEof, ComparePassword, Success, Failure
<1>3. HasPeer'
  BY GoOnPeers, ExitPeers, StayPeers DEF CheckPasswordEof, ComparePassword, TypeInv, HasPeer, PeerPcs, ChildPcs, localVars
<1> QED
  BY <1>1, <1>2, <1>3
  DEF CheckPasswordEof, ServerSideOK, ProcessesOK, TypeInv, TypeOK, NetTypeOK, ServerTypeOK,
      dataVars, parentVars, streamVars, localVars, dbVars

\* login_user, the auth string (478-494).
LEMMA TypeSendToken ==
    ASSUME NEW c \in Clients, TypeInv, SendToken(c) PROVE ServerSideOK'
<1>1. ProcessesOK'
  BY TypesAsParts, StayTypes DEF SendToken, ChildPcs
<1>2. toClient' \in [Clients -> Seq(Int)]
  BY TypesAsParts DEF SendToken, dataVars
<1>3. HasPeer'
  BY StayPeers DEF SendToken, TypeInv, HasPeer, PeerPcs, ChildPcs, localVars
<1>4. down' \in [Clients -> Seq(Tokens)]
  <2>1. peer[c] \in Clients /\ uname[c] \in Strings
    BY DEF SendToken, TypeInv, TypeOK, ServerTypeOK, HasPeer, PeerPcs
  <2>2. [by |-> c, name |-> uname[c]] \in Tokens
    BY <2>1 DEF Tokens
  <2> QED BY <2>1, <2>2 DEF SendToken, TypeInv, TypeOK, NetTypeOK
<1> QED
  BY <1>1, <1>2, <1>3, <1>4
  DEF SendToken, ServerSideOK, ProcessesOK, TypeInv, TypeOK, NetTypeOK, ServerTypeOK,
      dataVars, parentVars, streamVars, localVars, dbVars

\* login_user, no random string (481-483).
LEMMA TypeRngFails ==
    ASSUME NEW c \in Clients, TypeInv, RngFails(c) PROVE ServerSideOK'
<1>1. ProcessesOK'
  BY TypesAsParts, ExitTypes DEF RngFails, ChildPcs
<1>2. toClient' \in [Clients -> Seq(Int)]
  BY TypesAsParts DEF RngFails, dataVars
<1>3. HasPeer'
  BY ExitPeers DEF RngFails, TypeInv, HasPeer, PeerPcs, ChildPcs, localVars
<1> QED
  BY <1>1, <1>2, <1>3
  DEF RngFails, ServerSideOK, ProcessesOK, TypeInv, TypeOK, NetTypeOK, ServerTypeOK,
      dataVars, parentVars, streamVars, localVars, dbVars

\* start, close and exit (295-298).
LEMMA TypeCloseSession ==
    ASSUME NEW c \in Clients, TypeInv, CloseSession(c) PROVE ServerSideOK'
<1>1. ProcessesOK'
  BY TypesAsParts, ExitTypes DEF CloseSession, ChildPcs
<1>2. toClient' \in [Clients -> Seq(Int)]
  BY TypesAsParts DEF CloseSession, dataVars
<1>3. HasPeer'
  BY ExitPeers DEF CloseSession, TypeInv, HasPeer, PeerPcs, ChildPcs, localVars
<1> QED
  BY <1>1, <1>2, <1>3
  DEF CloseSession, ServerSideOK, ProcessesOK, TypeInv, TypeOK, NetTypeOK, ServerTypeOK,
      dataVars, parentVars, streamVars, localVars, dbVars

\* signup_user, the result of the INSERT (691-695).
LEMMA TypeAcknowledgeSignup ==
    ASSUME NEW c \in Clients, TypeInv, AcknowledgeSignup(c) PROVE ServerSideOK'
<1>1. ProcessesOK'
  BY TypesAsParts, ExitTypes DEF AcknowledgeSignup, ChildPcs
<1>2. toClient' \in [Clients -> Seq(Int)]
  BY TypesAsParts, TellTypes DEF AcknowledgeSignup, ResultCodes, Success, Failure
<1>3. HasPeer'
  BY ExitPeers DEF AcknowledgeSignup, TypeInv, HasPeer, PeerPcs, ChildPcs, localVars
<1>4. replies' \in Seq(Replies)
  BY ReplyTypes DEF AcknowledgeSignup
<1> QED
  BY <1>1, <1>2, <1>3, <1>4
  DEF AcknowledgeSignup, TakeReply, ServerSideOK, ProcessesOK, TypeInv, TypeOK, NetTypeOK, ServerTypeOK,
      dataVars, parentVars, streamVars, localVars, dbVars

\* signup_user, the exception is caught (686-695).
LEMMA TypeInsertFails ==
    ASSUME NEW c \in Clients, TypeInv, InsertFails(c) PROVE ServerSideOK'
<1>1. ProcessesOK'
  BY TypesAsParts, ExitTypes DEF InsertFails, ChildPcs
<1>2. toClient' \in [Clients -> Seq(Int)]
  BY TypesAsParts, TellTypes DEF InsertFails, Failure
<1>3. HasPeer'
  BY ExitPeers DEF InsertFails, TypeInv, HasPeer, PeerPcs, ChildPcs, localVars
<1> QED
  BY <1>1, <1>2, <1>3
  DEF InsertFails, ServerSideOK, ProcessesOK, TypeInv, TypeOK, NetTypeOK, ServerTypeOK,
      dataVars, parentVars, streamVars, localVars, dbVars

\* get_request_type from the ACK on (327-337).
LEMMA TypeStartRequest ==
    ASSUME NEW c \in Clients, NEW code \in Int, TypeInv, StartRequest(c, code),
           toServer' \in [Clients -> Seq(Messages)]
    PROVE  ServerSideOK'
<1>1. ServiceOf(code) \in ChildPcs \ PeerPcs
  BY DEF ServiceOf, ChildPcs, PeerPcs
<1>2. ProcessesOK'
  BY <1>1, TypesAsParts, StayTypes DEF StartRequest
<1>3. toClient' \in [Clients -> Seq(Int)]
  BY TypesAsParts, TellTypes DEF StartRequest, Proceed
<1>4. HasPeer'
  BY <1>1, StayPeers DEF StartRequest
<1> QED
  BY <1>2, <1>3, <1>4
  DEF StartRequest, ServerSideOK, ProcessesOK, TypeInv, TypeOK, NetTypeOK, ServerTypeOK,
      parentVars, streamVars, dbVars

\* get_request_type with a code that arrived (314-337).
LEMMA TypeReadCode ==
    ASSUME NEW c \in Clients, TypeInv, ReadCode(c) PROVE ServerSideOK'
<1>1. Head(toServer[c]) \in Messages /\ Tail(toServer[c]) \in Seq(Messages)
  BY DEF ReadCode, TypeInv, TypeOK, NetTypeOK
<1>2. Head(toServer[c]).val \in Int
  BY <1>1 DEF ReadCode, Messages
<1>3. toServer' \in [Clients -> Seq(Messages)]
  BY <1>1 DEF ReadCode, TypeInv, TypeOK, NetTypeOK
<1> QED BY <1>2, <1>3, TypeStartRequest DEF ReadCode

\* get_request_type with a code that did not (314-337).
LEMMA TypeReadCodeEof ==
    ASSUME NEW c \in Clients, TypeInv, ReadCodeEof(c) PROVE ServerSideOK'
<1>1. PICK code \in GarbageCodes : StartRequest(c, code)
  BY DEF ReadCodeEof
<1>2. toServer' \in [Clients -> Seq(Messages)] /\ code \in Int
  BY DEF ReadCodeEof, GarbageCodes, TypeInv, TypeOK, NetTypeOK
<1> QED BY <1>1, <1>2, TypeStartRequest

\* The port is chosen and sent (349-372, 703-726).
LEMMA TypeAnnounce ==
    ASSUME NEW c \in Clients, NEW which \in {"login", "registration"}, TypeInv, Announce(c, which)
    PROVE  ServerSideOK'
<1>1. next[c] \in Counters /\ next[c][which] \in Int
  BY DEF TypeInv, TypeOK, ServerTypeOK, Counters
<1>2. Bump(next[c][which]) \in Int
  BY <1>1 DEF Bump
<1>3. next' \in [Clients \cup {Parent} -> Counters]
  BY <1>1, <1>2 DEF Announce, ChoosePort, TypeInv, TypeOK, ServerTypeOK, Counters
<1>4. port' \in [Clients -> Int] /\ port'[c] \in Int
  BY <1>1 DEF Announce, ChoosePort, TypeInv, TypeOK, NetTypeOK
<1>5. ProcessesOK'
  BY TypesAsParts, GoOnTypes DEF Announce, ChildPcs
<1>6. toClient' \in [Clients -> Seq(Int)]
  BY <1>4, TypesAsParts, TellTypes DEF Announce
<1>7. HasPeer'
  BY GoOnPeers DEF Announce, PeerPcs, ChildPcs, localVars
<1> QED
  BY <1>3, <1>4, <1>5, <1>6, <1>7
  DEF Announce, ServerSideOK, ProcessesOK, TypeInv, TypeOK, NetTypeOK, ServerTypeOK,
      parentVars, streamVars, localVars, dbVars

\* The secure port is bound (374-387, 728-741).
LEMMA TypeBindSecurePort ==
    ASSUME NEW c \in Clients, TypeInv, BindSecurePort(c) PROVE ServerSideOK'
<1>1. HasPeer'
  BY KeepPeers DEF BindSecurePort, PeerPcs, ChildPcs, localVars
<1> QED
  BY <1>1
  DEF BindSecurePort, ServerSideOK, TypeInv, TypeOK, NetTypeOK, ServerTypeOK, ChildPcs,
      dataVars, parentVars, streamVars, localVars, dbVars

\* A tunnel is accepted: the child now has a peer (390-395, 744-749).
LEMMA TypeAcceptTunnel ==
    ASSUME NEW c \in Clients, TypeInv, AcceptTunnel(c) PROVE ServerSideOK'
<1>1. Head(queue[c]) \in Clients /\ Tail(queue[c]) \in Seq(Clients)
  BY DEF AcceptTunnel, TypeInv, TypeOK, NetTypeOK
<1>2. HasPeer'
  <2>1. Head(queue[c]) # None BY <1>1, NetAssumption DEF NetAssumption
  <2> QED BY <1>1, <2>1 DEF AcceptTunnel, HasPeer, TypeInv, TypeOK, ServerTypeOK
<1>3. tunnel' \in [Clients -> TunnelStates]
  BY <1>1 DEF AcceptTunnel, TypeInv, TypeOK, NetTypeOK, TunnelStates
<1> QED
  BY <1>1, <1>2, <1>3
  DEF AcceptTunnel, ServerSideOK, TypeInv, TypeOK, NetTypeOK, ServerTypeOK, ChildPcs,
      dataVars, parentVars, streamVars, dbVars

\* The TLS handshake succeeds (406, 760).
LEMMA TypeSslAccept ==
    ASSUME NEW c \in Clients, TypeInv, SslAccept(c) PROVE ServerSideOK'
<1>1. HasPeer'
  BY DEF SslAccept, HasPeer, PeerPcs, TypeInv, TypeOK, ServerTypeOK, localVars
<1>2. tunnel' \in [Clients -> TunnelStates]
  BY DEF SslAccept, TypeInv, TypeOK, NetTypeOK, TunnelStates
<1> QED
  BY <1>1, <1>2
  DEF SslAccept, ServerSideOK, TypeInv, TypeOK, NetTypeOK, ServerTypeOK, ChildPcs,
      dataVars, parentVars, streamVars, localVars, dbVars

\* login_user, the SELECT is sent (425-429).
LEMMA TypeLookupUser ==
    ASSUME NEW c \in Clients, TypeInv, LookupUser(c) PROVE ServerSideOK'
<1>1. uname[c] \in Strings /\ accounts \in [Strings -> Hashes \cup {None}]
  BY DEF TypeInv, TypeOK, ServerTypeOK
<1>2. PICK r \in LookupReplies(uname[c]) : Ask(r)
  BY DEF LookupUser
<1>3. r \in Replies
  BY <1>1 DEF LookupReplies, RowOf, Replies, ReplyKinds
<1>4. replies' \in Seq(Replies) /\ dbUp' \in BOOLEAN
  BY <1>2, <1>3, AskTypes
<1>5. ProcessesOK'
  BY TypesAsParts, StayTypes DEF LookupUser, ChildPcs
<1>6. HasPeer'
  BY StayPeers DEF LookupUser, TypeInv, HasPeer, PeerPcs, ChildPcs, localVars
<1> QED
  BY <1>4, <1>5, <1>6
  DEF LookupUser, ServerSideOK, ProcessesOK, TypeInv, TypeOK, NetTypeOK, ServerTypeOK,
      dataVars, parentVars, streamVars, localVars

\* signup_user, the INSERT is sent (674-680).
LEMMA TypeInsertAccount ==
    ASSUME NEW c \in Clients, TypeInv, InsertAccount(c) PROVE ServerSideOK'
<1>1. uname[c] \in Strings /\ Hash(pass[c]) \in Hashes
  BY DEF Hashes, TypeInv, TypeOK, ServerTypeOK
<1>2. /\ [kind |-> "ok", name |-> uname[c], hash |-> None] \in Replies
      /\ [kind |-> "error", name |-> uname[c], hash |-> None] \in Replies
  BY <1>1 DEF Replies, ReplyKinds
<1>3. replies' \in Seq(Replies) /\ dbUp' \in BOOLEAN
  BY <1>2, AskTypes DEF InsertAccount
<1>4. accounts' \in [Strings -> Hashes \cup {None}]
  BY <1>1 DEF InsertAccount, TypeInv, TypeOK, ServerTypeOK
<1>5. ProcessesOK'
  BY TypesAsParts, StayTypes DEF InsertAccount, ChildPcs
<1>6. HasPeer'
  BY StayPeers DEF InsertAccount, PeerPcs, ChildPcs, localVars
<1> QED
  BY <1>3, <1>4, <1>5, <1>6
  DEF InsertAccount, ServerSideOK, ProcessesOK, TypeInv, TypeOK, NetTypeOK, ServerTypeOK,
      dataVars, parentVars, streamVars, localVars

\* recv_password keeps a string and frees its sockets (781-791).
LEMMA KeepPasswordTypes ==
    ASSUME NEW c \in Clients, NEW s \in Strings, TypeInv, KeepPassword(c, s), UNCHANGED peer
    PROVE  ProcessesOK' /\ HasPeer' /\ pass' \in [Clients -> Strings]
<1>1. cpc' \in [Clients -> ChildPcs]
  BY DEF KeepPassword, TypeInv, TypeOK, ServerTypeOK, ChildPcs
<1>2. ProcessesOK'
  BY <1>1, TypesAsParts, CloseSecureTypes DEF KeepPassword
<1>3. HasPeer'
  BY KeepPeers DEF KeepPassword, PeerPcs, ChildPcs
<1> QED BY <1>2, <1>3 DEF KeepPassword, TypeInv, TypeOK, ServerTypeOK

\* recv_password, the password (765-791).
LEMMA TypeReceivePassword ==
    ASSUME NEW c \in Clients, TypeInv, ReceivePassword(c) PROVE ServerSideOK'
<1>1. Head(up[peer[c]]) \in Strings /\ up' \in [Clients -> Seq(Strings)]
  BY TunnelMessageTypes DEF ReceivePassword, PeerPcs
<1>2. ProcessesOK' /\ HasPeer' /\ pass' \in [Clients -> Strings]
  BY <1>1, KeepPasswordTypes DEF ReceivePassword
<1> QED
  BY <1>1, <1>2
  DEF ReceivePassword, ServerSideOK, ProcessesOK, TypeInv, TypeOK, NetTypeOK, ServerTypeOK,
      dataVars, parentVars, dbVars

\* recv_password, the tunnel has ended (765-791).
LEMMA TypeReceivePasswordEof ==
    ASSUME NEW c \in Clients, TypeInv, ReceivePasswordEof(c) PROVE ServerSideOK'
<1>1. ProcessesOK' /\ HasPeer' /\ pass' \in [Clients -> Strings]
  <2>1. CASE KeepPassword(c, Empty)
    BY <2>1, KeepPasswordTypes, NetAssumption DEF NetAssumption, ReceivePasswordEof
  <2>2. CASE Stay(c, "spin") /\ UNCHANGED pass
    <3>1. ProcessesOK' BY <2>2, TypesAsParts, StayTypes DEF ChildPcs
    <3>2. HasPeer' BY <2>2, StayPeers DEF ReceivePasswordEof, PeerPcs, ChildPcs
    <3> QED BY <2>2, <3>1, <3>2 DEF TypeInv, TypeOK, ServerTypeOK
  <2> QED BY <2>1, <2>2 DEF ReceivePasswordEof
<1> QED
  BY <1>1
  DEF ReceivePasswordEof, ServerSideOK, ProcessesOK, TypeInv, TypeOK, NetTypeOK, ServerTypeOK,
      dataVars, parentVars, streamVars, dbVars

\* Every step of a child keeps the server's types.
LEMMA TypeChild ==
    ASSUME NEW c \in Clients, TypeInv, Child(c) PROVE ServerSideOK'
<1>1. CASE Request(c)
  BY <1>1, TypeReadCode, TypeReadCodeEof, TypeReadCodeFails, TypeSendAckFails, TypeBreakOut DEF Request
<1>2. CASE SecurePort(c)
  BY <1>2, TypeAnnounce, TypeBindSecurePort, TypeBindFails, TypeAcceptTunnel, TypeSslAccept,
     TypeSslAcceptFails DEF SecurePort, AnnounceLoginPort, AnnounceSignupPort
<1>3. CASE Login(c)
  BY <1>3, TypeReadUsername, TypeReadUsernameEof, TypeLookupUser, TypeLookupFails, TypeReadRow,
     TypeReadNoRow, TypeLookupThrows, TypeCheckPassword, TypeCheckPasswordEof, TypeSendToken,
     TypeRngFails, TypeCloseSession DEF Login
<1>4. CASE Signup(c)
  BY <1>4, TypeReadName, TypeReadNameEof, TypeReceivePassword, TypeReceivePasswordEof,
     TypeInsertAccount, TypeAcknowledgeSignup, TypeInsertFails DEF Signup
<1> QED BY <1>1, <1>2, <1>3, <1>4 DEF Child

\* So does every step of the parent (260-302).
LEMMA TypeParent ==
    ASSUME TypeInv, ParentStep PROVE ServerSideOK'
<1>1. TakeConnection => /\ Head(backlog) \in Clients
                        /\ backlog' \in Seq(Clients)
                        /\ held' \in SUBSET Clients
  BY DEF TakeConnection, TypeInv, TypeOK, NetTypeOK, ServerTypeOK
<1>2. CASE AcceptConnection
  <2>1. next' \in [Clients \cup {Parent} -> Counters]
    BY <1>2 DEF AcceptConnection, TypeInv, TypeOK, ServerTypeOK
  <2>2. HasPeer'
    BY <1>1, <1>2, KeepPeers DEF AcceptConnection, PeerPcs, ChildPcs, localVars
  <2> QED
    BY <1>1, <1>2, <2>1, <2>2
    DEF AcceptConnection, ServerSideOK, TypeInv, TypeOK, NetTypeOK, ServerTypeOK, ChildPcs,
        dataVars, socketVars, streamVars, localVars, dbVars
<1>3. CASE AcceptForkFails
  BY <1>1, <1>3
  DEF AcceptForkFails, HasPeer, ServerSideOK, TypeInv, TypeOK, NetTypeOK, ServerTypeOK,
      dataVars, socketVars, streamVars, localVars, dbVars
<1> QED BY <1>2, <1>3 DEF ParentStep

----------------------------------------------------------------------------
(* The clients' actions.                                                   *)

ClientSideOK == NetTypeOK /\ ClientTypeOK

\* A client that moves on is at a known pc.
LEMMA MoveTypes ==
    ASSUME NEW d \in Clients, NEW s \in ClientPcs, ClientTypeOK, Move(d, s)
    PROVE  pc' \in [Clients -> ClientPcs]
BY DEF Move, ClientTypeOK

\* A receive leaves the stream of shorts typed.
LEMMA ReceiveShortTypes ==
    ASSUME NEW d \in Clients, TypeInv, ReceiveShort(d)
    PROVE  NetTypeOK' /\ Head(toClient[d]) \in Int
BY DEF ReceiveShort, TypeInv, TypeOK, NetTypeOK, socketVars, streamVars

\* A write of a string leaves the tunnel's stream typed.
LEMMA WriteTypes ==
    ASSUME NEW d \in Clients, NEW s \in Strings, TypeInv, Write(d, s) PROVE NetTypeOK'
BY DEF Write, TypeInv, TypeOK, NetTypeOK, dataVars, socketVars

\* main, connect (client.cxx:59-88).
LEMMA TypeConnect ==
    ASSUME NEW d \in Clients, TypeInv, Connect(d) PROVE ClientSideOK'
<1>1. pc' \in [Clients -> ClientPcs]
  BY MoveTypes DEF Connect, ClientPcs, TypeInv, TypeOK
<1> QED
  BY <1>1 DEF Connect, ClientSideOK, TypeInv, TypeOK, NetTypeOK, ClientTypeOK,
              dataVars, socketVars, streamVars

\* The services loop and the request code (client.cxx:90-143).
LEMMA TypeTypeRequest ==
    ASSUME NEW d \in Clients, TypeInv, TypeRequest(d) PROVE ClientSideOK'
<1>1. PICK r \in Typed[d] :
        /\ want' = [want EXCEPT ![d] = r]
        /\ toServer' = [toServer EXCEPT ![d] = Append(@, [tag |-> "code", val |-> r.svc])]
        /\ Move(d, IF r.svc = 0 THEN "ack0" ELSE "sendname")
  BY DEF TypeRequest
<1>2. r \in ClientRequests
  BY ClientAssumption DEF ClientAssumption
<1>3. [tag |-> "code", val |-> r.svc] \in Messages
  BY <1>2 DEF ClientRequests, Messages
<1>4. pc' \in [Clients -> ClientPcs]
  BY <1>1, MoveTypes DEF ClientPcs, TypeInv, TypeOK
<1>5. requests' \in [Clients -> 0..MaxRequests]
  BY ClientAssumption DEF ClientAssumption, TypeRequest, TypeInv, TypeOK, ClientTypeOK
<1> QED
  BY <1>1, <1>2, <1>3, <1>4, <1>5
  DEF TypeRequest, ClientSideOK, TypeInv, TypeOK, NetTypeOK, ClientTypeOK, socketVars, streamVars

\* signup, the name (client.cxx:285-304).
LEMMA TypeSendName ==
    ASSUME NEW d \in Clients, TypeInv, SendName(d) PROVE ClientSideOK'
<1>1. pc' \in [Clients -> ClientPcs]
  BY MoveTypes DEF SendName, ClientPcs, TypeInv, TypeOK
<1>2. [tag |-> "name", val |-> want[d].name] \in Messages
  BY DEF TypeInv, TypeOK, ClientTypeOK, ClientRequests, Messages
<1>3. toServer' \in [Clients -> Seq(Messages)]
  BY <1>2 DEF SendName, TypeInv, TypeOK, NetTypeOK
<1> QED
  BY <1>1, <1>3 DEF SendName, ClientSideOK, TypeInv, TypeOK, NetTypeOK, ClientTypeOK,
                    socketVars, streamVars

\* The four places where the client receives a short and changes no socket.
LEMMA TypeReceives ==
    ASSUME NEW d \in Clients, TypeInv,
           ReceiveAck(d) \/ ReceivePort(d) \/ ReceiveNameAck(d) \/ ReceivePasswordAck(d)
    PROVE  ClientSideOK'
<1>1. ReceiveShort(d)
  BY DEF ReceiveAck, ReceivePort, ReceiveNameAck, ReceivePasswordAck
<1>2. NetTypeOK' /\ Head(toClient[d]) \in Int
  BY <1>1, ReceiveShortTypes
<1>3. pc' \in [Clients -> ClientPcs]
  BY MoveTypes DEF ReceiveAck, ReceivePort, ReceiveNameAck, ReceivePasswordAck, ClientPcs,
                   TypeInv, TypeOK
<1>4. dial' \in [Clients -> Int]
  BY <1>2 DEF ReceiveAck, ReceivePort, ReceiveNameAck, ReceivePasswordAck,
              TypeInv, TypeOK, ClientTypeOK
<1> QED
  BY <1>1, <1>2, <1>3, <1>4 DEF ReceiveShort, ClientSideOK, TypeInv, TypeOK, ClientTypeOK

\* The tunnel is connected (client.cxx:176-179, 337-340).
LEMMA TypeDialSecurePort ==
    ASSUME NEW d \in Clients, TypeInv, DialSecurePort(d) PROVE ClientSideOK'
<1>1. pc' \in [Clients -> ClientPcs]
  BY MoveTypes DEF DialSecurePort, ClientPcs, TypeInv, TypeOK
<1>2. queue' \in [Clients -> Seq(Clients)]
  BY DEF DialSecurePort, TypeInv, TypeOK, NetTypeOK
<1> QED
  BY <1>1, <1>2 DEF DialSecurePort, ClientSideOK, TypeInv, TypeOK, NetTypeOK, ClientTypeOK,
                    TunnelStates, dataVars, streamVars

\* The steps that only move the client, and those that write into the tunnel.
LEMMA TypeMoves ==
    ASSUME NEW d \in Clients, TypeInv,
           DialRefused(d) \/ SslConnect(d) \/ SslConnectFails(d) \/ ReadTokenEof(d)
    PROVE  ClientSideOK'
<1>1. pc' \in [Clients -> ClientPcs]
  BY MoveTypes DEF DialRefused, SslConnect, SslConnectFails, ReadTokenEof, ClientPcs,
                   TypeInv, TypeOK
<1>2. tunnel' \in [Clients -> TunnelStates]
  BY DEF DialRefused, SslConnect, SslConnectFails, ReadTokenEof, TypeInv, TypeOK, NetTypeOK,
         TunnelStates, netVars, socketVars
<1> QED
  BY <1>1, <1>2 DEF DialRefused, SslConnect, SslConnectFails, ReadTokenEof, ClientSideOK, TypeInv,
              TypeOK, NetTypeOK, ClientTypeOK, netVars, dataVars, socketVars, streamVars

\* The name and the password are written (client.cxx:194-230, 355-362).
LEMMA TypeTells ==
    ASSUME NEW d \in Clients, TypeInv, TellUsername(d) \/ TellPassword(d) PROVE ClientSideOK'
<1>1. want[d].name \in Strings /\ want[d].pw \in Strings
  BY DEF TypeInv, TypeOK, ClientTypeOK, ClientRequests
<1>2. NetTypeOK'
  BY <1>1, WriteTypes DEF TellUsername, TellPassword
<1>3. pc' \in [Clients -> ClientPcs]
  BY MoveTypes DEF TellUsername, TellPassword, ClientPcs, TypeInv, TypeOK
<1> QED
  BY <1>2, <1>3 DEF TellUsername, TellPassword, Write, ClientSideOK, TypeInv, TypeOK, ClientTypeOK

\* signup, the result (client.cxx:364-380).
LEMMA TypeReceiveSignupAck ==
    ASSUME NEW d \in Clients, TypeInv, ReceiveSignupAck(d) PROVE ClientSideOK'
<1>1. pc' \in [Clients -> ClientPcs]
  BY MoveTypes DEF ReceiveSignupAck, ClientPcs, TypeInv, TypeOK
<1>2. tunnel' \in [Clients -> TunnelStates]
  BY DEF ReceiveSignupAck, TypeInv, TypeOK, NetTypeOK, TunnelStates
<1>3. toClient' \in [Clients -> Seq(Int)]
  BY DEF ReceiveSignupAck, TypeInv, TypeOK, NetTypeOK
<1> QED
  BY <1>1, <1>2, <1>3 DEF ReceiveSignupAck, ClientSideOK, TypeInv, TypeOK, NetTypeOK,
                          ClientTypeOK, streamVars

\* login, the auth token (client.cxx:240-258).
LEMMA TypeReadToken ==
    ASSUME NEW d \in Clients, TypeInv, ReadToken(d) PROVE ClientSideOK'
<1>1. pc' \in [Clients -> ClientPcs]
  BY MoveTypes DEF ReadToken, ClientPcs, TypeInv, TypeOK
<1>2. Head(down[d]) \in Tokens /\ Tail(down[d]) \in Seq(Tokens)
  BY DEF ReadToken, TypeInv, TypeOK, NetTypeOK
<1> QED
  BY <1>1, <1>2 DEF ReadToken, ClientSideOK, TypeInv, TypeOK, NetTypeOK, ClientTypeOK,
                    TunnelStates, dataVars

\* The client's process ends.
LEMMA TypeCrash ==
    ASSUME NEW d \in Clients, TypeInv, Crash(d) PROVE ClientSideOK'
<1>1. pc' \in [Clients -> ClientPcs]
  BY MoveTypes DEF Crash, ClientPcs, TypeInv, TypeOK
<1> QED
  BY <1>1 DEF Crash, ClientSideOK, TypeInv, TypeOK, NetTypeOK, ClientTypeOK,
              TunnelStates, dataVars, streamVars

\* Every step on the client's side keeps its types.
LEMMA TypeUser ==
    ASSUME NEW d \in Clients, TypeInv, ClientStep(d) \/ TypeRequest(d) \/ Crash(d)
    PROVE  ClientSideOK'
BY TypeConnect, TypeTypeRequest, TypeSendName, TypeReceives, TypeDialSecurePort, TypeMoves,
   TypeTells, TypeReceiveSignupAck, TypeReadToken, TypeCrash DEF ClientStep

----------------------------------------------------------------------------
(* The specification.                                                      *)

\* The invariant holds at first.
LEMMA TypeInit == Init => TypeInv
<1> SUFFICES ASSUME Init PROVE TypeInv OBVIOUS
<1>1. NetTypeOK
  BY DEF Init, NetInit, NetTypeOK, TunnelStates
<1>2. ServerTypeOK /\ HasPeer
  BY NetAssumption, ServerAssumption
  DEF Init, ServerInit, ServerTypeOK, NetAssumption, ServerAssumption, HasPeer, PeerPcs,
      ChildPcs, Counters, FirstPorts
<1>3. ClientTypeOK
  BY NetAssumption, ClientAssumption
  DEF Init, ClientInit, ClientTypeOK, NetAssumption, ClientAssumption, ClientPcs, ClientRequests
<1> QED BY <1>1, <1>2, <1>3 DEF TypeInv, TypeOK

\* Every step keeps it.
LEMMA TypeNext == TypeInv /\ [Next]_vars => TypeInv'
<1> SUFFICES ASSUME TypeInv, [Next]_vars PROVE TypeInv' OBVIOUS
<1>1. CASE ServerStep
  <2>1. ServerSideOK'
    BY <1>1, TypeParent, TypeChild DEF ServerStep
  <2>2. ClientTypeOK'
    BY <1>1 DEF ServerStep, clientVars, TypeInv, TypeOK, ClientTypeOK
  <2> QED BY <2>1, <2>2 DEF ServerSideOK, TypeInv, TypeOK
<1>2. CASE UserStep
  <2>1. ClientSideOK'
    BY <1>2, TypeUser DEF UserStep
  <2>2. ServerTypeOK' /\ HasPeer'
    BY <1>2 DEF UserStep, serverVars, localVars, dbVars, TypeInv, TypeOK, ServerTypeOK, HasPeer
  <2> QED BY <2>1, <2>2 DEF ClientSideOK, TypeInv, TypeOK
<1>3. CASE UNCHANGED vars
  BY <1>3 DEF vars, netVars, serverVars, clientVars, dataVars, socketVars, streamVars, localVars,
              dbVars, TypeInv, TypeOK, NetTypeOK, ServerTypeOK, ClientTypeOK, HasPeer
<1> QED BY <1>1, <1>2, <1>3 DEF Next

\* Whatever the clients type and whatever fails, every variable of the login
\* system keeps its type and no child reads a tunnel it does not have.
THEOREM TypeInvariant == Spec => []TypeInv
BY TypeInit, TypeNext, PTL DEF Spec

\* The type invariant the runs check.
THEOREM TypeCorrect == Spec => []TypeOK
<1>1. TypeInv => TypeOK BY DEF TypeInv
<1> QED BY <1>1, TypeInvariant, PTL

----------------------------------------------------------------------------
(* The ports.                                                              *)

\* A child that has not yet taken a port has the counters it was forked with.
FreshCounters ==
    /\ next[Parent] = FirstPorts
    /\ \A c \in Clients : cpc[c] \in {"code", "name", "announce"} => next[c] = FirstPorts

PortOfService(c) == (svc[c] = 0 /\ port[c] = 14000) \/ (svc[c] = 1 /\ port[c] = 13000)

PortsByService == \A c \in Clients : c \in listening \/ cpc[c] = "bind" => PortOfService(c)

PortInv == ListenersLive /\ FreshCounters /\ PortsByService

----------------------------------------------------------------------------
(* The shapes a child's step takes.                                        *)

\* The child moves on and touches neither ports nor counters.
LEMMA MoveKeepsPorts ==
    ASSUME NEW c \in Clients, NEW s \in ChildPcs, TypeInv, PortInv,
           cpc' = [cpc EXCEPT ![c] = s], UNCHANGED <<listening, port, next, svc>>,
           c \in listening => s \in ListenPcs,
           s \in {"code", "name", "announce"} => cpc[c] \in {"code", "name", "announce"},
           s # "bind"
    PROVE  PortInv'
<1>1. cpc \in [Clients -> ChildPcs]
  BY DEF TypeInv, TypeOK, ServerTypeOK
<1>2. ListenersLive'
  BY <1>1 DEF PortInv, ListenersLive, TypeInv, TypeOK, NetTypeOK
<1>3. FreshCounters'
  BY <1>1 DEF PortInv, FreshCounters
<1>4. PortsByService'
  BY <1>1 DEF PortInv, PortsByService, PortOfService
<1> QED BY <1>2, <1>3, <1>4 DEF PortInv

\* The child gives up its listening socket, and perhaps its life.
LEMMA CloseKeepsPorts ==
    ASSUME NEW c \in Clients, NEW s \in {"exited", "insert"}, TypeInv, PortInv,
           cpc' = [cpc EXCEPT ![c] = s], CloseSecure(c), UNCHANGED <<port, next, svc>>
    PROVE  PortInv'
<1>1. cpc \in [Clients -> ChildPcs] /\ listening' = listening \ {c}
  BY DEF TypeInv, TypeOK, ServerTypeOK, CloseSecure
<1>2. ListenersLive'
  BY <1>1 DEF PortInv, ListenersLive, TypeInv, TypeOK, NetTypeOK
<1>3. FreshCounters'
  BY <1>1 DEF PortInv, FreshCounters
<1>4. PortsByService'
  BY <1>1 DEF PortInv, PortsByService, PortOfService
<1> QED BY <1>2, <1>3, <1>4 DEF PortInv

\* The same for an exit,
LEMMA ExitKeepsPorts ==
    ASSUME NEW c \in Clients, TypeInv, PortInv, Exit(c), UNCHANGED <<port, next, svc>>
    PROVE  PortInv'
BY CloseKeepsPorts DEF Exit

\* for a child that stays,
LEMMA StayKeepsPorts ==
    ASSUME NEW c \in Clients, NEW s \in ChildPcs, TypeInv, PortInv, Stay(c, s),
           UNCHANGED <<port, next, svc>>, c \in listening => s \in ListenPcs,
           s \in {"code", "name", "announce"} => cpc[c] \in {"code", "name", "announce"},
           s # "bind"
    PROVE  PortInv'
BY MoveKeepsPorts DEF Stay

\* and for one that goes on or is killed.
LEMMA GoOnKeepsPorts ==
    ASSUME NEW c \in Clients, NEW s \in ChildPcs, TypeInv, PortInv, GoOn(c, s),
           UNCHANGED <<port, next, svc>>, c \in listening => s \in ListenPcs,
           s \in {"code", "name", "announce"} => cpc[c] \in {"code", "name", "announce"},
           s # "bind"
    PROVE  PortInv'
BY StayKeepsPorts, ExitKeepsPorts DEF GoOn

\* A child that is not between bind and the end of its tunnel has no listener.
LEMMA NotListening ==
    ASSUME NEW c \in Clients, PortInv, cpc[c] \notin ListenPcs PROVE c \notin listening
BY DEF PortInv, ListenersLive

----------------------------------------------------------------------------
(* The actions.                                                            *)

\* The dispatch on a request code (280-293, 327-337).
LEMMA StartRequestKeepsPorts ==
    ASSUME NEW c \in Clients, NEW code, TypeInv, PortInv, StartRequest(c, code)
    PROVE  PortInv'
<1>1. c \notin listening
  BY NotListening DEF StartRequest, ListenPcs
<1>2. /\ cpc' = [cpc EXCEPT ![c] = ServiceOf(code)]
      /\ cpc \in [Clients -> ChildPcs] /\ svc \in [Clients -> Int]
      /\ svc' = [svc EXCEPT ![c] = code]
      /\ UNCHANGED <<listening, port, next>>
  BY DEF StartRequest, Stay, TypeInv, TypeOK, ServerTypeOK
<1>3. ServiceOf(code) # "bind"
  BY DEF ServiceOf
<1>4. ListenersLive'
  BY <1>1, <1>2 DEF PortInv, ListenersLive, TypeInv, TypeOK, NetTypeOK
<1>5. FreshCounters'
  BY <1>2 DEF PortInv, FreshCounters, StartRequest
<1>6. PortsByService'
  BY <1>1, <1>2, <1>3 DEF PortInv, PortsByService, PortOfService
<1> QED BY <1>4, <1>5, <1>6 DEF PortInv

\* get_request_type on all its paths.
LEMMA RequestKeepsPorts ==
    ASSUME NEW c \in Clients, TypeInv, PortInv, Request(c) PROVE PortInv'
<1>1. CASE ReadCode(c)
  BY <1>1, StartRequestKeepsPorts DEF ReadCode
<1>2. CASE ReadCodeEof(c)
  BY <1>2, StartRequestKeepsPorts DEF ReadCodeEof
<1>3. CASE ReadCodeFails(c)
  BY <1>3, StayKeepsPorts, NotListening DEF ReadCodeFails, localVars, ListenPcs, ChildPcs
<1>4. CASE SendAckFails(c)
  BY <1>4, StayKeepsPorts, NotListening DEF SendAckFails, localVars, ListenPcs, ChildPcs
<1>5. CASE BreakOut(c)
  BY <1>5, ExitKeepsPorts DEF BreakOut, localVars
<1> QED BY <1>1, <1>2, <1>3, <1>4, <1>5 DEF Request

\* The child takes the first port of its service (349-372, 703-726).
LEMMA AnnounceKeepsPorts ==
    ASSUME NEW c \in Clients, TypeInv, PortInv, AnnounceLoginPort(c) \/ AnnounceSignupPort(c)
    PROVE  PortInv'
<1>1. cpc[c] = "announce" /\ c \notin listening
  BY NotListening DEF AnnounceLoginPort, AnnounceSignupPort, Announce, ListenPcs
<1>2. next[c] = FirstPorts
  BY <1>1 DEF PortInv, FreshCounters
<1>3. /\ port' = [port EXCEPT ![c] = IF svc[c] = 0 THEN 14000 ELSE 13000]
      /\ svc[c] \in {0, 1}
  BY <1>2 DEF AnnounceLoginPort, AnnounceSignupPort, Announce, ChoosePort, FirstPorts
<1>4. \E s \in {"bind", "exited"} : cpc' = [cpc EXCEPT ![c] = s]
  BY DEF AnnounceLoginPort, AnnounceSignupPort, Announce, GoOn, Stay, Exit
<1>5. listening' = listening
  BY <1>1 DEF AnnounceLoginPort, AnnounceSignupPort, Announce, GoOn, Stay, Exit, CloseSecure
<1>6. svc' = svc /\ next'[Parent] = next[Parent]
      /\ \A d \in Clients : d # c => next'[d] = next[d]
  BY NetAssumption DEF NetAssumption, AnnounceLoginPort, AnnounceSignupPort, Announce, ChoosePort,
     localVars, TypeInv, TypeOK, ServerTypeOK
<1>7. cpc \in [Clients -> ChildPcs] /\ port \in [Clients -> Int] /\ listening \in SUBSET Clients
  BY DEF TypeInv, TypeOK, ServerTypeOK, NetTypeOK
<1>8. ListenersLive'
  BY <1>1, <1>3, <1>4, <1>5, <1>7 DEF PortInv, ListenersLive
<1>9. FreshCounters'
  BY <1>4, <1>6, <1>7 DEF PortInv, FreshCounters
<1>10. PortsByService'
  BY <1>1, <1>3, <1>4, <1>5, <1>6, <1>7 DEF PortInv, PortsByService, PortOfService
<1> QED BY <1>8, <1>9, <1>10 DEF PortInv

\* bind succeeds only if nobody else listens on the port (384, 738).
LEMMA BindKeepsPorts ==
    ASSUME NEW c \in Clients, TypeInv, PortInv, BindSecurePort(c) PROVE PortInv'
<1>1. /\ cpc[c] = "bind" /\ cpc' = [cpc EXCEPT ![c] = "accept"]
      /\ listening' = listening \cup {c}
      /\ UNCHANGED <<port, next, svc>>
      /\ \A d \in listening : port[d] # port[c]
  BY DEF BindSecurePort, PortFree, localVars
<1>2. cpc \in [Clients -> ChildPcs] /\ listening \in SUBSET Clients
  BY DEF TypeInv, TypeOK, ServerTypeOK, NetTypeOK
<1>3. ListenersLive'
  BY <1>1, <1>2 DEF PortInv, ListenersLive, ListenPcs
<1>4. FreshCounters'
  BY <1>1, <1>2 DEF PortInv, FreshCounters
<1>5. PortsByService'
  BY <1>1, <1>2 DEF PortInv, PortsByService, PortOfService
<1> QED BY <1>3, <1>4, <1>5 DEF PortInv

\* The secure port from its choice to the handshake.
LEMMA SecurePortKeepsPorts ==
    ASSUME NEW c \in Clients, TypeInv, PortInv, SecurePort(c) PROVE PortInv'
<1>1. CASE BindFails(c)
  BY <1>1, ExitKeepsPorts DEF BindFails, localVars
<1>2. CASE AcceptTunnel(c)
  BY <1>2, MoveKeepsPorts DEF AcceptTunnel, ListenPcs, ChildPcs
<1>3. CASE SslAccept(c)
  BY <1>3, MoveKeepsPorts DEF SslAccept, localVars, ListenPcs, ChildPcs
<1>4. CASE SslAcceptFails(c)
  BY <1>4, ExitKeepsPorts DEF SslAcceptFails, localVars
<1> QED BY <1>1, <1>2, <1>3, <1>4, AnnounceKeepsPorts, BindKeepsPorts DEF SecurePort

\* login_user after the handshake.
LEMMA LoginKeepsPorts ==
    ASSUME NEW c \in Clients, TypeInv, PortInv, Login(c) PROVE PortInv'
<1> USE DEF localVars, ListenPcs, ChildPcs
<1>1. CASE ReadUsername(c)      BY <1>1, StayKeepsPorts DEF ReadUsername
<1>2. CASE ReadUsernameEof(c)   BY <1>2, StayKeepsPorts DEF ReadUsernameEof
<1>3. CASE LookupUser(c)        BY <1>3, StayKeepsPorts DEF LookupUser
<1>4. CASE LookupFails(c)       BY <1>4, ExitKeepsPorts DEF LookupFails
<1>5. CASE ReadRow(c)           BY <1>5, GoOnKeepsPorts DEF ReadRow
<1>6. CASE ReadNoRow(c)         BY <1>6, ExitKeepsPorts DEF ReadNoRow
<1>7. CASE LookupThrows(c)  BY <1>7, ExitKeepsPorts DEF LookupThrows
<1>8. CASE CheckPassword(c)
  BY <1>8, GoOnKeepsPorts, ExitKeepsPorts DEF CheckPassword, ComparePassword
<1>9. CASE CheckPasswordEof(c)
  BY <1>9, GoOnKeepsPorts, ExitKeepsPorts, StayKeepsPorts DEF CheckPasswordEof, ComparePassword
<1>10. CASE SendToken(c)        BY <1>10, StayKeepsPorts DEF SendToken
<1>11. CASE RngFails(c)         BY <1>11, ExitKeepsPorts DEF RngFails
<1>12. CASE CloseSession(c)     BY <1>12, ExitKeepsPorts DEF CloseSession
<1> QED BY <1>1, <1>2, <1>3, <1>4, <1>5, <1>6, <1>7, <1>8, <1>9, <1>10, <1>11, <1>12 DEF Login

\* signup_user before and after the secure port.
LEMMA SignupKeepsPorts ==
    ASSUME NEW c \in Clients, TypeInv, PortInv, Signup(c) PROVE PortInv'
<1> USE DEF localVars, ListenPcs, ChildPcs
<1>1. CASE ReadName(c)     BY <1>1, GoOnKeepsPorts, NotListening DEF ReadName
<1>2. CASE ReadNameEof(c)  BY <1>2, GoOnKeepsPorts, NotListening DEF ReadNameEof
<1>3. CASE ReceivePassword(c)
  BY <1>3, CloseKeepsPorts DEF ReceivePassword, KeepPassword
<1>4. CASE ReceivePasswordEof(c)
  BY <1>4, CloseKeepsPorts, StayKeepsPorts DEF ReceivePasswordEof, KeepPassword
<1>5. CASE InsertAccount(c)
  BY <1>5, StayKeepsPorts, NotListening DEF InsertAccount
<1>6. CASE AcknowledgeSignup(c)  BY <1>6, ExitKeepsPorts DEF AcknowledgeSignup
<1>7. CASE InsertFails(c)        BY <1>7, ExitKeepsPorts DEF InsertFails
<1> QED BY <1>1, <1>2, <1>3, <1>4, <1>5, <1>6, <1>7 DEF Signup

\* A child can only be forked for a connection that has none yet: the parent
\* overwrites nothing but what the fork itself sets up.
LEMMA ParentKeepsPorts ==
    ASSUME TypeInv, PortInv, ParentStep,
           backlog # <<>> => Head(backlog) \notin listening
    PROVE  PortInv'
<1>1. CASE AcceptForkFails
  BY <1>1 DEF AcceptForkFails, TakeConnection, localVars, socketVars, PortInv, ListenersLive,
              FreshCounters, PortsByService, PortOfService
<1>2. CASE AcceptConnection
  <2> DEFINE c == Head(backlog)
  <2>1. c \in Clients /\ c \notin listening
    BY <1>2 DEF AcceptConnection, TakeConnection, TypeInv, TypeOK, NetTypeOK
  <2>2. /\ cpc' = [cpc EXCEPT ![c] = "code"] /\ next' = [next EXCEPT ![c] = next[Parent]]
        /\ UNCHANGED <<listening, port, svc>>
    BY <1>2 DEF AcceptConnection, socketVars, localVars
  <2>3. /\ cpc \in [Clients -> ChildPcs] /\ listening \in SUBSET Clients
        /\ next \in [Clients \cup {Parent} -> Counters]
    BY DEF TypeInv, TypeOK, ServerTypeOK, NetTypeOK
  <2> HIDE DEF c
  <2>4. ListenersLive'
    BY <2>1, <2>2, <2>3 DEF PortInv, ListenersLive
  <2>5. FreshCounters'
    BY <2>1, <2>2, <2>3, NetAssumption DEF PortInv, FreshCounters, NetAssumption
  <2>6. PortsByService'
    BY <2>1, <2>2, <2>3 DEF PortInv, PortsByService, PortOfService
  <2> QED BY <2>4, <2>5, <2>6 DEF PortInv
<1> QED BY <1>1, <1>2 DEF ParentStep

----------------------------------------------------------------------------
(* A connection waits in the backlog once, and has no child while it does, *)
(* so a fork never falls on a child that is at work.                       *)

BacklogInv ==
    /\ \A d \in Clients : pc[d] = "start" =>
          cpc[d] = "none" /\ \A i \in DOMAIN backlog : backlog[i] # d
    /\ \A i \in DOMAIN backlog : cpc[backlog[i]] = "none"
    /\ \A i, j \in DOMAIN backlog : backlog[i] = backlog[j] => i = j

ChildMoves(c) ==
    /\ cpc[c] # "none"
    /\ \E s \in ChildPcs \ {"none"} : cpc' = [cpc EXCEPT ![c] = s]
    /\ UNCHANGED backlog

\* What any step of a child may do to the connections.
LEMMA ChildStepMoves == ASSUME NEW c \in Clients, Child(c) PROVE ChildMoves(c)
<1> USE DEF ChildMoves, ChildPcs, parentVars, Stay, GoOn, Exit
<1>1. CASE Request(c)
  <2>1. ASSUME NEW code, StartRequest(c, code) PROVE ChildMoves(c)
    BY <2>1 DEF StartRequest, ServiceOf
  <2> QED
    BY <1>1, <2>1 DEF Request, ReadCode, ReadCodeEof, ReadCodeFails, SendAckFails, BreakOut
<1>2. CASE SecurePort(c)
  BY <1>2 DEF SecurePort, AnnounceLoginPort, AnnounceSignupPort, Announce, BindSecurePort,
              BindFails, AcceptTunnel, SslAccept, SslAcceptFails
<1>3. CASE Login(c)
  BY <1>3 DEF Login, ReadUsername, ReadUsernameEof, LookupUser, LookupFails, ReadRow, ReadNoRow,
              LookupThrows, CheckPassword, CheckPasswordEof, ComparePassword, SendToken,
              RngFails, CloseSession
<1>4. CASE Signup(c)
  BY <1>4 DEF Signup, ReadName, ReadNameEof, ReceivePassword, ReceivePasswordEof, KeepPassword,
              InsertAccount, AcknowledgeSignup, InsertFails
<1> QED BY <1>1, <1>2, <1>3, <1>4 DEF Child

UserMoves(d) ==
    /\ \E s \in ClientPcs \ {"start"} : pc' = [pc EXCEPT ![d] = s]
    /\ \/ UNCHANGED backlog
       \/ pc[d] = "start" /\ backlog' = Append(backlog, d)

\* What any step of a client may do to them.
LEMMA UserStepMoves ==
    ASSUME NEW d \in Clients, ClientStep(d) \/ TypeRequest(d) \/ Crash(d) PROVE UserMoves(d)
<1> USE DEF UserMoves, ClientPcs, Move, netVars
<1>1. CASE Connect(d) \/ TypeRequest(d) \/ SendName(d) \/ Crash(d)
  BY <1>1 DEF Connect, TypeRequest, SendName, Crash
<1>2. CASE ReceiveAck(d) \/ ReceivePort(d) \/ ReceiveNameAck(d) \/ ReceivePasswordAck(d) \/ ReceiveSignupAck(d)
  BY <1>2 DEF ReceiveAck, ReceivePort, ReceiveNameAck, ReceivePasswordAck, ReceiveSignupAck, ReceiveShort
<1>3. CASE DialSecurePort(d) \/ DialRefused(d) \/ SslConnect(d) \/ SslConnectFails(d)
  BY <1>3 DEF DialSecurePort, DialRefused, SslConnect, SslConnectFails
<1>4. CASE TellUsername(d) \/ TellPassword(d) \/ ReadToken(d) \/ ReadTokenEof(d)
  BY <1>4 DEF TellUsername, TellPassword, Write, ReadToken, ReadTokenEof
<1> QED BY <1>1, <1>2, <1>3, <1>4 DEF ClientStep

\* Every step keeps the backlog's invariant.
LEMMA BacklogNext == TypeInv /\ BacklogInv /\ [Next]_vars => BacklogInv'
<1> SUFFICES ASSUME TypeInv, BacklogInv, [Next]_vars PROVE BacklogInv' OBVIOUS
<1>1. /\ backlog \in Seq(Clients) /\ cpc \in [Clients -> ChildPcs]
      /\ pc \in [Clients -> ClientPcs]
  BY DEF TypeInv, TypeOK, NetTypeOK, ServerTypeOK, ClientTypeOK
<1>2. CASE ServerStep
  <2>1. UNCHANGED pc
    BY <1>2 DEF ServerStep, clientVars
  <2>2. ASSUME NEW c \in Clients, Child(c) PROVE BacklogInv'
    <3>1. ChildMoves(c) BY <2>2, ChildStepMoves
    <3> QED BY <1>1, <2>1, <3>1 DEF ChildMoves, BacklogInv
  <2>3. CASE ParentStep
    <3>1. /\ backlog # <<>> /\ backlog' = Tail(backlog)
          /\ UNCHANGED cpc \/ cpc' = [cpc EXCEPT ![Head(backlog)] = "code"]
      BY <2>3 DEF ParentStep, AcceptConnection, AcceptForkFails, TakeConnection
    <3>2. /\ Head(backlog) = backlog[1] /\ 1 \in DOMAIN backlog
          /\ \A i \in DOMAIN backlog' :
                i + 1 \in DOMAIN backlog /\ i + 1 # 1 /\ backlog'[i] = backlog[i + 1]
      BY <1>1, <3>1
    <3>3. DOMAIN backlog \subseteq Int /\ DOMAIN backlog' \subseteq Int
      BY <1>1, <3>1
    <3>4. \A i \in DOMAIN backlog' : cpc'[backlog'[i]] = "none"
      BY <1>1, <3>1, <3>2 DEF BacklogInv
    <3>5. \A i, j \in DOMAIN backlog' : backlog'[i] = backlog'[j] => i = j
      BY <3>2, <3>3 DEF BacklogInv
    <3>6. \A d \in Clients : pc[d] = "start" =>
              cpc'[d] = "none" /\ \A i \in DOMAIN backlog' : backlog'[i] # d
      BY <1>1, <3>1, <3>2 DEF BacklogInv
    <3> QED BY <2>1, <3>4, <3>5, <3>6 DEF BacklogInv
  <2> QED BY <1>2, <2>2, <2>3 DEF ServerStep
<1>3. CASE UserStep
  <2>1. PICK d \in Clients : ClientStep(d) \/ TypeRequest(d) \/ Crash(d)
    BY <1>3 DEF UserStep
  <2>2. UserMoves(d) BY <2>1, UserStepMoves
  <2>3. UNCHANGED cpc BY <1>3 DEF UserStep, serverVars
  <2>4. CASE UNCHANGED backlog
    BY <1>1, <2>2, <2>3, <2>4 DEF UserMoves, BacklogInv
  <2>5. CASE pc[d] = "start" /\ backlog' = Append(backlog, d)
    <3>1. /\ DOMAIN backlog' = 1..(Len(backlog) + 1) /\ DOMAIN backlog = 1..Len(backlog)
          /\ backlog'[Len(backlog) + 1] = d
          /\ \A i \in DOMAIN backlog : backlog'[i] = backlog[i]
      BY <1>1, <2>5
    <3> QED BY <1>1, <2>2, <2>3, <2>5, <3>1 DEF UserMoves, BacklogInv
  <2> QED BY <2>2, <2>4, <2>5 DEF UserMoves
<1>4. CASE UNCHANGED vars
  BY <1>4 DEF vars, netVars, serverVars, clientVars, BacklogInv
<1> QED BY <1>2, <1>3, <1>4 DEF Next

----------------------------------------------------------------------------
(* The specification.                                                      *)

SafePorts == TypeInv /\ BacklogInv /\ PortInv

\* The invariants hold at first.
LEMMA PortInit == Init => SafePorts
<1> SUFFICES ASSUME Init PROVE SafePorts OBVIOUS
<1>1. TypeInv BY TypeInit
<1>2. BacklogInv BY DEF Init, NetInit, ServerInit, ClientInit, BacklogInv
<1>3. PortInv
  BY DEF Init, NetInit, ServerInit, PortInv, ListenersLive, FreshCounters, PortsByService
<1> QED BY <1>1, <1>2, <1>3 DEF SafePorts

\* Every step keeps them.
LEMMA PortNext == SafePorts /\ [Next]_vars => SafePorts'
<1> SUFFICES ASSUME SafePorts, [Next]_vars PROVE SafePorts' OBVIOUS
<1>1. TypeInv' /\ BacklogInv'
  BY TypeNext, BacklogNext DEF SafePorts
<1>2. CASE ServerStep
  <2>1. backlog # <<>> => Head(backlog) \notin listening
    <3> SUFFICES ASSUME backlog # <<>> PROVE Head(backlog) \notin listening OBVIOUS
    <3>1. Head(backlog) \in Clients /\ 1 \in DOMAIN backlog /\ Head(backlog) = backlog[1]
      BY DEF SafePorts, TypeInv, TypeOK, NetTypeOK
    <3>2. cpc[Head(backlog)] = "none"
      BY <3>1 DEF SafePorts, BacklogInv
    <3> QED BY <3>1, <3>2, NotListening DEF SafePorts, ListenPcs
  <2> QED
    BY <1>2, <2>1, ParentKeepsPorts, RequestKeepsPorts, SecurePortKeepsPorts, LoginKeepsPorts,
       SignupKeepsPorts, <1>1 DEF ServerStep, Child, SafePorts
<1>3. CASE UserStep
  <2>1. UNCHANGED <<port, listening>>
    <3>1. PICK d \in Clients : ClientStep(d) \/ TypeRequest(d) \/ Crash(d)
      BY <1>3 DEF UserStep
    <3> QED
      BY <3>1 DEF ClientStep, Connect, TypeRequest, SendName, ReceiveAck, ReceivePort, ReceiveShort,
         DialSecurePort, DialRefused, SslConnect, SslConnectFails, TellUsername, TellPassword, Write,
         ReceiveNameAck, ReceivePasswordAck, ReceiveSignupAck, ReadToken, ReadTokenEof, Crash,
         netVars, socketVars
  <2> QED
    BY <1>1, <1>3, <2>1 DEF UserStep, serverVars, localVars, SafePorts, PortInv, ListenersLive,
       FreshCounters, PortsByService, PortOfService
<1>4. CASE UNCHANGED vars
  BY <1>1, <1>4 DEF vars, netVars, serverVars, socketVars, localVars, SafePorts, PortInv, ListenersLive,
     FreshCounters, PortsByService, PortOfService
<1> QED BY <1>2, <1>3, <1>4 DEF Next

\* The inductive invariant of the secure ports.
THEOREM PortInvariant == Spec => []SafePorts
BY PortInit, PortNext, PTL DEF Spec

\* For any number of clients and any failures, a secure port has at most one
\* listener and no listener outlives its child.
THEOREM ListenersLiveCorrect == Spec => []ListenersLive
<1>1. SafePorts => ListenersLive BY DEF SafePorts, PortInv
<1> QED BY <1>1, PortInvariant, PTL

\* Two listening children of one service would listen on one port.
LEMMA PortsGiveSerial == SafePorts => ServicesSerial
<1> SUFFICES ASSUME SafePorts, NEW c \in listening, NEW d \in listening, svc[c] = svc[d]
             PROVE  c = d
  BY DEF ServicesSerial
<1>1. c \in Clients /\ d \in Clients
  BY DEF SafePorts, TypeInv, TypeOK, NetTypeOK
<1>2. PortOfService(c) /\ PortOfService(d)
  BY <1>1 DEF SafePorts, PortInv, PortsByService
<1>3. port[c] = port[d]
  BY <1>2 DEF PortOfService
<1> QED BY <1>3 DEF SafePorts, PortInv, ListenersLive

\* For any number of clients, at most one child per service is between its
\* bind and the end of its tunnel: the server serves one login and one signup
\* at a time.
THEOREM ServicesSerialCorrect == Spec => []ServicesSerial
BY PortsGiveSerial, PortInvariant, PTL

----------------------------------------------------------------------------
(* The shared database connection.                                         *)

\* The request codes under way on the data connections are all in the set S.
CodesIn(S) ==
    \A d \in Clients : \A i \in DOMAIN toServer[d] :
        toServer[d][i].tag = "code" => toServer[d][i].val \in S

CodesSent == CodesIn({0, 1})

Unserved == \A c \in Clients : cpc[c] \in {"none", "code", "break"} => svc[c] = -1

BreakInv == \A c \in Clients : cpc[c] = "break" => c \in gone

DatabaseInv == CodesSent /\ Unserved /\ BreakInv /\ DatabaseOutlivesRequests

----------------------------------------------------------------------------

\* Taking a message off a data connection leaves only messages that were there.
LEMMA TakeKeepsCodes ==
    ASSUME NEW c \in Clients, NEW S, TypeInv, CodesIn(S), toServer[c] # <<>>,
           toServer' = [toServer EXCEPT ![c] = Tail(@)]
    PROVE  CodesIn(S)'
<1> SUFFICES ASSUME NEW d \in Clients, NEW i \in DOMAIN toServer'[d], toServer'[d][i].tag = "code"
             PROVE  toServer'[d][i].val \in S
  BY DEF CodesIn
<1>1. toServer \in [Clients -> Seq(Messages)]
  BY DEF TypeInv, TypeOK, NetTypeOK
<1>2. CASE d = c
  <2>1. toServer'[c] = Tail(toServer[c]) BY <1>1
  <2>2. i + 1 \in DOMAIN toServer[c] /\ toServer'[c][i] = toServer[c][i + 1]
    BY <1>1, <1>2, <2>1
  <2> QED BY <1>2, <2>2 DEF CodesIn
<1>3. CASE d # c
  BY <1>1, <1>3 DEF CodesIn
<1> QED BY <1>2, <1>3

\* Appending anything but a code outside S keeps them in it.
LEMMA SendKeepsCodes ==
    ASSUME NEW c \in Clients, NEW S, NEW m \in Messages, TypeInv, CodesIn(S),
           m.tag = "code" => m.val \in S,
           toServer' = [toServer EXCEPT ![c] = Append(@, m)]
    PROVE  CodesIn(S)'
<1> SUFFICES ASSUME NEW d \in Clients, NEW i \in DOMAIN toServer'[d], toServer'[d][i].tag = "code"
             PROVE  toServer'[d][i].val \in S
  BY DEF CodesIn
<1>1. toServer \in [Clients -> Seq(Messages)]
  BY DEF TypeInv, TypeOK, NetTypeOK
<1>2. CASE d = c
  <2>1. toServer'[c] = Append(toServer[c], m) BY <1>1
  <2>2. \/ i = Len(toServer[c]) + 1 /\ toServer'[c][i] = m
        \/ i \in DOMAIN toServer[c] /\ toServer'[c][i] = toServer[c][i]
    BY <1>1, <1>2, <2>1
  <2> QED BY <1>2, <2>2 DEF CodesIn
<1>3. CASE d # c
  BY <1>1, <1>3 DEF CodesIn
<1> QED BY <1>2, <1>3

----------------------------------------------------------------------------
(* The server's steps.                                                     *)

\* A child that is past its request code neither starts a service nor breaks.
Serves(c) ==
    /\ cpc[c] \notin {"none", "code", "break", "exited"}
    /\ \E s \in ChildPcs \ {"none", "code", "break"} : cpc' = [cpc EXCEPT ![c] = s]
    /\ UNCHANGED <<svc, dbUp, gone>>
    /\ \/ UNCHANGED toServer
       \/ toServer[c] # <<>> /\ toServer' = [toServer EXCEPT ![c] = Tail(@)]

\* A step of a service stays in the services and leaves the connection open.
LEMMA ServiceServes ==
    ASSUME NEW c \in Clients, SecurePort(c) \/ Login(c) \/ Signup(c) PROVE Serves(c)
<1> USE DEF Serves, ChildPcs, Stay, GoOn, Exit, dataVars, localVars, dbVars
<1>1. CASE SecurePort(c)
  BY <1>1 DEF SecurePort, AnnounceLoginPort, AnnounceSignupPort, Announce, BindSecurePort,
              BindFails, AcceptTunnel, SslAccept, SslAcceptFails
<1>2. CASE Login(c)
  BY <1>2 DEF Login, ReadUsername, ReadUsernameEof, LookupUser, LookupFails, ReadRow, ReadNoRow,
              LookupThrows, CheckPassword, CheckPasswordEof, ComparePassword, SendToken,
              RngFails, CloseSession, Ask, TakeReply
<1>3. CASE Signup(c)
  BY <1>3 DEF Signup, ReadName, ReadNameEof, ReceivePassword, ReceivePasswordEof, KeepPassword,
              InsertAccount, AcknowledgeSignup, InsertFails, Ask, TakeReply
<1> QED BY <1>1, <1>2, <1>3

\* Such a step keeps the invariant.
LEMMA ServesKeepsDatabase ==
    ASSUME NEW c \in Clients, TypeInv, DatabaseInv, Serves(c) PROVE DatabaseInv'
<1>1. cpc \in [Clients -> ChildPcs]
  BY DEF TypeInv, TypeOK, ServerTypeOK
<1>2. CodesSent'
  BY TakeKeepsCodes DEF Serves, DatabaseInv, CodesSent, CodesIn
<1>3. Unserved' /\ BreakInv'
  BY <1>1 DEF Serves, DatabaseInv, Unserved, BreakInv
<1>4. DatabaseOutlivesRequests'
  BY <1>1 DEF Serves, DatabaseInv, DatabaseOutlivesRequests, TypeInv, TypeOK, NetTypeOK
<1> QED BY <1>2, <1>3, <1>4 DEF DatabaseInv

\* The dispatch on a request code: an unknown one comes from a dead client.
LEMMA StartKeepsDatabase ==
    ASSUME NEW c \in Clients, NEW code \in Int, TypeInv, DatabaseInv, StartRequest(c, code),
           code = -1 => c \in gone, CodesSent'
    PROVE  DatabaseInv'
<1>1. /\ cpc \in [Clients -> ChildPcs] /\ svc \in [Clients -> Int] /\ gone \in SUBSET Clients
      /\ cpc[c] = "code"
      /\ cpc' = [cpc EXCEPT ![c] = ServiceOf(code)] /\ svc' = [svc EXCEPT ![c] = code]
      /\ UNCHANGED <<dbUp, gone>>
  BY DEF StartRequest, Stay, dbVars, TypeInv, TypeOK, ServerTypeOK, NetTypeOK
<1>2. /\ ServiceOf(code) \notin {"none", "code"}
      /\ ServiceOf(code) = "break" => code = -1
  BY DEF ServiceOf
<1>3. Unserved' /\ BreakInv'
  BY <1>1, <1>2 DEF DatabaseInv, Unserved, BreakInv
<1>4. DatabaseOutlivesRequests'
  BY <1>1 DEF DatabaseInv, DatabaseOutlivesRequests
<1> QED BY <1>3, <1>4 DEF DatabaseInv

\* get_request_type on all its paths, and the break (280-304).
LEMMA RequestKeepsDatabase ==
    ASSUME NEW c \in Clients, TypeInv, DatabaseInv, Request(c) PROVE DatabaseInv'
<1>1. /\ cpc \in [Clients -> ChildPcs] /\ gone \in SUBSET Clients
      /\ toServer \in [Clients -> Seq(Messages)]
  BY DEF TypeInv, TypeOK, ServerTypeOK, NetTypeOK
<1>2. CASE ReadCode(c)
  <2>1. CodesSent'
    BY <1>2, TakeKeepsCodes DEF ReadCode, DatabaseInv, CodesSent
  <2>2. Head(toServer[c]) = toServer[c][1] /\ 1 \in DOMAIN toServer[c]
    BY <1>1, <1>2 DEF ReadCode
  <2>3. Head(toServer[c]).val \in {0, 1}
    BY <1>2, <2>2 DEF ReadCode, DatabaseInv, CodesSent, CodesIn
  <2> QED BY <1>2, <2>1, <2>3, StartKeepsDatabase DEF ReadCode
<1>3. CASE ReadCodeEof(c)
  <2>1. CodesSent'
    BY <1>3 DEF ReadCodeEof, DatabaseInv, CodesSent, CodesIn
  <2> QED
    BY <1>3, <2>1, StartKeepsDatabase DEF ReadCodeEof, ClientEof, GarbageCodes
<1>4. CASE ReadCodeFails(c) \/ SendAckFails(c)
  <2>1. CodesSent'
    BY <1>4, TakeKeepsCodes DEF ReadCodeFails, SendAckFails, DatabaseInv, CodesSent, CodesIn
  <2>2. /\ c \in gone /\ cpc[c] = "code" /\ cpc' = [cpc EXCEPT ![c] = "break"]
        /\ UNCHANGED <<svc, gone, dbUp>>
    BY <1>4 DEF ReadCodeFails, SendAckFails, Stay, localVars, dbVars
  <2>3. Unserved' /\ BreakInv'
    BY <1>1, <2>2 DEF DatabaseInv, Unserved, BreakInv
  <2>4. DatabaseOutlivesRequests'
    BY <1>1, <2>2 DEF DatabaseInv, DatabaseOutlivesRequests
  <2> QED BY <2>1, <2>3, <2>4 DEF DatabaseInv
<1>5. CASE BreakOut(c)
  <2>1. /\ cpc[c] = "break" /\ cpc' = [cpc EXCEPT ![c] = "exited"]
        /\ UNCHANGED <<svc, gone, toServer>>
    BY <1>5 DEF BreakOut, Exit, localVars, dataVars
  <2>2. DatabaseOutlivesRequests'
    BY <1>1, <2>1 DEF DatabaseInv, DatabaseOutlivesRequests, BreakInv, Unserved
  <2> QED BY <1>1, <2>1, <2>2 DEF DatabaseInv, CodesSent, CodesIn, BreakInv, Unserved
<1> QED BY <1>2, <1>3, <1>4, <1>5 DEF Request

\* A new child has not read a code yet.
LEMMA ParentKeepsDatabase ==
    ASSUME TypeInv, BacklogInv, DatabaseInv, ParentStep PROVE DatabaseInv'
<1>1. /\ cpc \in [Clients -> ChildPcs] /\ backlog \in Seq(Clients)
      /\ backlog # <<>> /\ UNCHANGED <<svc, gone, toServer, dbUp>>
      /\ UNCHANGED cpc \/ cpc' = [cpc EXCEPT ![Head(backlog)] = "code"]
  BY DEF ParentStep, AcceptConnection, AcceptForkFails, TakeConnection, dataVars, localVars, dbVars,
         TypeInv, TypeOK, ServerTypeOK, NetTypeOK
<1>2. Head(backlog) \in Clients /\ 1 \in DOMAIN backlog /\ Head(backlog) = backlog[1]
  BY <1>1
<1>3. cpc[Head(backlog)] = "none"
  BY <1>2 DEF BacklogInv
<1>4. Unserved'
  BY <1>1, <1>2, <1>3 DEF DatabaseInv, Unserved
<1>5. BreakInv'
  BY <1>1, <1>2, <1>3 DEF DatabaseInv, BreakInv
<1>6. DatabaseOutlivesRequests'
  <2>1. \A c \in Clients : cpc[c] = "exited" => cpc'[c] = "exited"
    BY <1>1, <1>2, <1>3
  <2> QED BY <1>1, <2>1 DEF DatabaseInv, DatabaseOutlivesRequests, TypeInv, TypeOK, NetTypeOK
<1> QED BY <1>1, <1>4, <1>5, <1>6 DEF DatabaseInv, CodesSent, CodesIn

----------------------------------------------------------------------------
(* The clients' steps.                                                     *)

\* Clients send known codes and never come back to life.
LEMMA UserKeepsDatabase ==
    ASSUME NEW d \in Clients, TypeInv, DatabaseInv, UNCHANGED serverVars,
           ClientStep(d) \/ TypeRequest(d) \/ Crash(d)
    PROVE  DatabaseInv'
<1>1. UNCHANGED <<cpc, svc, dbUp>>
  BY DEF serverVars, localVars, dbVars
<1>2. gone \subseteq gone' /\ (UNCHANGED toServer \/ TypeRequest(d) \/ SendName(d))
  BY DEF ClientStep, Connect, TypeRequest, SendName, ReceiveAck, ReceivePort, ReceiveShort,
     DialSecurePort, DialRefused, SslConnect, SslConnectFails, TellUsername, TellPassword, Write,
     ReceiveNameAck, ReceivePasswordAck, ReceiveSignupAck, ReadToken, ReadTokenEof, Crash,
     netVars, dataVars
<1>3. CodesSent'
  <2>1. CASE UNCHANGED toServer
    BY <2>1 DEF DatabaseInv, CodesSent, CodesIn
  <2>2. CASE TypeRequest(d)
    <3>1. PICK r \in Typed[d] :
            toServer' = [toServer EXCEPT ![d] = Append(@, [tag |-> "code", val |-> r.svc])]
      BY <2>2 DEF TypeRequest
    <3>2. r.svc \in {0, 1}
      BY ClientAssumption DEF ClientAssumption, ClientRequests
    <3>3. [tag |-> "code", val |-> r.svc] \in Messages
      BY <3>2 DEF Messages
    <3> QED BY <3>1, <3>2, <3>3, SendKeepsCodes DEF DatabaseInv, CodesSent
  <2>3. CASE SendName(d)
    <3>1. [tag |-> "name", val |-> want[d].name] \in Messages
      BY DEF TypeInv, TypeOK, ClientTypeOK, ClientRequests, Messages
    <3> QED BY <2>3, <3>1, SendKeepsCodes DEF SendName, DatabaseInv, CodesSent
  <2> QED BY <1>2, <2>1, <2>2, <2>3
<1>4. Unserved' /\ BreakInv' /\ DatabaseOutlivesRequests'
  BY <1>1, <1>2 DEF DatabaseInv, Unserved, BreakInv, DatabaseOutlivesRequests
<1> QED BY <1>3, <1>4 DEF DatabaseInv

----------------------------------------------------------------------------
(* The specification.                                                      *)

\* The invariant holds at first.
LEMMA DatabaseInit == Init => DatabaseInv
BY DEF Init, NetInit, ServerInit, DatabaseInv, CodesSent, CodesIn, Unserved, BreakInv, DatabaseOutlivesRequests

\* Every step keeps it.
LEMMA DatabaseNext == SafePorts /\ DatabaseInv /\ [Next]_vars => DatabaseInv'
<1> SUFFICES ASSUME SafePorts, DatabaseInv, [Next]_vars PROVE DatabaseInv' OBVIOUS
<1>1. TypeInv /\ BacklogInv BY DEF SafePorts
<1>2. CASE ServerStep
  BY <1>1, <1>2, ParentKeepsDatabase, RequestKeepsDatabase, ServiceServes, ServesKeepsDatabase
  DEF ServerStep, Child
<1>3. CASE UserStep
  BY <1>1, <1>3, UserKeepsDatabase DEF UserStep
<1>4. CASE UNCHANGED vars
  BY <1>4 DEF vars, netVars, dataVars, serverVars, localVars, dbVars, DatabaseInv, CodesSent, CodesIn, Unserved,
              BreakInv, DatabaseOutlivesRequests
<1> QED BY <1>2, <1>3, <1>4 DEF Next

\* For any number of clients and any failures, no request of a live client
\* takes the shared MySQL connection away from the other processes.
THEOREM DatabaseCorrect == Spec => []DatabaseOutlivesRequests
<1>1. DatabaseInv => DatabaseOutlivesRequests BY DEF DatabaseInv
<1>2. Spec => []DatabaseInv
  BY DatabaseInit, DatabaseNext, PortInvariant, PTL DEF Spec
<1> QED BY <1>1, <1>2, PTL

----------------------------------------------------------------------------
(* The tunnels.                                                            *)

Ports == {13000, 14000}

EarlyPcs   == {"none", "code", "name", "announce"}
SessionPcs == {"handshake", "tellname", "ack1", "tellpw", "ack2", "token"}

Dialling(d) == pc[d] = "dial" /\ dial[d] \in Ports

\* A client that has never dialled is in no queue, with no child and mute.
UnusedInv ==
    \A d \in Clients : tunnel[d] = "none" =>
        /\ pc[d] \notin SessionPcs
        /\ \A c \in Clients : peer[c] # d /\ ~Waiting(c, d)
        /\ up[d] = <<>> /\ down[d] = <<>>

\* Of the port a child announces: not yet sent, under way, or read and dialled.
DialOnce ==
    \A d \in Clients :
        /\ cpc[d] \in EarlyPcs => tunnel[d] = "none" /\ ~Dialling(d)
        /\ cpc[d] \in EarlyPcs => \A i \in DOMAIN toClient[d] : toClient[d][i] \notin Ports
        /\ \A i, j \in DOMAIN toClient[d] :
              toClient[d][i] \in Ports /\ toClient[d][j] \in Ports => i = j
        /\ \A i \in DOMAIN toClient[d] :
              toClient[d][i] \in Ports => tunnel[d] = "none" /\ ~Dialling(d)
        /\ Dialling(d) => tunnel[d] = "none"

TunnelInv == UnusedInv /\ DialOnce /\ TunnelUnshared

----------------------------------------------------------------------------
(* What a step of a child may do to shorts, sockets and streams.           *)

ChildShorts(c) ==
    \/ UNCHANGED toClient
    \/ \E n \in Int \ Ports : Tell(c, n)
    \/ cpc[c] = "announce" /\ \E n \in Ports : Tell(c, n)

ChildSockets(c) ==
    \/ UNCHANGED <<queue, peer, tunnel>>
    \/ CloseSecure(c) /\ UNCHANGED peer
    \/ AcceptTunnel(c)
    \/ SslAccept(c)

ChildStreams(c) ==
    \/ UNCHANGED <<up, down>>
    \/ peer[c] \in Clients /\ \A d \in Clients \ {peer[c]} : up'[d] = up[d] /\ down'[d] = down[d]

ChildGoes(c) ==
    \E s \in ChildPcs : /\ cpc' = [cpc EXCEPT ![c] = s]
                        /\ s \in EarlyPcs => cpc[c] \in EarlyPcs \ {"announce"}

ChildEffect(c) == ChildShorts(c) /\ ChildSockets(c) /\ ChildStreams(c) /\ ChildGoes(c)

\* The shorts of the protocol that are no port.
LEMMA ShortsAreNoPorts == {Success, Failure, Proceed, TimedOut} \subseteq Int \ Ports
BY DEF Success, Failure, Proceed, TimedOut, Ports

\* get_request_type and signup's name (317-333, 634-660).
LEMMA RequestEffect ==
    ASSUME NEW c \in Clients, Request(c) \/ ReadName(c) \/ ReadNameEof(c) PROVE ChildEffect(c)
<1> USE DEF ChildEffect, ChildShorts, ChildSockets, ChildStreams, ChildGoes, ChildPcs, EarlyPcs
<1> USE DEF Stay, GoOn, Exit, dataVars, localVars, streamVars
<1>1. ASSUME NEW code, StartRequest(c, code) PROVE ChildEffect(c)
  <2>1. ChildShorts(c)
    BY <1>1, ShortsAreNoPorts DEF StartRequest
  <2>2. ServiceOf(code) \in {"announce", "name", "break", "cleanup"}
    BY DEF ServiceOf
  <2>3. ChildGoes(c)
    BY <1>1, <2>2 DEF StartRequest
  <2> QED BY <1>1, <2>1, <2>3 DEF StartRequest
<1>2. CASE ReadCode(c) \/ ReadCodeEof(c)
  BY <1>1, <1>2 DEF ReadCode, ReadCodeEof
<1>3. CASE ReadCodeFails(c)
  <2>1. 0 \in Int \ Ports BY DEF Ports
  <2> QED BY <1>3, <2>1 DEF ReadCodeFails
<1>4. CASE SendAckFails(c) \/ BreakOut(c)
  BY <1>4 DEF SendAckFails, BreakOut
<1>5. CASE ReadName(c) \/ ReadNameEof(c)
  <2>1. TimedOut \in Int \ Ports BY ShortsAreNoPorts
  <2> QED BY <1>5, <2>1 DEF ReadName, ReadNameEof
<1> QED BY <1>2, <1>3, <1>4, <1>5 DEF Request

\* The secure port (363-400, 703-760).
LEMMA SecurePortEffect ==
    ASSUME NEW c \in Clients, PortInv, TypeInv, SecurePort(c) PROVE ChildEffect(c)
<1> USE DEF ChildEffect, ChildShorts, ChildSockets, ChildStreams, ChildGoes, ChildPcs, EarlyPcs
<1> USE DEF dataVars, localVars, streamVars
<1>1. CASE AnnounceLoginPort(c) \/ AnnounceSignupPort(c)
  <2>1. cpc[c] = "announce" /\ UNCHANGED <<peer, up, down>>
    BY <1>1 DEF AnnounceLoginPort, AnnounceSignupPort, Announce
  <2>2. \E n \in Ports : Tell(c, n)
    <3>1. next[c] = FirstPorts
      BY <2>1 DEF PortInv, FreshCounters
    <3>2. port'[c] \in Ports
      BY <1>1, <3>1 DEF AnnounceLoginPort, AnnounceSignupPort, Announce, ChoosePort, FirstPorts, Ports,
                        TypeInv, TypeOK, NetTypeOK
    <3> QED BY <1>1, <3>2 DEF AnnounceLoginPort, AnnounceSignupPort, Announce
  <2>3. GoOn(c, "bind")
    BY <1>1 DEF AnnounceLoginPort, AnnounceSignupPort, Announce
  <2> QED BY <2>1, <2>2, <2>3 DEF GoOn, Stay, Exit
<1>2. CASE BindSecurePort(c) \/ BindFails(c) \/ SslAcceptFails(c)
  BY <1>2 DEF BindSecurePort, BindFails, SslAcceptFails, Exit
<1>3. CASE AcceptTunnel(c)
  <2>1. ChildGoes(c) /\ UNCHANGED <<toClient, up, down>>
    BY <1>3 DEF AcceptTunnel
  <2> QED BY <1>3, <2>1
<1>4. CASE SslAccept(c)
  <2>1. ChildGoes(c) /\ UNCHANGED <<toClient, up, down>>
    BY <1>4 DEF SslAccept
  <2> QED BY <1>4, <2>1
<1> QED BY <1>1, <1>2, <1>3, <1>4 DEF SecurePort

\* Taking a message from the tunnel touches the peer's stream alone.
LEMMA TakeMessageStreams ==
    ASSUME NEW c \in Clients, TypeInv, cpc[c] \in PeerPcs, TakeTunnelMessage(c), UNCHANGED down
    PROVE  ChildStreams(c)
<1>1. peer[c] \in Clients
  BY DEF TypeInv, TypeOK, ServerTypeOK, HasPeer
<1> QED BY <1>1 DEF ChildStreams, TakeTunnelMessage, TypeInv, TypeOK, NetTypeOK

\* login_user after the handshake (406-499).
LEMMA LoginEffect ==
    ASSUME NEW c \in Clients, TypeInv, Login(c) PROVE ChildEffect(c)
<1> USE DEF ChildEffect, ChildShorts, ChildSockets, ChildGoes, ChildPcs, EarlyPcs
<1> USE DEF Stay, GoOn, Exit, dataVars, localVars, streamVars
<1>0. Success \in Int \ Ports /\ Failure \in Int \ Ports
  BY ShortsAreNoPorts
<1>1. CASE ReadUsername(c)
  <2>1. ChildStreams(c)
    BY <1>1, TakeMessageStreams DEF ReadUsername, PeerPcs
  <2> QED BY <1>1, <2>1 DEF ReadUsername
<1>2. CASE CheckPassword(c)
  <2>1. ChildStreams(c)
    BY <1>2, TakeMessageStreams DEF CheckPassword, PeerPcs
  <2> QED BY <1>0, <1>2, <2>1 DEF CheckPassword, ComparePassword
<1>3. CASE SendToken(c)
  <2>1. peer[c] \in Clients
    BY <1>3 DEF SendToken, TypeInv, TypeOK, ServerTypeOK, HasPeer, PeerPcs
  <2>2. ChildStreams(c)
    BY <1>3, <2>1 DEF SendToken, ChildStreams, TypeInv, TypeOK, NetTypeOK
  <2> QED BY <1>3, <2>2 DEF SendToken
<1>4. CASE ReadUsernameEof(c) \/ LookupUser(c) \/ LookupFails(c) \/ RngFails(c) \/ CloseSession(c)
  BY <1>4 DEF ReadUsernameEof, LookupUser, LookupFails, RngFails, CloseSession, ChildStreams
<1>5. CASE ReadRow(c) \/ ReadNoRow(c) \/ LookupThrows(c)
  BY <1>0, <1>5 DEF ReadRow, ReadNoRow, LookupThrows, ChildStreams
<1>6. CASE CheckPasswordEof(c)
  BY <1>0, <1>6 DEF CheckPasswordEof, ComparePassword, ChildStreams
<1> QED BY <1>1, <1>2, <1>3, <1>4, <1>5, <1>6 DEF Login

\* signup_user after its secure port (754-826).
LEMMA SignupEffect ==
    ASSUME NEW c \in Clients, TypeInv, Signup(c) PROVE ChildEffect(c)
<1> USE DEF ChildEffect, ChildShorts, ChildSockets, ChildGoes, ChildPcs, EarlyPcs
<1> USE DEF Stay, GoOn, Exit, dataVars, localVars, streamVars
<1>0. Success \in Int \ Ports /\ Failure \in Int \ Ports
  BY ShortsAreNoPorts
<1>1. CASE ReceivePassword(c)
  <2>1. ChildStreams(c)
    BY <1>1, TakeMessageStreams DEF ReceivePassword, PeerPcs
  <2> QED BY <1>1, <2>1 DEF ReceivePassword, KeepPassword
<1>2. CASE ReceivePasswordEof(c) \/ InsertAccount(c)
  BY <1>2 DEF ReceivePasswordEof, KeepPassword, InsertAccount, ChildStreams
<1>3. CASE AcknowledgeSignup(c) \/ InsertFails(c)
  <2>1. \A k : ResultCodes(k) \subseteq {Success, Failure}
    BY DEF ResultCodes
  <2> QED BY <1>0, <1>3, <2>1 DEF AcknowledgeSignup, InsertFails, ChildStreams
<1> QED BY <1>1, <1>2, <1>3, RequestEffect DEF Signup

\* Hence for every step of a child.
LEMMA ChildEffects == ASSUME NEW c \in Clients, TypeInv, PortInv, Child(c) PROVE ChildEffect(c)
BY RequestEffect, SecurePortEffect, LoginEffect, SignupEffect DEF Child

----------------------------------------------------------------------------
(* What those effects leave of the invariant.                              *)

\* Whoever has dialled stays one who has, and nobody else becomes one.
LEMMA ChildKeepsUsed ==
    ASSUME NEW c \in Clients, TypeInv, UnusedInv, ChildSockets(c), NEW d \in Clients
    PROVE  tunnel'[d] = "none" <=> tunnel[d] = "none"
<1>1. tunnel \in [Clients -> TunnelStates] /\ queue \in [Clients -> Seq(Clients)]
  BY DEF TypeInv, TypeOK, NetTypeOK
<1>2. CASE CloseSecure(c)
  BY <1>1, <1>2 DEF CloseSecure, UnusedInv
<1>3. CASE AcceptTunnel(c)
  <2>1. Head(queue[c]) \in Clients /\ Waiting(c, Head(queue[c]))
    BY <1>1, <1>3 DEF AcceptTunnel, Waiting
  <2> QED BY <1>1, <1>3, <2>1 DEF AcceptTunnel, UnusedInv
<1>4. CASE SslAccept(c)
  BY <1>1, <1>4 DEF SslAccept
<1> QED BY <1>2, <1>3, <1>4 DEF ChildSockets

\* A tunnel waits where it waited before, if at all.
LEMMA ChildQueues ==
    ASSUME NEW c \in Clients, TypeInv, ChildSockets(c), NEW b \in Clients, NEW d \in Clients
    PROVE  Waiting(b, d)' => Waiting(b, d)
<1>1. queue \in [Clients -> Seq(Clients)]
  BY DEF TypeInv, TypeOK, NetTypeOK
<1>2. CASE UNCHANGED queue
  BY <1>2 DEF Waiting
<1>3. CASE queue' = [queue EXCEPT ![c] = <<>>]
  BY <1>1, <1>3 DEF Waiting
<1>4. CASE AcceptTunnel(c)
  <2>1. queue' = [queue EXCEPT ![c] = Tail(@)] /\ queue[c] # <<>>
    BY <1>4 DEF AcceptTunnel
  <2>2. CASE b = c
    <3> SUFFICES ASSUME NEW i \in DOMAIN queue'[b], queue'[b][i] = d PROVE Waiting(b, d)
      BY DEF Waiting
    <3>1. i + 1 \in DOMAIN queue[b] /\ queue[b][i + 1] = d
      BY <1>1, <2>1, <2>2
    <3> QED BY <3>1 DEF Waiting
  <2>3. CASE b # c
    BY <1>1, <2>1, <2>3 DEF Waiting
  <2> QED BY <2>2, <2>3
<1> QED BY <1>2, <1>3, <1>4 DEF ChildSockets, CloseSecure, SslAccept

\* A child's peer is its old one, or came from its own queue.
LEMMA ChildPeers ==
    ASSUME NEW c \in Clients, TypeInv, ChildSockets(c), NEW b \in Clients, NEW d \in Clients,
           peer'[b] = d
    PROVE  peer[b] = d \/ (b = c /\ Waiting(c, d))
<1>1. peer \in [Clients -> Clients \cup {None}] /\ queue \in [Clients -> Seq(Clients)]
  BY DEF TypeInv, TypeOK, NetTypeOK, ServerTypeOK
<1>2. CASE UNCHANGED peer
  BY <1>2
<1>3. CASE AcceptTunnel(c)
  <2>1. Waiting(c, Head(queue[c]))
    BY <1>1, <1>3 DEF AcceptTunnel, Waiting
  <2> QED BY <1>1, <1>3, <2>1 DEF AcceptTunnel
<1> QED BY <1>2, <1>3 DEF ChildSockets, SslAccept, localVars

\* A child's step disturbs nothing of a client that has never dialled.
LEMMA ChildKeepsUnused ==
    ASSUME NEW c \in Clients, TypeInv, UnusedInv, ChildSockets(c), ChildStreams(c), UNCHANGED pc
    PROVE  UnusedInv'
<1> SUFFICES ASSUME NEW d \in Clients, tunnel'[d] = "none"
             PROVE  /\ pc'[d] \notin SessionPcs
                    /\ \A b \in Clients : peer'[b] # d /\ ~Waiting(b, d)'
                    /\ up'[d] = <<>> /\ down'[d] = <<>>
  BY DEF UnusedInv
<1>1. tunnel[d] = "none" BY ChildKeepsUsed
<1>2. /\ pc[d] \notin SessionPcs
      /\ \A b \in Clients : peer[b] # d /\ ~Waiting(b, d)
      /\ up[d] = <<>> /\ down[d] = <<>>
  BY <1>1 DEF UnusedInv
<1>3. \A b \in Clients : peer'[b] # d /\ ~Waiting(b, d)'
  BY <1>2, ChildPeers, ChildQueues
<1>4. up'[d] = <<>> /\ down'[d] = <<>>
  BY <1>2 DEF ChildStreams
<1> QED BY <1>2, <1>3, <1>4

\* A child that pops a tunnel is the only one to have it.
LEMMA AcceptKeepsUnshared ==
    ASSUME NEW c \in Clients, TypeInv, TunnelUnshared, AcceptTunnel(c) PROVE TunnelUnshared'
<1>1. /\ peer \in [Clients -> Clients \cup {None}] /\ queue \in [Clients -> Seq(Clients)]
      /\ queue[c] # <<>> /\ queue[c] \in Seq(Clients)
  BY DEF TypeInv, TypeOK, NetTypeOK, ServerTypeOK, AcceptTunnel
<1>2. PICK e \in Clients : e = Head(queue[c]) /\ e = queue[c][1] /\ 1 \in DOMAIN queue[c]
  BY <1>1
<1>3. peer' = [peer EXCEPT ![c] = e] /\ queue' = [queue EXCEPT ![c] = Tail(@)]
  BY <1>2 DEF AcceptTunnel
<1>4. \A i \in DOMAIN queue'[c] :
        i + 1 \in DOMAIN queue[c] /\ queue'[c][i] = queue[c][i + 1] /\ i \in Nat /\ i # 0
  BY <1>1, <1>3
<1>5. Waiting(c, e)
  BY <1>2 DEF Waiting
<1>6. \A b \in Clients : peer[b] # e
  <2> SUFFICES ASSUME NEW b \in Clients, peer[b] = e PROVE FALSE OBVIOUS
  <2>1. peer[b] # None BY NetAssumption DEF NetAssumption
  <2> QED BY <1>5, <2>1 DEF TunnelUnshared
<1>7. \A b \in Clients : \A j \in DOMAIN queue[b] : queue[b][j] = e => b = c /\ j = 1
  BY <1>2 DEF TunnelUnshared
<1>8. \A b \in Clients : \A i \in DOMAIN queue'[b] : queue'[b][i] # e
  <2> SUFFICES ASSUME NEW b \in Clients, NEW i \in DOMAIN queue'[b], queue'[b][i] = e PROVE FALSE
    OBVIOUS
  <2>1. CASE b = c
    <3>1. i + 1 = 1 /\ i \in Nat /\ i # 0 BY <1>4, <1>7, <2>1
    <3> QED BY <3>1
  <2>2. CASE b # c
    BY <1>1, <1>3, <1>7, <2>2
  <2> QED BY <2>1, <2>2
<1>9. ASSUME NEW b \in Clients, NEW d \in Clients, peer'[b] # None, peer'[b] = peer'[d] PROVE b = d
  BY <1>1, <1>3, <1>6, <1>9 DEF TunnelUnshared
<1>10. ASSUME NEW b \in Clients, NEW d \in Clients, peer'[b] # None,
              NEW i \in DOMAIN queue'[d], queue'[d][i] = peer'[b]
       PROVE  FALSE
  <2>1. peer'[b] # e
    BY <1>8, <1>10
  <2>2. peer'[b] = peer[b] /\ peer'[b] \in Clients
    BY <1>1, <1>3, <1>10, <2>1
  <2>3. ChildSockets(c) BY DEF ChildSockets
  <2>4. Waiting(d, peer[b])' => Waiting(d, peer'[b])
    BY <1>10, <2>2, <2>3, ChildQueues DEF Waiting
  <2> QED BY <1>10, <2>2, <2>4 DEF TunnelUnshared, Waiting
<1>11. ASSUME NEW b \in Clients, NEW d \in Clients, NEW i \in DOMAIN queue'[b],
              NEW j \in DOMAIN queue'[d], queue'[b][i] = queue'[d][j]
       PROVE  b = d /\ i = j
  <2> DEFINE k == IF b = c THEN i + 1 ELSE i
             l == IF d = c THEN j + 1 ELSE j
  <2>1. k \in DOMAIN queue[b] /\ queue[b][k] = queue'[b][i] /\ i \in Nat
    <3>1. CASE b = c BY <1>4, <3>1
    <3>2. CASE b # c
      <4>1. queue'[b] = queue[b] /\ queue[b] \in Seq(Clients) BY <1>1, <1>3, <3>2
      <4> QED BY <3>2, <4>1
    <3> QED BY <3>1, <3>2
  <2>2. l \in DOMAIN queue[d] /\ queue[d][l] = queue'[d][j] /\ j \in Nat
    <3>1. CASE d = c BY <1>4, <3>1
    <3>2. CASE d # c
      <4>1. queue'[d] = queue[d] /\ queue[d] \in Seq(Clients) BY <1>1, <1>3, <3>2
      <4> QED BY <3>2, <4>1
    <3> QED BY <3>1, <3>2
  <2> HIDE DEF k, l
  <2>3. b = d /\ k = l
    BY <1>11, <2>1, <2>2 DEF TunnelUnshared
  <2> QED BY <2>1, <2>2, <2>3 DEF k, l
<1> QED BY <1>9, <1>10, <1>11 DEF TunnelUnshared, Waiting

\* So every step of a child keeps tunnels unshared.
LEMMA ChildKeepsUnshared ==
    ASSUME NEW c \in Clients, TypeInv, TunnelUnshared, ChildSockets(c) PROVE TunnelUnshared'
<1>1. queue \in [Clients -> Seq(Clients)]
  BY DEF TypeInv, TypeOK, NetTypeOK
<1>2. CASE UNCHANGED <<queue, peer>>
  BY <1>2 DEF TunnelUnshared, Waiting
<1>3. CASE CloseSecure(c) /\ UNCHANGED peer
  <2>1. \A b \in Clients : \A i \in DOMAIN queue'[b] :
           b # c /\ i \in DOMAIN queue[b] /\ queue'[b][i] = queue[b][i]
    BY <1>1, <1>3 DEF CloseSecure
  <2> QED BY <1>3, <2>1 DEF TunnelUnshared, Waiting
<1> QED BY <1>2, <1>3, AcceptKeepsUnshared DEF ChildSockets, SslAccept, localVars

\* A child sends its port once, before its client can have dialled.
LEMMA ChildKeepsDialOnce ==
    ASSUME NEW c \in Clients, TypeInv, UnusedInv, DialOnce, ChildEffect(c), UNCHANGED <<pc, dial>>
    PROVE  DialOnce'
<1>1. cpc \in [Clients -> ChildPcs] /\ toClient \in [Clients -> Seq(Int)]
  BY DEF TypeInv, TypeOK, NetTypeOK, ServerTypeOK
<1>2. \A d \in Clients : cpc'[d] \in EarlyPcs => cpc[d] \in EarlyPcs
  BY <1>1 DEF ChildEffect, ChildGoes
<1>3. cpc'[c] \in EarlyPcs => cpc[c] # "announce"
  BY <1>1 DEF ChildEffect, ChildGoes
<1>4. \A d \in Clients : /\ tunnel'[d] = "none" <=> tunnel[d] = "none"
                         /\ Dialling(d)' <=> Dialling(d)
  BY ChildKeepsUsed DEF ChildEffect, Dialling
<1>5. CASE UNCHANGED toClient
  BY <1>2, <1>4, <1>5 DEF DialOnce
<1>6. ASSUME NEW n \in Int, Tell(c, n), n \in Ports => cpc[c] = "announce" PROVE DialOnce'
  <2>1. toClient' = [toClient EXCEPT ![c] = Append(@, n)] BY <1>6 DEF Tell
  <2>2. \A d \in Clients : d # c => toClient'[d] = toClient[d] BY <1>1, <2>1
  <2>3. \A i \in DOMAIN toClient'[c] :
          \/ i \in DOMAIN toClient[c] /\ toClient'[c][i] = toClient[c][i]
          \/ i = Len(toClient[c]) + 1 /\ toClient'[c][i] = n
    BY <1>1, <2>1
  <2>4. cpc[c] = "announce" => /\ tunnel[c] = "none" /\ ~Dialling(c)
                               /\ \A i \in DOMAIN toClient[c] : toClient[c][i] \notin Ports
    BY DEF DialOnce, EarlyPcs
  <2>5. ASSUME NEW d \in Clients, cpc'[d] \in EarlyPcs
        PROVE  /\ tunnel'[d] = "none" /\ ~Dialling(d)'
               /\ \A i \in DOMAIN toClient'[d] : toClient'[d][i] \notin Ports
    BY <1>2, <1>3, <1>4, <1>6, <2>2, <2>3, <2>5 DEF DialOnce
  <2>6. ASSUME NEW d \in Clients, NEW i \in DOMAIN toClient'[d], NEW j \in DOMAIN toClient'[d],
               toClient'[d][i] \in Ports, toClient'[d][j] \in Ports
        PROVE  i = j
    BY <1>6, <2>2, <2>3, <2>4, <2>6 DEF DialOnce
  <2>7. ASSUME NEW d \in Clients, NEW i \in DOMAIN toClient'[d], toClient'[d][i] \in Ports
        PROVE  tunnel'[d] = "none" /\ ~Dialling(d)'
    BY <1>4, <1>6, <2>2, <2>3, <2>4, <2>7 DEF DialOnce
  <2>8. \A d \in Clients : Dialling(d)' => tunnel'[d] = "none"
    BY <1>4 DEF DialOnce
  <2> QED BY <2>5, <2>6, <2>7, <2>8 DEF DialOnce
<1> QED BY <1>5, <1>6 DEF ChildEffect, ChildShorts, Ports

----------------------------------------------------------------------------
(* The parent and the clients.                                             *)

\* Where on e's connection the short stood that is i-th once d has read one.
Later(d, e, i) == IF e = d THEN i + 1 ELSE i

\* A fork starts a child for a connection that had none.
LEMMA ParentKeepsTunnels ==
    ASSUME TypeInv, BacklogInv, TunnelInv, ParentStep, UNCHANGED clientVars PROVE TunnelInv'
<1>1. /\ cpc \in [Clients -> ChildPcs] /\ backlog \in Seq(Clients) /\ backlog # <<>>
      /\ UNCHANGED cpc \/ cpc' = [cpc EXCEPT ![Head(backlog)] = "code"]
      /\ UNCHANGED <<peer, queue, tunnel, up, down, toClient, pc, dial>>
  BY DEF ParentStep, AcceptConnection, AcceptForkFails, TakeConnection, dataVars, localVars, clientVars,
         socketVars, streamVars, TypeInv, TypeOK, ServerTypeOK, NetTypeOK
<1>2. Head(backlog) \in Clients /\ cpc[Head(backlog)] = "none"
  BY <1>1 DEF BacklogInv
<1>3. \A d \in Clients : cpc'[d] \in EarlyPcs => cpc[d] \in EarlyPcs
  BY <1>1, <1>2 DEF EarlyPcs
<1>4. UnusedInv' /\ TunnelUnshared'
  BY <1>1 DEF TunnelInv, UnusedInv, TunnelUnshared, Waiting
<1>5. DialOnce'
  BY <1>1, <1>3 DEF TunnelInv, DialOnce, Dialling
<1> QED BY <1>4, <1>5 DEF TunnelInv

\* Every short left was there, one place further on if d has read one.
LEMMA ReadShorts ==
    ASSUME NEW d \in Clients, toClient \in [Clients -> Seq(Int)], toClient[d] # <<>>,
           toClient' = [toClient EXCEPT ![d] = Tail(@)],
           NEW e \in Clients, NEW i \in DOMAIN toClient'[e]
    PROVE  /\ i \in Nat /\ i # 0 /\ Later(d, e, i) \in DOMAIN toClient[e]
           /\ toClient'[e][i] = toClient[e][Later(d, e, i)]
<1>1. CASE e = d
  <2>1. toClient'[e] = Tail(toClient[e]) /\ toClient[e] \in Seq(Int) /\ toClient[e] # <<>>
    BY <1>1
  <2> QED BY <1>1, <2>1 DEF Later
<1>2. CASE e # d
  <2>1. toClient'[e] = toClient[e] /\ toClient[e] \in Seq(Int)
    BY <1>2
  <2> QED BY <1>2, <2>1 DEF Later
<1> QED BY <1>1, <1>2

\* A step of a client that neither reads a port nor dials.
UserGoes(d) ==
    \E s \in ClientPcs \ {"dial"} :
        /\ pc' = [pc EXCEPT ![d] = s]
        /\ s \in SessionPcs => pc[d] \in SessionPcs

UserStreams(d) ==
    \/ UNCHANGED <<up, down>>
    \/ pc[d] \in SessionPcs /\ \A e \in Clients \ {d} : up'[e] = up[e] /\ down'[e] = down[e]

UserShorts(d) ==
    \/ UNCHANGED toClient
    \/ toClient[d] # <<>> /\ toClient' = [toClient EXCEPT ![d] = Tail(@)]

UserEffect(d) ==
    /\ UserGoes(d) /\ UserStreams(d) /\ UserShorts(d)
    /\ UNCHANGED <<queue, peer, cpc, dial>>
    /\ \A e \in Clients : tunnel'[e] = "none" <=> tunnel[e] = "none"

\* All the other steps of a client are of this kind.
LEMMA UserEffects ==
    ASSUME NEW d \in Clients, TypeInv, UnusedInv, UNCHANGED serverVars,
           ClientStep(d) \/ TypeRequest(d) \/ Crash(d)
    PROVE  UserEffect(d) \/ ReceivePort(d) \/ DialSecurePort(d)
<1> USE DEF UserEffect, UserGoes, UserStreams, UserShorts, ClientPcs, SessionPcs, Move
<1> USE DEF netVars, dataVars, socketVars, streamVars, serverVars, localVars
<1>1. /\ tunnel \in [Clients -> TunnelStates] /\ up \in [Clients -> Seq(Strings)]
      /\ down \in [Clients -> Seq(Tokens)]
  BY DEF TypeInv, TypeOK, NetTypeOK
<1>2. CASE Connect(d) \/ TypeRequest(d) \/ SendName(d)
  <2>1. UserGoes(d)
    <3>1. CASE TypeRequest(d)
      <4>1. \E s \in {"ack0", "sendname"} : Move(d, s)
        BY <3>1 DEF TypeRequest
      <4> QED BY <4>1
    <3>2. CASE Connect(d) \/ SendName(d)
      BY <3>2 DEF Connect, SendName
    <3> QED BY <1>2, <3>1, <3>2
  <2> HIDE DEF UserGoes, Move
  <2> QED BY <1>2, <2>1 DEF Connect, TypeRequest, SendName
<1>3. CASE ReceiveAck(d) \/ ReceiveNameAck(d) \/ ReceivePasswordAck(d)
  <2>1. UserGoes(d)
    BY <1>3 DEF ReceiveAck, ReceiveNameAck, ReceivePasswordAck
  <2> HIDE DEF UserGoes
  <2> QED BY <1>3, <2>1 DEF ReceiveAck, ReceiveNameAck, ReceivePasswordAck, ReceiveShort
<1>4. CASE DialRefused(d) \/ SslConnect(d) \/ ReadTokenEof(d)
  BY <1>4 DEF DialRefused, SslConnect, ReadTokenEof
<1>9. CASE SslConnectFails(d)
  <2>1. \A e \in Clients : tunnel'[e] = "none" <=> tunnel[e] = "none"
    BY <1>1, <1>9 DEF SslConnectFails
  <2>2. UserGoes(d)
    BY <1>9 DEF SslConnectFails
  <2> HIDE DEF UserGoes
  <2> QED BY <1>9, <2>1, <2>2 DEF SslConnectFails
<1>5. CASE TellUsername(d) \/ TellPassword(d)
  <2>1. UserStreams(d)
    BY <1>1, <1>5 DEF TellUsername, TellPassword, Write
  <2> HIDE DEF UserStreams
  <2> QED BY <1>5, <2>1 DEF TellUsername, TellPassword, Write
<1>6. CASE ReceiveSignupAck(d)
  <2>1. tunnel[d] # "none"
    BY <1>6 DEF ReceiveSignupAck, UnusedInv
  <2> QED BY <1>1, <1>6, <2>1 DEF ReceiveSignupAck
<1>7. CASE ReadToken(d)
  <2>1. tunnel[d] # "none"
    BY <1>7 DEF ReadToken, UnusedInv
  <2> QED BY <1>1, <1>7, <2>1 DEF ReadToken
<1>8. CASE Crash(d)
  <2>1. \A e \in Clients : tunnel'[e] = "none" <=> tunnel[e] = "none"
    BY <1>1, <1>8 DEF Crash
  <2>2. UserGoes(d)
    BY <1>8 DEF Crash
  <2> HIDE DEF UserGoes
  <2> QED BY <1>8, <2>1, <2>2 DEF Crash
<1> QED BY <1>2, <1>3, <1>4, <1>5, <1>6, <1>7, <1>8, <1>9 DEF ClientStep

\* They bring no client closer to a second dial.
LEMMA UserEffectKeepsTunnels ==
    ASSUME NEW d \in Clients, TypeInv, TunnelInv, UserEffect(d) PROVE TunnelInv'
<1>1. /\ pc \in [Clients -> ClientPcs] /\ toClient \in [Clients -> Seq(Int)]
      /\ tunnel \in [Clients -> TunnelStates]
  BY DEF TypeInv, TypeOK, NetTypeOK, ClientTypeOK
<1>2. TunnelUnshared'
  BY DEF UserEffect, TunnelInv, TunnelUnshared, Waiting
<1>3. PICK s \in ClientPcs \ {"dial"} : /\ pc' = [pc EXCEPT ![d] = s]
                                        /\ s \in SessionPcs => pc[d] \in SessionPcs
  BY DEF UserEffect, UserGoes
<1>4. UnusedInv'
  <2> SUFFICES ASSUME NEW e \in Clients, tunnel'[e] = "none"
               PROVE  /\ pc'[e] \notin SessionPcs
                      /\ \A c \in Clients : peer'[c] # e /\ ~Waiting(c, e)'
                      /\ up'[e] = <<>> /\ down'[e] = <<>>
    BY DEF UnusedInv
  <2>1. tunnel[e] = "none"
    BY DEF UserEffect
  <2>2. /\ pc[e] \notin SessionPcs /\ up[e] = <<>> /\ down[e] = <<>>
        /\ \A c \in Clients : peer[c] # e /\ ~Waiting(c, e)
    BY <2>1 DEF TunnelInv, UnusedInv
  <2>3. pc'[e] \notin SessionPcs
    BY <1>1, <1>3, <2>2
  <2>4. \A c \in Clients : peer'[c] # e /\ ~Waiting(c, e)'
    BY <2>2 DEF UserEffect, Waiting
  <2> QED BY <2>2, <2>3, <2>4 DEF UserEffect, UserStreams
<1>5. \A e \in Clients : /\ Dialling(e)' => Dialling(e)
                         /\ tunnel'[e] = "none" <=> tunnel[e] = "none"
                         /\ cpc'[e] = cpc[e]
  <2>1. dial' = dial /\ cpc' = cpc /\ \A e \in Clients : tunnel'[e] = "none" <=> tunnel[e] = "none"
    BY DEF UserEffect
  <2>2. \A e \in Clients : pc'[e] = "dial" => pc[e] = "dial"
    BY <1>1, <1>3
  <2> QED BY <2>1, <2>2 DEF Dialling
<1>6. DialOnce'
  <2>1. CASE UNCHANGED toClient
    BY <1>5, <2>1 DEF TunnelInv, DialOnce
  <2>2. CASE toClient[d] # <<>> /\ toClient' = [toClient EXCEPT ![d] = Tail(@)]
    <3>1. \A e \in Clients : \A i \in DOMAIN toClient'[e] :
            /\ i \in Nat /\ Later(d, e, i) \in DOMAIN toClient[e]
            /\ toClient'[e][i] = toClient[e][Later(d, e, i)]
      BY <1>1, <2>2, ReadShorts
    <3>2. ASSUME NEW e \in Clients, NEW i \in DOMAIN toClient'[e], NEW j \in DOMAIN toClient'[e],
                 toClient'[e][i] \in Ports, toClient'[e][j] \in Ports
          PROVE  i = j
      <4>1. Later(d, e, i) = Later(d, e, j)
        BY <3>1, <3>2 DEF TunnelInv, DialOnce
      <4> QED BY <3>1, <4>1 DEF Later
    <3>3. ASSUME NEW e \in Clients, NEW i \in DOMAIN toClient'[e], toClient'[e][i] \in Ports
          PROVE  cpc'[e] \notin EarlyPcs /\ tunnel'[e] = "none" /\ ~Dialling(e)'
      BY <1>5, <3>1, <3>3 DEF TunnelInv, DialOnce
    <3> QED BY <1>5, <3>2, <3>3 DEF TunnelInv, DialOnce
  <2> QED BY <2>1, <2>2 DEF UserEffect, UserShorts
<1> QED BY <1>2, <1>4, <1>6 DEF TunnelInv

\* The port a client reads is the only one there was (client.cxx:128-131).
LEMMA ReceivePortKeepsTunnels ==
    ASSUME NEW d \in Clients, TypeInv, TunnelInv, ReceivePort(d), UNCHANGED serverVars
    PROVE  TunnelInv'
<1>1. /\ pc \in [Clients -> ClientPcs] /\ toClient \in [Clients -> Seq(Int)]
      /\ dial \in [Clients -> Int] /\ toClient[d] # <<>>
      /\ toClient' = [toClient EXCEPT ![d] = Tail(@)] /\ pc' = [pc EXCEPT ![d] = "dial"]
      /\ dial' = [dial EXCEPT ![d] = Head(toClient[d])]
      /\ UNCHANGED <<queue, peer, cpc, tunnel, up, down>>
  BY DEF TypeInv, TypeOK, NetTypeOK, ClientTypeOK, ReceivePort, ReceiveShort, Move, serverVars,
         socketVars, streamVars, localVars
<1>2. UnusedInv' /\ TunnelUnshared'
  BY <1>1 DEF TunnelInv, UnusedInv, TunnelUnshared, Waiting, SessionPcs
<1>3. 1 \in DOMAIN toClient[d] /\ Head(toClient[d]) = toClient[d][1]
  BY <1>1
<1>4. \A e \in Clients : \A i \in DOMAIN toClient'[e] :
        /\ i \in Nat /\ i # 0 /\ Later(d, e, i) \in DOMAIN toClient[e]
        /\ toClient'[e][i] = toClient[e][Later(d, e, i)]
  BY <1>1, ReadShorts
<1>5. \A e \in Clients : Dialling(e)' => Dialling(e) \/ (e = d /\ toClient[d][1] \in Ports)
  BY <1>1, <1>3 DEF Dialling
<1>6. ASSUME NEW e \in Clients, NEW i \in DOMAIN toClient'[e], toClient'[e][i] \in Ports
      PROVE  cpc'[e] \notin EarlyPcs /\ tunnel'[e] = "none" /\ ~Dialling(e)'
  <2>1. cpc[e] \notin EarlyPcs /\ tunnel[e] = "none" /\ ~Dialling(e)
    BY <1>4, <1>6 DEF TunnelInv, DialOnce
  <2>2. ~(e = d /\ toClient[d][1] \in Ports)
    <3> SUFFICES ASSUME e = d, toClient[d][1] \in Ports PROVE FALSE OBVIOUS
    <3>1. Later(d, e, i) = 1
      BY <1>3, <1>4, <1>6 DEF TunnelInv, DialOnce
    <3> QED BY <1>4, <3>1 DEF Later
  <2> QED BY <1>1, <1>5, <2>1, <2>2
<1>7. ASSUME NEW e \in Clients, NEW i \in DOMAIN toClient'[e], NEW j \in DOMAIN toClient'[e],
             toClient'[e][i] \in Ports, toClient'[e][j] \in Ports
      PROVE  i = j
  <2>1. Later(d, e, i) = Later(d, e, j)
    BY <1>4, <1>7 DEF TunnelInv, DialOnce
  <2> QED BY <1>4, <2>1 DEF Later
<1>8. ASSUME NEW e \in Clients
      PROVE  /\ cpc'[e] \in EarlyPcs => tunnel'[e] = "none" /\ ~Dialling(e)'
             /\ Dialling(e)' => tunnel'[e] = "none"
  BY <1>1, <1>3, <1>5 DEF TunnelInv, DialOnce
<1>9. DialOnce'
  BY <1>6, <1>7, <1>8 DEF DialOnce
<1> QED BY <1>2, <1>9 DEF TunnelInv

\* A client that dials has not dialled before,
LEMMA DialFromNowhere ==
    ASSUME NEW d \in Clients, SafePorts, TunnelInv, DialSecurePort(d)
    PROVE  Dialling(d) /\ tunnel[d] = "none"
<1>1. Dialling(d)
  BY DEF DialSecurePort, Reachable, Dialling, SafePorts, PortInv, PortsByService, PortOfService, Ports
<1> QED BY <1>1 DEF TunnelInv, DialOnce

\* so it waits in one queue.
LEMMA DialKeepsTunnels ==
    ASSUME NEW d \in Clients, SafePorts, TunnelInv, DialSecurePort(d), UNCHANGED serverVars
    PROVE  TunnelInv'
<1>1. PICK c \in Clients : Reachable(c, d) /\ queue' = [queue EXCEPT ![c] = Append(@, d)]
  BY DEF DialSecurePort
<1>2. /\ pc \in [Clients -> ClientPcs] /\ queue \in [Clients -> Seq(Clients)]
      /\ tunnel \in [Clients -> TunnelStates]
      /\ pc' = [pc EXCEPT ![d] = "handshake"] /\ tunnel' = [tunnel EXCEPT ![d] = "queued"]
      /\ UNCHANGED <<peer, cpc, up, down, toClient, dial>>
  BY DEF SafePorts, TypeInv, TypeOK, NetTypeOK, ClientTypeOK, DialSecurePort, Move, serverVars,
         dataVars, streamVars, localVars
<1>3. Dialling(d)
  BY DialFromNowhere
<1>4. tunnel[d] = "none"
  BY DialFromNowhere
<1>5. \A b \in Clients : peer[b] # d /\ ~Waiting(b, d)
  BY <1>4 DEF TunnelInv, UnusedInv
<1>6. \A b \in Clients : \A i \in DOMAIN queue'[b] :
         \/ i \in DOMAIN queue[b] /\ queue'[b][i] = queue[b][i] /\ queue[b][i] # d
         \/ b = c /\ i = Len(queue[c]) + 1 /\ queue'[b][i] = d
  BY <1>1, <1>2, <1>5 DEF Waiting
<1>7. UnusedInv'
  BY <1>2, <1>6 DEF TunnelInv, UnusedInv, Waiting
<1>8. DialOnce'
  BY <1>2, <1>3 DEF TunnelInv, DialOnce, Dialling
<1>9. TunnelUnshared'
  <2>1. ASSUME NEW a \in Clients, NEW b \in Clients, peer'[a] # None PROVE ~Waiting(b, peer[a])'
    BY <1>2, <1>5, <1>6, <2>1 DEF TunnelInv, TunnelUnshared, Waiting
  <2>2. ASSUME NEW a \in Clients, NEW b \in Clients, NEW i \in DOMAIN queue'[a],
               NEW j \in DOMAIN queue'[b], queue'[a][i] = queue'[b][j]
        PROVE  a = b /\ i = j
    BY <1>6, <2>2 DEF TunnelInv, TunnelUnshared
  <2>3. \A a, b \in Clients : peer'[a] # None /\ peer'[a] = peer'[b] => a = b
    BY <1>2 DEF TunnelInv, TunnelUnshared
  <2> QED BY <2>1, <2>2, <2>3 DEF TunnelUnshared
<1> QED BY <1>7, <1>8, <1>9 DEF TunnelInv

----------------------------------------------------------------------------
(* The specification.                                                      *)

\* The invariant holds at first,
LEMMA TunnelInit == Init => TunnelInv
<1> SUFFICES ASSUME Init PROVE TunnelInv OBVIOUS
<1>1. UnusedInv
  BY NetAssumption DEF NetAssumption, Init, NetInit, ServerInit, ClientInit, UnusedInv, SessionPcs, Waiting
<1>2. DialOnce
  BY DEF Init, NetInit, ServerInit, ClientInit, DialOnce, Dialling
<1>3. TunnelUnshared
  BY DEF Init, NetInit, ServerInit, TunnelUnshared, Waiting
<1> QED BY <1>1, <1>2, <1>3 DEF TunnelInv

\* and every step keeps it.
LEMMA TunnelNext == SafePorts /\ TunnelInv /\ [Next]_vars => TunnelInv'
<1> SUFFICES ASSUME SafePorts, TunnelInv, [Next]_vars PROVE TunnelInv' OBVIOUS
<1>1. TypeInv /\ BacklogInv /\ PortInv BY DEF SafePorts
<1>2. CASE ServerStep
  <2>1. CASE ParentStep /\ UNCHANGED clientVars
    BY <1>1, <2>1, ParentKeepsTunnels
  <2>2. ASSUME NEW c \in Clients, Child(c), UNCHANGED clientVars PROVE TunnelInv'
    <3>1. ChildEffect(c) /\ UNCHANGED <<pc, dial>>
      BY <1>1, <2>2, ChildEffects DEF clientVars
    <3> QED
      BY <1>1, <3>1, ChildKeepsUnused, ChildKeepsUnshared, ChildKeepsDialOnce DEF TunnelInv, ChildEffect
  <2> QED BY <1>2, <2>1, <2>2 DEF ServerStep
<1>3. CASE UserStep
  <2>1. PICK d \in Clients : ClientStep(d) \/ TypeRequest(d) \/ Crash(d)
    BY <1>3 DEF UserStep
  <2>2. UserEffect(d) \/ ReceivePort(d) \/ DialSecurePort(d)
    BY <1>1, <1>3, <2>1, UserEffects DEF UserStep, TunnelInv
  <2> QED
    BY <1>1, <1>3, <2>2, UserEffectKeepsTunnels, ReceivePortKeepsTunnels, DialKeepsTunnels DEF UserStep
<1>4. CASE UNCHANGED vars
  BY <1>4 DEF vars, netVars, dataVars, socketVars, streamVars, serverVars, localVars, clientVars,
     TunnelInv, UnusedInv, DialOnce, Dialling, TunnelUnshared, Waiting
<1> QED BY <1>2, <1>3, <1>4 DEF Next

\* The inductive invariant of the tunnels: for any clients, requests and
\* failures, a child announces one port in its life and its client dials at
\* most once (LoginServer.cxx:363-372, 703-726; client.cxx:123-152).
THEOREM TunnelInvariant == Spec => []TunnelInv
BY TunnelInit, TunnelNext, PortInvariant, PTL DEF Spec

\* A client's TLS connection waits in one queue or belongs to one child, for
\* any number of clients and whatever they type: no two children read from
\* the same tunnel, although a child takes whoever connected first.
THEOREM TunnelUnsharedCorrect == Spec => []TunnelUnshared
<1>1. TunnelInv => TunnelUnshared BY DEF TunnelInv
<1> QED BY <1>1, TunnelInvariant, PTL

\* A step in which a client connects to a secure port for the second time.
DialsAgain == \E d \in Clients : DialSecurePort(d) /\ tunnel[d] # "none"

\* However often its user types, a client opens one tunnel in its life: the
\* data connection it uses again (client.cxx:92-114) leads to a child that has
\* read its one request and will announce no second port (LoginServer.cxx:274-300).
THEOREM NoSecondTunnel == Spec => [][~DialsAgain]_vars
<1>1. SafePorts /\ TunnelInv /\ [Next]_vars => [~DialsAgain]_vars
  BY DialFromNowhere DEF DialsAgain
<1> QED BY <1>1, PortInvariant, TunnelInvariant, PTL DEF Spec

=============================================================================
