---------------------------- MODULE SocketProofs ----------------------------
(***************************************************************************)
(* The set-up functions and the socket objects, for any number of          *)
(* addresses, and any objects, ports and peers.                            *)
(***************************************************************************)
EXTENDS SocketObjects, SequenceTheorems, FiniteSetTheorems, TLAPS

\* What the records of the sixteen functions have in common.
LEMMA SetupTable ==
    ASSUME NEW f \in Functions
    PROVE  /\ Setup[f].calls \in {<<>>, <<"bind">>, <<"connect">>, <<"reuse", "bind">>}
           /\ Setup[f].then \in {<<>>, <<"listen">>}
<1>1. /\ Careful.calls = <<>> /\ Careful.then = <<>>
      /\ setup_TCP_connection.calls = <<"connect">> /\ setup_TCP_connection.then = <<>>
      /\ setup_UDP_connection.calls = <<>> /\ setup_UDP_connection.then = <<>>
  BY DEF Careful, setup_TCP_connection, setup_UDP_connection
<1>2. /\ LoginServer_initialize.calls = <<"reuse", "bind">>
      /\ LoginServer_initialize.then = <<>>
      /\ Session_start.calls = <<"reuse", "bind">> /\ Session_start.then = <<"listen">>
      /\ LoginClient_main.calls = <<"connect">> /\ LoginClient_main.then = <<>>
      /\ Acceptor_setup.calls = <<"bind">> /\ Acceptor_setup.then = <<>>
  BY DEF Careful, LoginServer_initialize, Session_start, LoginClient_main, Acceptor_setup
<1>3. /\ setup_UDP_server_connection.calls = <<"bind">>
      /\ setup_UDP_server_connection.then = <<>>
      /\ game_client_main.calls = <<>> /\ game_client_main.then = <<>>
      /\ UDP_Socket_initialize_server.calls = <<"bind">>
      /\ UDP_Socket_initialize_server.then = <<>>
      /\ UDP_Socket_initialize_client.calls = <<>>
      /\ UDP_Socket_initialize_client.then = <<>>
  BY DEF Careful, setup_UDP_server_connection, game_client_main,
         UDP_Socket_initialize_server, UDP_Socket_initialize_client
<1>4. Setup[f] \in {LoginServer_initialize, Session_start, setup_TCP_connection,
                    LoginClient_main, Acceptor_setup, setup_UDP_connection,
                    setup_UDP_server_connection, game_client_main,
                    UDP_Socket_initialize_server, UDP_Socket_initialize_client}
  BY DEF Functions, Setup, ChatClient_setup_TCP_connection, MatchMaker_setup_TCP_connection,
         Linear_setup_TCP_connection, ChatServer_setup_UDP_connection,
         MatchMaker_setup_UDP_connection, setup_UDP_client_connection
<1> QED BY <1>1, <1>2, <1>3, <1>4

\* The calls are a sequence of calls, of at most two, and none is a place between.
LEMMA CallTypes ==
    ASSUME fn \in Functions
    PROVE  /\ This.calls \in Seq(Calls) /\ Len(This.calls) \in 0..2
           /\ This.then = <<>> \/ (This.then = <<"listen">> /\ This.then[1] = "listen")
<1>1. /\ This.calls \in {<<>>, <<"bind">>, <<"connect">>, <<"reuse", "bind">>}
      /\ This.then \in {<<>>, <<"listen">>}
  BY SetupTable DEF This
<1>2. /\ <<>> \in Seq(Calls) /\ <<"bind">> \in Seq(Calls) /\ <<"connect">> \in Seq(Calls)
      /\ <<"reuse", "bind">> \in Seq(Calls)
  BY DEF Calls
<1>3. /\ Len(<<>>) = 0 /\ Len(<<"bind">>) = 1 /\ Len(<<"connect">>) = 1
      /\ Len(<<"reuse", "bind">>) = 2 /\ <<"listen">>[1] = "listen"
  OBVIOUS
<1> DEFINE c == This.calls
           h == This.then
<1>4. /\ c = <<>> \/ c = <<"bind">> \/ c = <<"connect">> \/ c = <<"reuse", "bind">>
      /\ h = <<>> \/ h = <<"listen">>
  BY <1>1
<1> HIDE DEF c, h
<1>5. c \in Seq(Calls) /\ Len(c) \in 0..2
  <2>1. CASE c = <<>>
    BY <1>2, <1>3, <2>1
  <2>2. CASE c = <<"bind">>
    BY <1>2, <1>3, <2>2
  <2>3. CASE c = <<"connect">>
    BY <1>2, <1>3, <2>3
  <2>4. CASE c = <<"reuse", "bind">>
    BY <1>2, <1>3, <2>4
  <2> QED BY <1>4, <2>1, <2>2, <2>3, <2>4
<1>6. h = <<>> \/ (h = <<"listen">> /\ h[1] = "listen")
  BY <1>3, <1>4
<1> QED BY <1>5, <1>6 DEF c, h

----------------------------------------------------------------------------
(* The set-up functions.                                                   *)

\* Calls that succeeded are the first of those to be made.
Begun(seq) ==
    /\ seq \in Seq(Calls) /\ Len(seq) <= Len(This.calls)
    /\ \A i \in 1..Len(seq) : seq[i] = This.calls[i]

\* Where a function is, and what it holds there.
Progress ==
    Running =>
        \/ at = "resolve" /\ ~fd /\ list = "none"
        \/ at = "socket" /\ ~fd /\ list = "held"
        \/ fd /\ list = "held" /\ Begun(made) /\ at = NextCall(Len(made))
        \/ /\ fd /\ list = "freed" /\ made = This.calls
           /\ at = "listen" /\ This.then = <<"listen">>

SetupInv == SetupTypeOK /\ Progress /\ SuccessUsable /\ OnlyKnownLeaks

\* The next call is one of them, or the end.
LEMMA NextCallType ==
    ASSUME fn \in Functions, NEW n \in Nat
    PROVE  /\ NextCall(n) \in Calls \cup {"finish"}
           /\ NextCall(n) = "finish" <=> n >= Len(This.calls)
           /\ n < Len(This.calls) => NextCall(n) = This.calls[n + 1]
<1>1. This.calls \in Seq(Calls) /\ Len(This.calls) \in Nat
  BY CallTypes
<1>2. CASE n < Len(This.calls)
  <2>1. NextCall(n) = This.calls[n + 1] /\ n + 1 \in 1..Len(This.calls)
    BY <1>1, <1>2 DEF NextCall
  <2>2. This.calls[n + 1] \in Calls
    BY <1>1, <2>1, ElementOfSeq
  <2>3. "finish" \notin Calls
    BY DEF Calls
  <2> HIDE DEF This
  <2> QED BY <1>1, <1>2, <2>1, <2>2, <2>3
<1>3. CASE ~(n < Len(This.calls))
  <2>1. NextCall(n) = "finish"
    BY <1>3 DEF NextCall
  <2> HIDE DEF This
  <2> QED BY <1>1, <1>3, <2>1
<1> QED BY <1>2, <1>3

\* No descriptor is listened on while an address is tried.
LEMMA NoListen ==
    ASSUME fn \in Functions, NEW n \in Nat
    PROVE  NextCall(n) # "listen"
<1>1. \A s \in {<<>>, <<"bind">>, <<"connect">>, <<"reuse", "bind">>} :
        \A i \in 1..Len(s) : s[i] # "listen"
  <2>1. /\ \A i \in 1..Len(<<>>) : <<>>[i] # "listen"
        /\ \A i \in 1..Len(<<"bind">>) : <<"bind">>[i] # "listen"
        /\ \A i \in 1..Len(<<"connect">>) : <<"connect">>[i] # "listen"
    OBVIOUS
  <2>2. \A i \in 1..Len(<<"reuse", "bind">>) : <<"reuse", "bind">>[i] # "listen"
    OBVIOUS
  <2> QED BY <2>1, <2>2
<1>2. This.calls \in {<<>>, <<"bind">>, <<"connect">>, <<"reuse", "bind">>}
  BY SetupTable DEF This
<1>3. This.calls \in Seq(Calls) /\ Len(This.calls) \in Nat
  BY CallTypes
<1>4. \A i \in 1..Len(This.calls) : This.calls[i] # "listen"
  BY <1>1, <1>2
<1>5. CASE n < Len(This.calls)
  <2>1. n + 1 \in 1..Len(This.calls)
    <3> DEFINE k == Len(This.calls)
    <3>1. k \in Nat /\ n < k
      BY <1>3, <1>5
    <3> HIDE DEF k
    <3>2. n + 1 \in 1..k
      BY <3>1
    <3> QED BY <3>2 DEF k
  <2> QED BY <1>4, <1>5, <2>1, NextCallType
<1>6. CASE ~(n < Len(This.calls))
  BY <1>6 DEF NextCall
<1> QED BY <1>5, <1>6

\* Nothing has succeeded yet on a descriptor that was just taken.
LEMMA NothingBegun ==
    ASSUME fn \in Functions
    PROVE  Begun(<<>>) /\ Len(<<>>) = 0 /\ <<>> \in Seq(Calls)
<1>1. <<>> \in Seq(Calls) /\ Len(<<>>) = 0
  BY EmptySeq
<1>2. Len(This.calls) \in Nat
  BY CallTypes
<1> QED BY <1>1, <1>2 DEF Begun

\* The places where a function is between calls are not calls.
LEMMA Places == "resolve" \notin Calls /\ "socket" \notin Calls /\ "finish" \notin Calls
BY DEF Calls

\* A call under way is on a descriptor, and the calls before it were made.
LEMMA UnderWay ==
    ASSUME SetupInv, Running, at \in {"reuse", "bind", "connect", "finish"}
    PROVE  fd /\ list = "held" /\ Begun(made) /\ at = NextCall(Len(made))
BY DEF SetupInv, Progress

\* A set-up that takes no step keeps its invariant.
LEMMA SetupStill == SetupInv /\ UNCHANGED setupVars => SetupInv'
<1> SUFFICES ASSUME SetupInv, UNCHANGED setupVars PROVE SetupInv' OBVIOUS
<1>1. UNCHANGED <<fn, at, left, list, fd, made, outcome>>
  BY DEF setupVars
<1>2. SetupTypeOK' /\ SuccessUsable' /\ OnlyKnownLeaks'
  BY <1>1 DEF SetupInv, SetupTypeOK, SuccessUsable, OnlyKnownLeaks, This
<1>3. Begun(made)' = Begun(made) /\ NextCall(Len(made))' = NextCall(Len(made))
  BY <1>1 DEF Begun, NextCall, This
<1>4. Progress'
  BY <1>1, <1>3 DEF SetupInv, Progress, Running, This
<1> QED BY <1>2, <1>4 DEF SetupInv

\* The names are looked up.
LEMMA ResolveInv ==
    ASSUME SetupInv, Resolve
    PROVE  SetupInv'
<1>1. /\ UNCHANGED <<fn, fd, made>> /\ outcome = "running" /\ at = "resolve"
      /\ ~fd /\ list = "none"
  <2>1. UNCHANGED <<fn, fd, made>> /\ Running /\ at = "resolve"
    BY DEF Resolve
  <2>2. fn \in Functions /\ Len(made) \in Nat
    BY LenProperties DEF SetupInv, SetupTypeOK
  <2>3. at # NextCall(Len(made))
    BY <2>1, <2>2, NextCallType, Places
  <2> QED BY <2>1, <2>3 DEF SetupInv, Progress, Running
<1>2. CASE left' \in 1..MaxAddresses /\ list' = "held" /\ at' = "socket" /\ UNCHANGED outcome
  <2>1. SetupTypeOK'
    BY <1>1, <1>2, SetupAssumption DEF SetupInv, SetupTypeOK
  <2>2. Progress' /\ SuccessUsable' /\ OnlyKnownLeaks'
    BY <1>1, <1>2 DEF Progress, SuccessUsable, OnlyKnownLeaks, Running
  <2> QED BY <2>1, <2>2 DEF SetupInv
<1>3. CASE outcome' \in {"false", "undefined"} /\ UNCHANGED <<at, left, list>>
  <2>1. SetupTypeOK'
    BY <1>1, <1>3 DEF SetupInv, SetupTypeOK
  <2>2. Progress' /\ SuccessUsable' /\ OnlyKnownLeaks'
    BY <1>1, <1>3 DEF Progress, SuccessUsable, OnlyKnownLeaks, Running
  <2> QED BY <2>1, <2>2 DEF SetupInv
<1> QED BY <1>2, <1>3 DEF Resolve, End

\* A descriptor is taken for the next address, or none.
LEMMA OpenSocketInv ==
    ASSUME SetupInv, OpenSocket
    PROVE  SetupInv'
<1>1. /\ UNCHANGED <<fn, list, outcome>> /\ Running /\ at = "socket"
      /\ left' = left - 1 /\ left > 0 /\ made' = <<>>
  BY DEF OpenSocket
<1>2. fn \in Functions /\ ~fd /\ list = "held" /\ left \in 0..MaxAddresses
  <2>1. fn \in Functions /\ left \in 0..MaxAddresses /\ Len(made) \in Nat
    BY LenProperties DEF SetupInv, SetupTypeOK
  <2>2. at # NextCall(Len(made))
    BY <1>1, <2>1, NextCallType, Places
  <2> QED BY <1>1, <2>1, <2>2 DEF SetupInv, Progress
<1>3. Begun(<<>>) /\ Len(<<>>) = 0 /\ <<>> \in Seq(Calls)
  BY <1>2, NothingBegun
<1>4. left' \in 0..MaxAddresses
  BY <1>1, <1>2, SetupAssumption
<1>5. NextCall(0) \in Calls \cup {"finish"}
  BY <1>2, NextCallType
<1>6. SetupTypeOK'
  <2>1. fd' \in BOOLEAN /\ at' \in {"resolve", "socket", "finish"} \cup Calls
    BY <1>1, <1>5 DEF OpenSocket, SetupInv, SetupTypeOK
  <2> QED BY <1>1, <1>3, <1>4, <2>1 DEF SetupInv, SetupTypeOK
<1>7. CASE fd' = TRUE /\ at' = NextCall(0)
  <2>1. Begun(made)'
    BY <1>1, <1>3 DEF Begun, This
  <2>2. NextCall(Len(made))' = NextCall(0)
    BY <1>1, <1>3 DEF NextCall, This
  <2>3. Progress'
    BY <1>1, <1>2, <1>7, <2>1, <2>2 DEF Progress
  <2> QED BY <1>1, <1>6, <2>3 DEF SetupInv, SuccessUsable, OnlyKnownLeaks, Running
<1>8. CASE UNCHANGED <<fd, at>>
  <2>1. Progress'
    BY <1>1, <1>2, <1>8 DEF Progress
  <2> QED BY <1>1, <1>6, <2>1 DEF SetupInv, SuccessUsable, OnlyKnownLeaks, Running
<1> QED BY <1>7, <1>8 DEF OpenSocket

\* A call that succeeds is the next of those to be made.
LEMMA CallSucceedsInv ==
    ASSUME SetupInv, CallSucceeds
    PROVE  SetupInv'
<1>1. /\ UNCHANGED <<fn, left, list, fd, outcome>> /\ outcome = "running"
      /\ at \in {"reuse", "bind", "connect"}
      /\ made' = Append(made, at) /\ at' = NextCall(Len(made) + 1)
  BY DEF CallSucceeds, Running
<1>2. fd /\ list = "held" /\ Begun(made) /\ at = NextCall(Len(made))
  BY <1>1, UnderWay DEF Running
<1>3. fn \in Functions /\ at \in Calls /\ at # "finish"
  BY <1>1 DEF Calls, SetupInv, SetupTypeOK
<1>4. This.calls \in Seq(Calls) /\ Len(This.calls) \in 0..2
  BY <1>3, CallTypes
<1>5. made \in Seq(Calls) /\ Len(made) \in Nat
  BY <1>2, LenProperties DEF Begun
<1>6. Len(made) < Len(This.calls) /\ at = This.calls[Len(made) + 1]
  <2>1. ~(Len(made) >= Len(This.calls))
    BY <1>2, <1>3, <1>5, NextCallType
  <2>2. Len(made) < Len(This.calls)
    <3> DEFINE m == Len(made)
               n == Len(This.calls)
    <3>1. m \in Nat /\ n \in Nat /\ ~(m >= n)
      BY <1>4, <1>5, <2>1
    <3> HIDE DEF m, n
    <3>2. m < n
      BY <3>1
    <3> QED BY <3>2 DEF m, n
  <2> QED BY <1>2, <1>3, <1>5, <2>2, NextCallType
<1>7. /\ made' \in Seq(Calls) /\ Len(made') = Len(made) + 1
      /\ \A i \in 1..Len(made) : made'[i] = made[i]
      /\ made'[Len(made) + 1] = at
  BY <1>1, <1>3, <1>5, AppendProperties
<1>8. This' = This
  BY <1>1 DEF This
<1>9. Begun(made)'
  <2> DEFINE m == Len(made)
             n == Len(This.calls)
             c == This.calls
  <2>1. m \in Nat /\ n \in Nat /\ m < n /\ m + 1 <= n
    BY <1>4, <1>5, <1>6
  <2>2. /\ \A i \in 1..m : made'[i] = c[i]
        /\ made'[m + 1] = c[m + 1]
    BY <1>2, <1>6, <1>7 DEF Begun
  <2>3. Len(made') = m + 1 /\ made' \in Seq(Calls)
    BY <1>7
  <2>4. This.calls' = c
    BY <1>8
  <2> HIDE DEF m, c
  <2>5. \A i \in 1..(m + 1) : made'[i] = c[i]
    BY <2>1, <2>2
  <2> QED BY <1>8, <2>1, <2>3, <2>4, <2>5 DEF Begun, c
<1>10. NextCall(Len(made) + 1) = NextCall(Len(made))'
  BY <1>7, <1>8 DEF NextCall
<1>11. Progress'
  BY <1>1, <1>2, <1>9, <1>10 DEF Progress
<1>12. SetupTypeOK'
  <2>1. at' \in Calls \cup {"finish"}
    BY <1>1, <1>3, <1>5, NextCallType
  <2>2. Len(made') <= 3
    BY <1>4, <1>5, <1>6, <1>7
  <2> QED BY <1>1, <1>7, <2>1, <2>2 DEF SetupInv, SetupTypeOK
<1> QED BY <1>1, <1>11, <1>12 DEF SetupInv, SuccessUsable, OnlyKnownLeaks

\* setsockopt, bind or connect fails.
LEMMA FailureInv ==
    ASSUME SetupInv, ReuseFails \/ CallFails
    PROVE  SetupInv'
<1>1. fn \in Functions /\ at \in {"reuse", "bind", "connect"} /\ Running
  BY DEF SetupInv, SetupTypeOK, ReuseFails, CallFails
<1>2. fd /\ list = "held"
  BY <1>1, UnderWay
<1>3. <<>> \in Seq(Calls) /\ Len(<<>>) = 0
  BY <1>1, NothingBegun
<1>4. SetupTypeOK'
  <2>1. CASE ReuseFails
    BY <2>1 DEF SetupInv, SetupTypeOK, ReuseFails, End
  <2>2. CASE CallFails
    <3>1. made' = <<>> /\ fd' = FALSE /\ UNCHANGED <<fn, left>>
      BY <2>2 DEF CallFails
    <3>2. made' \in Seq(Calls) /\ Len(made') <= 3
      BY <1>3, <3>1
    <3>3. /\ at' \in {"resolve", "socket", "finish"} \cup Calls
          /\ list' \in {"none", "held", "freed"}
          /\ outcome' \in {"idle", "running", "true", "false", "undefined"}
      BY <2>2 DEF SetupInv, SetupTypeOK, CallFails, End
    <3> QED BY <3>1, <3>2, <3>3 DEF SetupInv, SetupTypeOK
  <2> QED BY <2>1, <2>2
<1>5. CASE ReuseFails
  BY <1>2, <1>4, <1>5 DEF ReuseFails, End, SetupInv, Progress, SuccessUsable, OnlyKnownLeaks, Running
<1>6. CASE CallFails
  BY <1>1, <1>2, <1>4, <1>6
     DEF CallFails, End, SetupInv, Progress, SuccessUsable, OnlyKnownLeaks, Running
<1> QED BY <1>5, <1>6

\* No address served.
LEMMA ExhaustedInv ==
    ASSUME SetupInv, Exhausted
    PROVE  SetupInv'
<1>1. /\ UNCHANGED <<fn, left, fd, made, at>> /\ Running /\ at = "socket"
      /\ list' = IF This.exhausted THEN "freed" ELSE list
      /\ outcome' \in {"false", "undefined"}
  BY DEF Exhausted, End
<1>2. ~fd /\ list = "held"
  <2>1. fn \in Functions /\ Len(made) \in Nat
    BY LenProperties DEF SetupInv, SetupTypeOK
  <2>2. at # NextCall(Len(made))
    BY <1>1, <2>1, NextCallType, Places
  <2> QED BY <1>1, <2>2 DEF SetupInv, Progress
<1>3. SetupTypeOK'
  BY <1>1 DEF SetupInv, SetupTypeOK
<1>4. This' = This
  BY <1>1 DEF This
<1>5. OnlyKnownLeaks'
  BY <1>1, <1>2, <1>4 DEF OnlyKnownLeaks
<1> QED BY <1>1, <1>3, <1>5 DEF SetupInv, Progress, SuccessUsable, Running

\* An address served: every call was made, and the list is freed.
LEMMA FinishInv ==
    ASSUME SetupInv, Finish
    PROVE  SetupInv'
<1>1. /\ UNCHANGED <<fn, left, fd, made>> /\ outcome = "running" /\ at = "finish"
      /\ list' = "freed"
  BY DEF Finish, Running
<1>2. fd /\ Begun(made) /\ at = NextCall(Len(made))
  BY <1>1, UnderWay DEF Running
<1>3. /\ fn \in Functions /\ This.calls \in Seq(Calls) /\ Len(This.calls) \in 0..2
      /\ This.then = <<>> \/ (This.then = <<"listen">> /\ This.then[1] = "listen")
  BY CallTypes DEF SetupInv, SetupTypeOK
<1>4. This' = This
  BY <1>1 DEF This
<1>5. made = This.calls
  <2>1. made \in Seq(Calls) /\ Len(made) \in Nat
    BY <1>2, LenProperties DEF Begun
  <2>2. Len(made) >= Len(This.calls) /\ Len(made) <= Len(This.calls)
    BY <1>1, <1>2, <1>3, <2>1, NextCallType DEF Begun
  <2>3. Len(made) = Len(This.calls)
    <3> DEFINE m == Len(made)
               n == Len(This.calls)
    <3>1. m \in Nat /\ n \in Nat /\ m >= n /\ m <= n
      BY <1>3, <2>1, <2>2
    <3> HIDE DEF m, n
    <3>2. m = n
      BY <3>1
    <3> QED BY <3>2 DEF m, n
  <2> QED BY <1>2, <1>3, <2>1, <2>3, SeqEqual DEF Begun
<1>6. CASE This.then = <<>>
  <2>1. outcome' = "true" /\ at' = at
    BY <1>6 DEF Finish, End
  <2>2. made = This.calls \o This.then
    BY <1>3, <1>5, <1>6, ConcatEmptySeq
  <2>3. SuccessUsable'
    BY <1>1, <1>2, <1>4, <2>2 DEF SuccessUsable
  <2>4. SetupTypeOK'
    BY <1>1, <2>1 DEF SetupInv, SetupTypeOK
  <2> QED BY <2>1, <2>3, <2>4 DEF SetupInv, Progress, OnlyKnownLeaks, Running
<1>7. CASE This.then # <<>>
  <2>1. at' = "listen" /\ outcome' = outcome /\ This.then = <<"listen">>
    BY <1>3, <1>7 DEF Finish
  <2>2. Progress'
    BY <1>1, <1>2, <1>4, <1>5, <2>1 DEF Progress
  <2>3. SetupTypeOK'
    BY <1>1, <2>1 DEF SetupInv, SetupTypeOK, Calls
  <2> QED BY <1>1, <2>1, <2>2, <2>3 DEF SetupInv, SuccessUsable, OnlyKnownLeaks
<1> QED BY <1>6, <1>7

\* listen is the last call of the one function that makes it.
LEMMA ListenInv ==
    ASSUME SetupInv, Listen
    PROVE  SetupInv'
<1>1. UNCHANGED <<fn, left, list, fd, at>> /\ Running /\ at = "listen"
  BY DEF Listen, End
<1>2. /\ fn \in Functions /\ This.calls \in Seq(Calls) /\ Len(This.calls) \in 0..2
      /\ This.then = <<>> \/ This.then = <<"listen">>
      /\ made \in Seq(Calls) /\ Len(made) \in Nat
  BY CallTypes, LenProperties DEF SetupInv, SetupTypeOK
<1>3. fd /\ list = "freed" /\ made = This.calls /\ This.then = <<"listen">>
  <2>1. at # NextCall(Len(made))
    BY <1>1, <1>2, NoListen
  <2> QED BY <1>1, <2>1 DEF SetupInv, Progress
<1>4. This' = This
  BY <1>1 DEF This
<1>5. CASE made' = Append(made, at) /\ outcome' = "true"
  <2>1. "listen" \in Calls
    BY DEF Calls
  <2>2. made' = made \o <<"listen">> /\ made' \in Seq(Calls) /\ Len(made') = Len(made) + 1
    BY <1>1, <1>2, <1>5, <2>1, AppendIsConcat, AppendProperties
  <2>3. SuccessUsable'
    BY <1>1, <1>3, <1>4, <2>2 DEF SuccessUsable
  <2>4. Len(made) <= 2
    <3>1. Len(made) = Len(This.calls)
      BY <1>3
    <3>2. Len(made) \in 0..2
      BY <1>2, <3>1, Zenon
    <3>3. \A m \in 0..2 : m <= 2
      OBVIOUS
    <3> QED BY <3>2, <3>3, Zenon
  <2>5. SetupTypeOK'
    BY <1>1, <1>2, <1>5, <2>2, <2>4 DEF SetupInv, SetupTypeOK
  <2> QED BY <1>5, <2>3, <2>5 DEF SetupInv, Progress, OnlyKnownLeaks, Running
<1>6. CASE UNCHANGED made /\ outcome' = "false"
  <2>1. SetupTypeOK'
    BY <1>1, <1>6 DEF SetupInv, SetupTypeOK
  <2> QED BY <1>1, <1>3, <1>6, <2>1 DEF SetupInv, Progress, SuccessUsable, OnlyKnownLeaks, Running
<1> QED BY <1>5, <1>6 DEF Listen, End

\* Every step of a set-up keeps the invariant.
LEMMA SetupStepInv == SetupInv /\ SetupStep => SetupInv'
BY ResolveInv, OpenSocketInv, CallSucceedsInv, FailureInv, ExhaustedInv, FinishInv, ListenInv
   DEF SetupStep

----------------------------------------------------------------------------
(* The objects.                                                            *)

\* The variables of the objects have their types.
ObjectTypeOK ==
    /\ open_ports \subseteq Ports
    /\ state \in [Objects -> {"none", "building", "live"}]
    /\ role \in [Objects -> {"server", "client"}]
    /\ port \in [Objects -> Ports]
    /\ bound \subseteq Objects /\ wide \subseteq Objects /\ length \subseteq Objects
    /\ last_addr \in [Objects -> Peers \cup {Nobody}]
    /\ heard \in [Objects -> SUBSET Peers]

\* What one object has heard and sends to: nothing before its length was written,
\* and nobody's address after that only if the first sender was lost, or if no
\* address fits.
Addressed(o) ==
    /\ state[o] = "building" => heard[o] = {} /\ last_addr[o] = Nobody /\ o \notin length
    /\ state[o] = "live" =>
         \/ o \in wide
         \/ o \notin length /\ role[o] = "server" /\ heard[o] = {} /\ last_addr[o] = Nobody
         \/ last_addr[o] \in heard[o]
         \/ last_addr[o] = Host /\ role[o] = "client"
         \/ last_addr[o] = Nobody /\ role[o] = "client" /\ heard[o] = {}
         \/ /\ last_addr[o] = Nobody /\ role[o] = "server" /\ o \in length
            /\ \E peer \in Peers : heard[o] = {peer}

LengthWritten == \A o \in Objects : state[o] = "live" /\ role[o] = "client" => o \in length

ObjectInv ==
    ObjectTypeOK /\ PortsOnce /\ LengthWritten /\ \A o \in Objects : Addressed(o)

SocketInv == SetupInv /\ ObjectInv

\* The registry is a part of the process that set-ups do not touch.
LEMMA ObjectsStill == ObjectInv /\ UNCHANGED objectVars => ObjectInv'
BY DEF ObjectInv, objectVars, ObjectTypeOK, PortsOnce, Kept, LengthWritten, Addressed

\* A function that is about to start, or that returned at its first call, has
\* nothing open.
LEMMA FreshInv ==
    ASSUME fn' \in Functions, Fresh', outcome' \in {"idle", "running", "false", "undefined"}
    PROVE  SetupInv'
<1>1. <<>> \in Seq(Calls) /\ Len(<<>>) = 0
  BY EmptySeq
<1>2. /\ at' = "resolve" /\ left' = 0 /\ list' = "none" /\ fd' = FALSE /\ made' = <<>>
      /\ outcome' # "true"
  BY DEF Fresh
<1>3. SetupTypeOK'
  <2>1. made' \in Seq(Calls) /\ Len(made') = 0
    BY <1>1, <1>2
  <2>2. left' \in 0..MaxAddresses
    BY <1>2, SetupAssumption
  <2>3. Len(made') <= 3
    BY <2>1
  <2> HIDE DEF Fresh
  <2> QED BY <1>2, <2>1, <2>2, <2>3, Zenon DEF SetupTypeOK
<1>4. Progress' /\ SuccessUsable' /\ OnlyKnownLeaks'
  BY <1>2 DEF Progress, SuccessUsable, OnlyKnownLeaks
<1> QED BY <1>3, <1>4 DEF SetupInv

\* The two functions of UDP sockets are functions.
LEMMA InitializeTypes == \A r \in {"server", "client"} : Initialize[r] \in Functions
BY DEF Initialize, Functions, Setup

\* The initial state has the invariant.
LEMMA InitSocketInv == Init => SocketInv
<1> SUFFICES ASSUME Init PROVE SocketInv OBVIOUS
<1>1. fn \in Functions /\ Fresh /\ outcome \in {"idle", "running"}
  BY InitializeTypes DEF Init, Initialize
<1>2. <<>> \in Seq(Calls) /\ Len(<<>>) = 0
  BY EmptySeq
<1>3. at = "resolve" /\ left = 0 /\ list = "none" /\ fd = FALSE /\ made = <<>>
  BY <1>1 DEF Fresh
<1>4. SetupTypeOK
  <2>1. made \in Seq(Calls) /\ Len(made) = 0
    BY <1>2, <1>3
  <2>2. left \in 0..MaxAddresses
    BY <1>3, SetupAssumption
  <2>3. Len(made) <= 3
    BY <2>1
  <2>4. outcome \in {"idle", "running", "true", "false", "undefined"}
    BY <1>1
  <2> QED BY <1>1, <1>3, <2>1, <2>2, <2>3, <2>4, Zenon DEF SetupTypeOK
<1>5. Progress /\ SuccessUsable /\ OnlyKnownLeaks
  BY <1>1, <1>3 DEF Progress, SuccessUsable, OnlyKnownLeaks
<1>6. ObjectInv
  <2>1. ObjectTypeOK
    BY DEF Init, ObjectTypeOK
  <2>2. \A o \in Objects : state[o] = "none"
    BY DEF Init
  <2> QED BY <2>1, <2>2 DEF ObjectInv, PortsOnce, Kept, LengthWritten, Addressed
<1> QED BY <1>4, <1>5, <1>6 DEF SocketInv, SetupInv

\* A new object has a port that no other has, and nothing open yet.
LEMMA MakeInv ==
    ASSUME SocketInv, NEW o \in Objects, NEW p \in Ports, NEW r \in {"server", "client"},
           Make(o, p, r)
    PROVE  SocketInv'
<1>1. SetupInv'
  <2>1. fn' \in Functions /\ outcome' = "running"
    BY InitializeTypes DEF Make
  <2>2. Fresh'
    BY DEF Make, Fresh
  <2> QED BY <2>1, <2>2, FreshInv
<1>2. /\ open_ports' = open_ports \cup {p} /\ p \notin open_ports /\ p >= 1000
      /\ state' = [state EXCEPT ![o] = "building"] /\ role' = [role EXCEPT ![o] = r]
      /\ port' = [port EXCEPT ![o] = p] /\ heard' = [heard EXCEPT ![o] = {}]
      /\ last_addr' = [last_addr EXCEPT ![o] = Nobody]
      /\ bound' = bound \ {o} /\ wide' = wide \ {o} /\ length' = length \ {o}
  BY DEF Make, PortAccepted
<1>3. ObjectTypeOK
  BY DEF SocketInv, ObjectInv
<1>4. ObjectTypeOK'
  BY <1>2, <1>3 DEF ObjectTypeOK
<1>5. \A q \in Objects : q # o => /\ state'[q] = state[q] /\ role'[q] = role[q]
                                  /\ port'[q] = port[q] /\ heard'[q] = heard[q]
                                  /\ last_addr'[q] = last_addr[q]
                                  /\ (q \in length' <=> q \in length)
                                  /\ (q \in wide' <=> q \in wide)
  BY <1>2, <1>3 DEF ObjectTypeOK
<1>6. /\ state'[o] = "building" /\ port'[o] = p /\ heard'[o] = {}
      /\ last_addr'[o] = Nobody /\ o \notin length'
  BY <1>2, <1>3 DEF ObjectTypeOK
<1>7. PortsOnce'
  <2> SUFFICES ASSUME NEW u \in Objects, state'[u] # "none"
               PROVE  /\ port'[u] \in open_ports' /\ port'[u] >= 1000
                      /\ \A q \in Objects :
                           state'[q] # "none" /\ port'[q] = port'[u] => q = u
    BY DEF PortsOnce, Kept
  <2>1. \A q \in Objects : q # o /\ state'[q] # "none" =>
          /\ port'[q] \in open_ports /\ port'[q] # p /\ port'[q] >= 1000
          /\ \A w \in Objects : w # o /\ state'[w] # "none" /\ port'[w] = port'[q] => w = q
    BY <1>2, <1>5 DEF SocketInv, ObjectInv, PortsOnce, Kept
  <2> QED BY <1>2, <1>6, <2>1
<1>8. LengthWritten'
  BY <1>5, <1>6 DEF SocketInv, ObjectInv, LengthWritten
<1>9. \A q \in Objects : Addressed(q)'
  BY <1>5, <1>6 DEF SocketInv, ObjectInv, Addressed
<1> QED BY <1>1, <1>4, <1>7, <1>8, <1>9 DEF SocketInv, ObjectInv

\* An object that is ready has heard nobody.
LEMMA MadeInv ==
    ASSUME SocketInv, NEW o \in Objects, Made(o)
    PROVE  SocketInv'
<1>1. /\ UNCHANGED setupVars /\ UNCHANGED <<open_ports, role, port, heard>>
      /\ state[o] = "building"
  BY DEF Made
<1>2. SetupInv'
  BY <1>1, SetupStill DEF SocketInv
<1>3. ObjectTypeOK /\ Addressed(o)
  BY DEF SocketInv, ObjectInv
<1>4. heard[o] = {} /\ last_addr[o] = Nobody /\ o \notin length
  BY <1>1, <1>3 DEF Addressed
<1>5. Host \in Peers
  BY ObjectsAssumption
<1>6. ObjectTypeOK'
  <2>1. state' \in [Objects -> {"none", "building", "live"}]
    BY <1>3 DEF Made, ObjectTypeOK
  <2>2. last_addr' \in [Objects -> Peers \cup {Nobody}]
    BY <1>3, <1>5 DEF Made, HostRead, ObjectTypeOK
  <2>3. bound' \subseteq Objects /\ wide' \subseteq Objects /\ length' \subseteq Objects
    BY <1>3 DEF Made, ObjectTypeOK
  <2> QED BY <1>1, <1>3, <2>1, <2>2, <2>3 DEF ObjectTypeOK
<1>7. /\ \A q \in Objects : q # o => /\ state'[q] = state[q]
                                     /\ last_addr'[q] = last_addr[q]
                                     /\ (q \in length' <=> q \in length)
                                     /\ (q \in wide' <=> q \in wide)
      /\ length \subseteq length'
  BY <1>3 DEF Made, ObjectTypeOK
<1>8. PortsOnce'
  <2>1. \A q \in Objects : state'[q] # "none" => state[q] # "none"
    BY <1>1, <1>7
  <2> QED BY <1>1, <2>1 DEF SocketInv, ObjectInv, PortsOnce, Kept
<1>9. \/ state'[o] = "none"
      \/ state'[o] = "live" /\ role[o] = "server" /\ o \notin length' /\ last_addr'[o] = Nobody
      \/ state'[o] = "live" /\ role[o] = "client" /\ o \in length'
           /\ last_addr'[o] \in {Host, Nobody}
  BY <1>3, <1>4 DEF Made, HostRead, ObjectTypeOK
<1>10. LengthWritten'
  BY <1>1, <1>7, <1>9 DEF SocketInv, ObjectInv, LengthWritten
<1>11. \A q \in Objects : Addressed(q)'
  BY <1>1, <1>4, <1>7, <1>9 DEF SocketInv, ObjectInv, Addressed
<1> QED BY <1>2, <1>6, <1>8, <1>10, <1>11 DEF SocketInv, ObjectInv

\* An object that is gone has nothing to say, and its port stays.
LEMMA DestroyInv ==
    ASSUME SocketInv, NEW o \in Objects, Destroy(o)
    PROVE  SocketInv'
<1>1. /\ UNCHANGED setupVars
      /\ UNCHANGED <<open_ports, role, port, bound, wide, last_addr, length, heard>>
      /\ state' = [state EXCEPT ![o] = "none"]
  BY DEF Destroy
<1>2. SetupInv'
  BY <1>1, SetupStill DEF SocketInv
<1>3. ObjectTypeOK
  BY DEF SocketInv, ObjectInv
<1>4. ObjectTypeOK'
  BY <1>1, <1>3 DEF ObjectTypeOK
<1>5. \A q \in Objects : state'[q] = "none" \/ state'[q] = state[q]
  BY <1>1, <1>3 DEF ObjectTypeOK
<1>6. PortsOnce' /\ LengthWritten'
  BY <1>1, <1>5 DEF SocketInv, ObjectInv, PortsOnce, Kept, LengthWritten
<1>7. \A q \in Objects : Addressed(q)'
  BY <1>1, <1>5 DEF SocketInv, ObjectInv, Addressed
<1> QED BY <1>2, <1>4, <1>6, <1>7 DEF SocketInv, ObjectInv

\* A sender that is stored was heard; only the first may not be stored.
LEMMA ObjectReceiveInv ==
    ASSUME SocketInv, NEW o \in Objects, Receive(o)
    PROVE  SocketInv'
<1>1. /\ UNCHANGED setupVars /\ UNCHANGED <<open_ports, state, role, port, bound, wide>>
      /\ state[o] = "live" /\ length' = length \cup {o}
  BY DEF Receive
<1>2. SetupInv'
  BY <1>1, SetupStill DEF SocketInv
<1>3. ObjectTypeOK /\ Addressed(o) /\ LengthWritten
  BY DEF SocketInv, ObjectInv
<1>4. PICK peer \in Peers :
        /\ \/ o \notin wide /\ last_addr' = [last_addr EXCEPT ![o] = peer]
           \/ (o \in wide \/ o \notin length) /\ UNCHANGED last_addr
        /\ heard' = [heard EXCEPT ![o] = @ \cup {peer}]
  BY DEF Receive
<1>5. ObjectTypeOK'
  BY <1>1, <1>3, <1>4 DEF ObjectTypeOK
<1>6. PortsOnce'
  BY <1>1 DEF SocketInv, ObjectInv, PortsOnce, Kept
<1>7. LengthWritten'
  BY <1>1, <1>3 DEF LengthWritten
<1>8. heard'[o] = heard[o] \cup {peer}
  BY <1>3, <1>4 DEF ObjectTypeOK
<1>9. CASE last_addr' = [last_addr EXCEPT ![o] = peer]
  <2>1. last_addr'[o] \in heard'[o]
    BY <1>3, <1>8, <1>9 DEF ObjectTypeOK
  <2>2. \A q \in Objects : q # o =>
          last_addr'[q] = last_addr[q] /\ heard'[q] = heard[q]
    BY <1>3, <1>4, <1>9 DEF ObjectTypeOK
  <2>3. \A q \in Objects : Addressed(q)'
    BY <1>1, <2>1, <2>2 DEF SocketInv, ObjectInv, Addressed
  <2> QED BY <1>2, <1>5, <1>6, <1>7, <2>3 DEF SocketInv, ObjectInv
<1>10. CASE o \in wide /\ UNCHANGED last_addr
  <2>1. \A q \in Objects : q # o => last_addr'[q] = last_addr[q] /\ heard'[q] = heard[q]
    BY <1>3, <1>4, <1>10 DEF ObjectTypeOK
  <2>2. \A q \in Objects : Addressed(q)'
    BY <1>1, <1>10, <2>1 DEF SocketInv, ObjectInv, Addressed
  <2> QED BY <1>2, <1>5, <1>6, <1>7, <2>2 DEF SocketInv, ObjectInv
<1>11. CASE o \notin wide /\ o \notin length /\ UNCHANGED last_addr
  <2>1. role[o] = "server" /\ Nobody \notin Peers
    <3>1. role[o] \in {"server", "client"}
      BY <1>3 DEF ObjectTypeOK
    <3>2. role[o] # "client"
      BY <1>1, <1>3, <1>11 DEF LengthWritten
    <3>3. Nobody \notin Peers
      BY ObjectsAssumption
    <3> QED BY <3>1, <3>2, <3>3
  <2>2. heard[o] \subseteq Peers
    BY <1>3 DEF ObjectTypeOK
  <2>3. (heard[o] = {} /\ last_addr[o] = Nobody) \/ last_addr[o] \in heard[o]
    BY <1>1, <1>3, <1>11, <2>1 DEF Addressed
  <2>4. Addressed(o)'
    <3>1. CASE heard[o] = {} /\ last_addr[o] = Nobody
      <4>1. heard'[o] = {peer} /\ last_addr'[o] = Nobody /\ o \in length' /\ role'[o] = "server"
        BY <1>1, <1>8, <1>11, <2>1, <3>1
      <4> QED BY <1>1, <4>1 DEF Addressed
    <3>2. CASE last_addr[o] \in heard[o]
      <4>1. last_addr'[o] \in heard'[o]
        BY <1>8, <1>11, <3>2
      <4> QED BY <1>1, <4>1 DEF Addressed
    <3> QED BY <2>3, <3>1, <3>2
  <2>5. \A q \in Objects : q # o => heard'[q] = heard[q] /\ last_addr' = last_addr
    BY <1>3, <1>4, <1>11 DEF ObjectTypeOK
  <2>6. \A q \in Objects : q # o => Addressed(q)'
    BY <1>1, <2>5 DEF SocketInv, ObjectInv, Addressed
  <2> QED BY <1>2, <1>5, <1>6, <1>7, <2>4, <2>6 DEF SocketInv, ObjectInv
<1> QED BY <1>4, <1>9, <1>10, <1>11

\* Sending gives an object a local port and nothing else.
LEMMA SendInv ==
    ASSUME SocketInv, NEW o \in Objects, Send(o)
    PROVE  SocketInv'
<1>1. /\ UNCHANGED setupVars
      /\ UNCHANGED <<open_ports, state, role, port, wide, last_addr, length, heard>>
      /\ bound' = bound \cup {o}
  BY DEF Send
<1>2. SetupInv'
  BY <1>1, SetupStill DEF SocketInv
<1>3. ObjectInv'
  BY <1>1 DEF SocketInv, ObjectInv, ObjectTypeOK, PortsOnce, Kept, LengthWritten, Addressed
<1> QED BY <1>2, <1>3 DEF SocketInv

\* A secure socket takes a port and comes to nothing.
LEMMA MakeSecureInv ==
    ASSUME SocketInv, NEW p \in Ports, NEW r \in {"server", "client"}, MakeSecure(p, r)
    PROVE  SocketInv'
<1>1. /\ open_ports' = open_ports \cup {p} /\ fn' = fn
      /\ UNCHANGED <<state, role, port, bound, wide, last_addr, length, heard>>
      /\ outcome' \in {"false", "undefined"}
  BY DEF MakeSecure, Secure_initialize, Secure_initialize_server, Secure_initialize_client
<1>2. Fresh'
  BY DEF MakeSecure, Fresh
<1>3. SetupInv'
  BY <1>1, <1>2, FreshInv DEF SocketInv, SetupInv, SetupTypeOK
<1>4. ObjectInv'
  BY <1>1 DEF SocketInv, ObjectInv, ObjectTypeOK, PortsOnce, Kept, LengthWritten, Addressed
<1> QED BY <1>3, <1>4 DEF SocketInv

\* Every step keeps the invariant.
LEMMA NextSocketInv == SocketInv /\ [Next]_vars => SocketInv'
<1> SUFFICES ASSUME SocketInv, [Next]_vars PROVE SocketInv' OBVIOUS
<1>1. CASE ObjectStep
  BY <1>1, MakeInv, MadeInv, DestroyInv, ObjectReceiveInv, SendInv, MakeSecureInv DEF ObjectStep
<1>2. CASE SetupStep /\ UNCHANGED objectVars
  BY <1>2, SetupStepInv, ObjectsStill DEF SocketInv
<1>3. CASE UNCHANGED vars
  <2>1. UNCHANGED setupVars /\ UNCHANGED objectVars
    BY <1>3 DEF vars
  <2> QED BY <2>1, SetupStill, ObjectsStill DEF SocketInv
<1> QED BY <1>1, <1>2, <1>3 DEF Next

----------------------------------------------------------------------------
(* The theorems.                                                           *)

\* The invariant holds in every behaviour.
LEMMA SocketInvariant == Spec => []SocketInv
BY InitSocketInv, NextSocketInv, PTL DEF Spec

\* The variables keep their types: a function makes three calls at most on a
\* descriptor, and an object sends to a peer or to nobody.
THEOREM SocketTypeCorrect == Spec => []TypeOK
<1>1. SocketInv => TypeOK
  BY DEF SocketInv, SetupInv, ObjectInv, ObjectTypeOK, TypeOK
<1> QED BY <1>1, SocketInvariant, PTL

\* Each of the sixteen functions that reports success has a descriptor on which
\* every call succeeded (UDP_Socket.cxx:114-141, for one), however many addresses
\* were tried before.
THEOREM SuccessUsableCorrect == Spec => []SuccessUsable
<1>1. SocketInv => SuccessUsable
  BY DEF SocketInv, SetupInv
<1> QED BY <1>1, SocketInvariant, PTL

\* What a function that fails leaves open is what OnlyKnownLeaks lists, and
\* nothing else.
THEOREM OnlyKnownLeaksCorrect == Spec => []OnlyKnownLeaks
<1>1. SocketInv => OnlyKnownLeaks
  BY DEF SocketInv, SetupInv
<1> QED BY <1>1, SocketInvariant, PTL

\* No two objects have one port (Socket.cxx:11-15), whatever was made, failed and
\* was destroyed before.
THEOREM PortsOnceCorrect == Spec => []PortsOnce
<1>1. SocketInv => PortsOnce
  BY DEF SocketInv, ObjectInv
<1> QED BY <1>1, SocketInvariant, PTL

\* A socket whose addresses fit in a struct sockaddr sends to somebody it heard, or
\* to whom it was made for, or to nobody as long as it heard at most one
\* (Unreliable_UDP_Socket.cxx:17-51).
THEOREM SendsToHeardCorrect == Spec => []SendsToHeard
<1>1. Cardinality({}) = 0 /\ \A x : Cardinality({x}) = 1
  BY FS_EmptySet, FS_Singleton
<1>2. SocketInv => SendsToHeard
  <2> SUFFICES ASSUME SocketInv, NEW o \in Objects, state[o] = "live", o \notin wide
               PROVE  \/ last_addr[o] \in heard[o]
                      \/ last_addr[o] = Host /\ role[o] = "client"
                      \/ last_addr[o] = Nobody /\ Cardinality(heard[o])
                           <= IF role[o] = "server" THEN 1 ELSE 0
    BY DEF SendsToHeard
  <2>1. Addressed(o)
    BY DEF SocketInv, ObjectInv
  <2>2. heard[o] = {} => Cardinality(heard[o]) <= IF role[o] = "server" THEN 1 ELSE 0
    BY <1>1
  <2>3. (\E peer \in Peers : heard[o] = {peer}) => Cardinality(heard[o]) <= 1
    <3> SUFFICES ASSUME NEW peer \in Peers, heard[o] = {peer}
                 PROVE  Cardinality(heard[o]) <= 1
      OBVIOUS
    <3>1. Cardinality(heard[o]) = 1
      BY <1>1
    <3> QED BY <3>1
  <2> QED BY <2>1, <2>2, <2>3 DEF Addressed
<1> QED BY <1>2, SocketInvariant, PTL

\* A port that no object has any more is lost, and stays lost.
LEMMA PortLostStep ==
    ASSUME SocketInv, [Next]_vars
    PROVE  /\ \A p \in Ports : Lost(p) => Lost(p)'
           /\ \A o \in Objects : Kept(o) /\ ~Kept(o)' => Lost(port[o])'
<1>1. ObjectTypeOK /\ PortsOnce
  BY DEF SocketInv, ObjectInv
<1>2. CASE \E o \in Objects, p \in Ports, r \in {"server", "client"} : Make(o, p, r)
  <2>1. PICK o \in Objects, p \in Ports, r \in {"server", "client"} : Make(o, p, r)
    BY <1>2
  <2>2. /\ open_ports' = open_ports \cup {p} /\ p \notin open_ports
        /\ state'[o] = "building" /\ port'[o] = p
        /\ \A q \in Objects : q # o => state'[q] = state[q] /\ port'[q] = port[q]
    BY <1>1, <2>1 DEF Make, PortAccepted, ObjectTypeOK
  <2>3. \A w \in Ports : Lost(w) => Lost(w)'
    BY <2>2 DEF Lost, Kept
  <2>4. \A q \in Objects : Kept(q) => Kept(q)'
    BY <2>2 DEF Kept
  <2> QED BY <2>3, <2>4
<1>3. CASE \E o \in Objects : Made(o) \/ Destroy(o)
  <2>1. PICK o \in Objects : Made(o) \/ Destroy(o)
    BY <1>3
  <2>2. /\ open_ports' = open_ports /\ port' = port
        /\ \A q \in Objects : q # o => state'[q] = state[q]
        /\ state[o] # "none"
    BY <1>1, <2>1 DEF Made, Destroy, ObjectTypeOK
  <2>3. \A w \in Ports : Lost(w) => Lost(w)'
    BY <2>2 DEF Lost, Kept
  <2>4. \A q \in Objects : Kept(q) /\ ~Kept(q)' => Lost(port[q])'
    <3> SUFFICES ASSUME NEW q \in Objects, Kept(q), ~Kept(q)'
                 PROVE  /\ port'[q] \in open_ports'
                        /\ \A u \in Objects : state'[u] # "none" => port'[u] # port'[q]
      BY DEF Lost, Kept
    <3>1. q = o /\ state'[q] = "none"
      BY <2>2 DEF Kept
    <3>2. port[q] \in open_ports /\ \A u \in Objects : Kept(u) /\ port[u] = port[q] => u = q
      BY <1>1 DEF PortsOnce
    <3>3. \A u \in Objects : state'[u] # "none" => Kept(u) /\ u # q
      BY <2>2, <3>1 DEF Kept
    <3> QED BY <2>2, <3>2, <3>3
  <2> QED BY <2>3, <2>4
<1>4. CASE UNCHANGED <<state, port>> /\ open_ports \subseteq open_ports'
  BY <1>4 DEF Lost, Kept
<1>5. CASE ObjectStep /\ ~(\E o \in Objects : Made(o) \/ Destroy(o))
           /\ ~(\E o \in Objects, p \in Ports, r \in {"server", "client"} : Make(o, p, r))
  <2>1. \A o \in Objects : Receive(o) \/ Send(o) =>
          UNCHANGED <<state, port>> /\ open_ports \subseteq open_ports'
    BY DEF Receive, Send
  <2>2. \A p \in Ports, r \in {"server", "client"} : MakeSecure(p, r) =>
          UNCHANGED <<state, port>> /\ open_ports \subseteq open_ports'
    BY DEF MakeSecure
  <2> QED BY <1>4, <1>5, <2>1, <2>2 DEF ObjectStep
<1>6. CASE UNCHANGED objectVars
  BY <1>4, <1>6 DEF objectVars
<1> QED BY <1>2, <1>3, <1>5, <1>6 DEF Next, vars

\* The registry only ever grows (Socket.cxx:14, UDP_Socket.cxx:23-25), for any
\* objects and ports.
THEOREM PortLostCorrect == Spec => PortLost
<1>1. SocketInv /\ [Next]_vars =>
        [/\ \A p \in Ports : Lost(p) => Lost(p)'
         /\ \A o \in Objects : Kept(o) /\ ~Kept(o)' => Lost(port[o])']_vars
  BY PortLostStep
<1> QED BY <1>1, SocketInvariant, PTL DEF Spec, PortLost

=============================================================================
