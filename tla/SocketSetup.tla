---------------------------- MODULE SocketSetup ----------------------------
(***************************************************************************)
(* How the programs open a socket.  Sixteen functions do it alike: resolve *)
(* a name to a list of addresses, take a descriptor for each address in    *)
(* turn until every call on it succeeds, free the list, and report.  They  *)
(* differ in the calls made, and in when the list is freed: a record says  *)
(* how.                                                                    *)
(*                                                                         *)
(*   calls      what is done with the descriptor of an address, in order   *)
(*   then       what is done once an address served                        *)
(*   unresolved whether the list is freed when there is none               *)
(*   exhausted  whether it is freed when no address served                 *)
(*   retried    whether it is freed before the next address is tried       *)
(*   address    when the address that served is read: never, or before or  *)
(*              after the list is freed                                    *)
(***************************************************************************)
EXTENDS Integers, Sequences, SequencesExt

CONSTANTS
    MaxAddresses    \* bound: addresses a name has

ASSUME SetupAssumption == MaxAddresses \in Nat \ {0}

Careful ==
    [calls |-> <<>>, then |-> <<>>, unresolved |-> FALSE, exhausted |-> TRUE,
     retried |-> FALSE, address |-> "never"]

----------------------------------------------------------------------------
(* Servers that listen, and clients that connect.                          *)

LoginServer_initialize == [Careful EXCEPT !.calls = <<"reuse", "bind">>]

Session_start == [Careful EXCEPT !.calls = <<"reuse", "bind">>, !.then = <<"listen">>]

setup_TCP_connection == [Careful EXCEPT !.calls = <<"connect">>, !.exhausted = FALSE]

ChatClient_setup_TCP_connection == setup_TCP_connection

MatchMaker_setup_TCP_connection == setup_TCP_connection

Linear_setup_TCP_connection == setup_TCP_connection

LoginClient_main == [Careful EXCEPT !.calls = <<"connect">>, !.exhausted = FALSE]

----------------------------------------------------------------------------
(* Datagram sockets.                                                       *)

Acceptor_setup == [Careful EXCEPT !.calls = <<"bind">>, !.exhausted = FALSE]

setup_UDP_connection == [Careful EXCEPT !.unresolved = TRUE, !.address = "before"]

ChatServer_setup_UDP_connection == setup_UDP_connection

MatchMaker_setup_UDP_connection == setup_UDP_connection

setup_UDP_client_connection == setup_UDP_connection

setup_UDP_server_connection ==
    [Careful EXCEPT !.calls = <<"bind">>, !.unresolved = TRUE, !.retried = TRUE]

game_client_main == [Careful EXCEPT !.address = "after"]

UDP_Socket_initialize_server == [Careful EXCEPT !.calls = <<"bind">>]

UDP_Socket_initialize_client == [Careful EXCEPT !.address = "after"]

Setup ==
    [LoginServer_initialize |-> LoginServer_initialize,
     Session_start |-> Session_start,
     setup_TCP_connection |-> setup_TCP_connection,
     ChatClient_setup_TCP_connection |-> ChatClient_setup_TCP_connection,
     MatchMaker_setup_TCP_connection |-> MatchMaker_setup_TCP_connection,
     Linear_setup_TCP_connection |-> Linear_setup_TCP_connection,
     LoginClient_main |-> LoginClient_main,
     Acceptor_setup |-> Acceptor_setup,
     setup_UDP_connection |-> setup_UDP_connection,
     ChatServer_setup_UDP_connection |-> ChatServer_setup_UDP_connection,
     MatchMaker_setup_UDP_connection |-> MatchMaker_setup_UDP_connection,
     setup_UDP_client_connection |-> setup_UDP_client_connection,
     setup_UDP_server_connection |-> setup_UDP_server_connection,
     game_client_main |-> game_client_main,
     UDP_Socket_initialize_server |-> UDP_Socket_initialize_server,
     UDP_Socket_initialize_client |-> UDP_Socket_initialize_client]

Functions == DOMAIN Setup

----------------------------------------------------------------------------

VARIABLES
    fn,        \* the function that runs, or ran last
    at,        \* its next call
    left,      \* addresses it has not tried
    list,      \* the address list: none, held or freed
    fd,        \* BOOLEAN: it has a descriptor open
    made,      \* the calls that succeeded on this descriptor
    outcome    \* idle, running, true, false or undefined

setupVars == <<fn, at, left, list, fd, made, outcome>>

Calls == {"reuse", "bind", "connect", "listen"}

SetupTypeOK ==
    /\ fn \in Functions
    /\ at \in {"resolve", "socket", "finish"} \cup Calls
    /\ left \in 0..MaxAddresses
    /\ list \in {"none", "held", "freed"} /\ fd \in BOOLEAN
    /\ made \in Seq(Calls) /\ Len(made) <= 3
    /\ outcome \in {"idle", "running", "true", "false", "undefined"}

\* The locals with which a function starts.
Fresh == at = "resolve" /\ left = 0 /\ list = "none" /\ fd = FALSE /\ made = <<>>

This == Setup[fn]

Running == outcome = "running"

\* The function returns; at stays the call it returned from.
End(result) == outcome' = result /\ UNCHANGED at

\* getaddrinfo gives at least one address, or fails and leaves the pointer as
\* it was: freeing that may be harmless, or anything.
Resolve ==
    /\ Running /\ at = "resolve"
    /\ \/ /\ left' \in 1..MaxAddresses
          /\ list' = "held" /\ at' = "socket"
          /\ UNCHANGED outcome
       \/ /\ \E result \in {"false"} \cup (IF This.unresolved THEN {"undefined"} ELSE {}) :
               End(result)
          /\ UNCHANGED <<left, list>>
    /\ UNCHANGED <<fn, fd, made>>

\* What follows n successful calls on a descriptor.
NextCall(n) == IF n < Len(This.calls) THEN This.calls[n + 1] ELSE "finish"

\* The variant that does not look for the end of the list.
OpenSocketPastEnd ==
    /\ Running /\ at = "socket"
    /\ left' = left - 1
    /\ \/ fd' = TRUE /\ at' = NextCall(0)
       \/ UNCHANGED <<fd, at>>
    /\ made' = <<>>
    /\ UNCHANGED <<fn, list, outcome>>

OpenSocket ==
    /\ Running /\ at = "socket" /\ left > 0
    /\ left' = left - 1
    /\ \/ fd' = TRUE /\ at' = NextCall(0)
       \/ UNCHANGED <<fd, at>>
    /\ made' = <<>>
    /\ UNCHANGED <<fn, list, outcome>>

CallSucceeds ==
    /\ Running /\ at \in {"reuse", "bind", "connect"}
    /\ made' = Append(made, at)
    /\ at' = NextCall(Len(made) + 1)
    /\ UNCHANGED <<fn, left, list, fd, outcome>>

\* setsockopt fails: the function returns as it is.
ReuseFails ==
    /\ Running /\ at = "reuse"
    /\ End("false")
    /\ UNCHANGED <<fn, left, list, fd, made>>

\* The variant that tries the next address without closing the descriptor.
CallFailsOpen ==
    /\ Running /\ at \in {"bind", "connect"}
    /\ made' = <<>>
    /\ IF This.retried
         THEN list' = "freed" /\ End("undefined")
         ELSE at' = "socket" /\ UNCHANGED <<list, outcome>>
    /\ UNCHANGED <<fn, left, fd>>

\* bind or connect fails: the descriptor is closed and the next address tried.
\* When the list was freed, the loop reads it and frees it again.
CallFails ==
    /\ Running /\ at \in {"bind", "connect"}
    /\ fd' = FALSE /\ made' = <<>>
    /\ IF This.retried
         THEN list' = "freed" /\ End("undefined")
         ELSE at' = "socket" /\ UNCHANGED <<list, outcome>>
    /\ UNCHANGED <<fn, left>>

\* No address served.  What reads the address reads through a null pointer.
Exhausted ==
    /\ Running /\ at = "socket" /\ left = 0
    /\ list' = IF This.exhausted THEN "freed" ELSE list
    /\ End(IF This.address = "after" THEN "undefined" ELSE "false")
    /\ UNCHANGED <<fn, left, fd, made>>

\* The variant that frees the list only when no address served.
FinishKeepsList ==
    /\ Running /\ at = "finish"
    /\ IF This.then = <<>> THEN End("true") ELSE at' = This.then[1] /\ UNCHANGED outcome
    /\ UNCHANGED <<fn, left, list, fd, made>>

Finish ==
    /\ Running /\ at = "finish"
    /\ list' = "freed"
    /\ IF This.then = <<>> THEN End("true") ELSE at' = This.then[1] /\ UNCHANGED outcome
    /\ UNCHANGED <<fn, left, fd, made>>

Listen ==
    /\ Running /\ at = "listen"
    /\ \/ made' = Append(made, at) /\ End("true")
       \/ UNCHANGED made /\ End("false")
    /\ UNCHANGED <<fn, left, list, fd>>

SetupStep == Resolve \/ OpenSocket \/ CallSucceeds \/ ReuseFails \/ CallFails
             \/ Exhausted \/ Finish \/ Listen

----------------------------------------------------------------------------

\* A function that reports success has a descriptor on which every call
\* succeeded, those on earlier addresses not counted, and has freed the list.
SuccessUsable ==
    outcome = "true" =>
        fd /\ list = "freed" /\ made = This.calls \o This.then

\* A function that fails has closed every descriptor and freed the list, but for
\* what it leaves at three places: setsockopt (LoginServer.cxx:206-209,
\* Session.cxx:93-97), listen (117-121), and a list of which no address served
\* (ChatServer/server_utils.cxx:48-50, Acceptor.cxx:53-56).
OnlyKnownLeaks ==
    outcome = "false" =>
        /\ fd => at \in {"reuse", "listen"}
        /\ list = "held" =>
             at = "reuse" \/ (at = "socket" /\ ~This.exhausted)

=============================================================================
