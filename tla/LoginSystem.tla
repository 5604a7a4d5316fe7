---------------------------- MODULE LoginSystem ----------------------------
(***************************************************************************)
(* The login server's processes composed with the login clients, and what  *)
(* the pair promises.                                                      *)
(***************************************************************************)
EXTENDS LoginServer, LoginClient

vars == <<netVars, serverVars, clientVars>>

Init == NetInit /\ ServerInit /\ ClientInit

ServerStep == (ParentStep \/ \E c \in Clients : Child(c)) /\ UNCHANGED clientVars

UserStep == (\E d \in Clients : ClientStep(d) \/ TypeRequest(d) \/ Crash(d)) /\ UNCHANGED serverVars

Next == ServerStep \/ UserStep

Spec == Init /\ [][Next]_vars

\* The operating system schedules every process; nothing makes a user start the
\* client or type a request.
Fairness ==
    /\ WF_vars(ParentStep /\ UNCHANGED clientVars)
    /\ \A c \in Clients : WF_vars(Child(c) /\ UNCHANGED clientVars)
    /\ \A d \in Clients : WF_vars(pc[d] # "start" /\ ClientStep(d) /\ UNCHANGED serverVars)

FairSpec == Spec /\ Fairness

----------------------------------------------------------------------------

\* Every variable keeps its type: pcs are known pcs, streams carry what the
\* two programs write, ports and rows are what the code stores there.
TypeOK == NetTypeOK /\ ServerTypeOK /\ ClientTypeOK

ListenPcs  == {"accept", "handshake", "uname", "lookup", "row", "password", "token",
               "cleanup", "spin"}
SecurePcs  == ListenPcs \ {"accept"}

\* A secure port belongs to at most one child, and that child is alive and
\* still between its bind and the end of its tunnel (LoginServer.cxx:377-393,
\* 754-763): an exit on whatever path leaves no listener behind.
ListenersLive ==
    /\ \A c \in listening : cpc[c] \in ListenPcs
    /\ \A c, d \in listening : port[c] = port[d] => c = d

\* A client's tunnel is in one place: waiting once in one queue, or with the
\* one child that popped it.  No two children ever read from the same client.
TunnelUnshared ==
    /\ \A c, d \in Clients : peer[c] # None /\ peer[c] = peer[d] => c = d
    /\ \A c, d \in Clients : peer[c] # None => ~Waiting(d, peer[c])
    /\ \A c, d \in Clients : \A i \in DOMAIN queue[c], j \in DOMAIN queue[d] :
          queue[c][i] = queue[d][j] => c = d /\ i = j

\* Children of the same service work one at a time from bind to the end of
\* their tunnel, because each takes 14000, or 13000, from its own copy of the
\* counter (363-383, 703-758).
ServicesSerial ==
    \A c, d \in listening : svc[c] = svc[d] => c = d

\* The row a login compares against is the row of the name it was sent
\* (425-442), though any process may take any reply from the connection.  Of
\* names only that the query takes literally (426), but beside clients that
\* send others.
LookupOwnRow ==
    \A c \in Clients :
        cpc[c] \in {"password", "token"} /\ svc[c] = 0 /\ uname[c] \in Literal =>
            row[c].name = uname[c]

\* A client holds a token only for the name it typed, and, if the query takes
\* that name literally (426), only if it typed the password whose hash the
\* table stores for it (462-486).
TokenVouched ==
    \A d \in Clients : token[d] # None =>
        /\ token[d].name = want[d].name
        /\ want[d].name \in Literal => accounts[want[d].name] = Hash(want[d].pw)

\* The shared database connection is lost only after a client died while its
\* request code was outstanding (284-287, 62-67): no request of a live client,
\* whatever its outcome, takes the database away from the others.
DatabaseOutlivesRequests ==
    ~dbUp => \E c \in gone : cpc[c] = "exited" /\ svc[c] = -1

\* The sessions a user would speak of: the credentials typed by a client that
\* holds a token.
SessionOf(d) == IF token[d] = None THEN None ELSE [name |-> want[d].name, pw |-> want[d].pw]

Auth == INSTANCE AuthService WITH
            Digest <- Hash, InitialAccounts <- Registered,
            session <- [d \in Clients |-> SessionOf(d)]

\* The processes, streams and replies together implement the abstract service:
\* no account is ever overwritten and every token for a literal name is granted
\* on credentials the accounts vouch for (login_user 345-499, signup_user 624-697).
\* Two logins and a signup together do not, since one may read the other's row
\* (LookupSwap).
ImplementsAuth == Auth!Spec

----------------------------------------------------------------------------
(* Liveness, under the fairness above.                                     *)

Alone(d) == \A e \in Clients \ {d} : pc[e] = "start"

\* An INSERT is a prepared statement, which takes any name as it is.
Answerable(d) == want[d].svc = 1 \/ want[d].name \in Literal

\* The first request of a client comes back to the services loop, whichever of
\* bind, handshake and arrival time goes wrong (client.cxx:90-113), as long as
\* no other client starts: a second one can take its port or its reply.  Not
\* the login of a name that is not literal: the query may be an error (426-429),
\* the child dies of it, and the parent keeps the client's connection open.
FirstRequestReturns ==
    \A d \in Clients :
        (requests[d] = 1 /\ pc[d] # "idle" /\ Alone(d) /\ Answerable(d))
            ~> (pc[d] = "idle" \/ ~Alone(d))

\* A child whose tunnel leads to its own client finishes its request and
\* exits, whatever the other processes do with ports and replies.
PairedSessionEnds ==
    \A c \in Clients : (cpc[c] \in {"uname", "password"} /\ peer[c] = c) ~> (cpc[c] = "exited")

============================================================================
