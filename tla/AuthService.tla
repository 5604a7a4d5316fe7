---------------------------- MODULE AuthService ----------------------------
(***************************************************************************)
(* What the login server promises, without processes, ports, streams or a  *)
(* database connection: an account, once created, never changes; a client  *)
(* is given a session only for credentials the accounts vouch for, as      *)
(* long as its name is a literal one: of other names nothing is promised.  *)
(***************************************************************************)
CONSTANTS Clients, Strings, None, Literal, Digest(_), InitialAccounts

Digests     == {Digest(s) : s \in Strings}
Credentials == [name : Strings, pw : Strings]

VARIABLES accounts, session

Init ==
    /\ accounts = InitialAccounts
    /\ session = [d \in Clients |-> None]

Vouched(cr) == cr.name \in Literal => accounts[cr.name] = Digest(cr.pw)

Register(n) ==
    /\ accounts[n] = None
    /\ \E h \in Digests : accounts' = [accounts EXCEPT ![n] = h]
    /\ UNCHANGED session

Grant(d) ==
    /\ session[d] = None
    /\ \E cr \in Credentials : Vouched(cr) /\ session' = [session EXCEPT ![d] = cr]
    /\ UNCHANGED accounts

Leave(d) ==
    /\ session[d] # None
    /\ session' = [session EXCEPT ![d] = None]
    /\ UNCHANGED accounts

Next == (\E n \in Strings : Register(n)) \/ (\E d \in Clients : Grant(d) \/ Leave(d))

Spec == Init /\ [][Next]_<<accounts, session>>

============================================================================
