---------------------------- MODULE AuthHandoff ----------------------------
(***************************************************************************)
(* How the login server hands a token over: chat_server_auth and           *)
(* match_server_auth send it by UDP, look for an answer without waiting,   *)
(* and send it again every AckWait, up to MaxTries times.                  *)
(*                                                                         *)
(* Neither receiver ever answers.  The two sockets belong to all children, *)
(* take datagrams from anybody, and any will do for an answer, one that is *)
(* late or meant for another child too: so there may be one whenever a     *)
(* child looks, or none.  (An empty one counts as none and changes the     *)
(* address that the child sends to; nobody sends such.)  Nothing in the    *)
(* repository calls the two functions: a child calls either of them, once, *)
(* when it likes.                                                          *)
(***************************************************************************)
EXTENDS TokenTable

CONSTANTS
    Children,     \* forked login processes
    token,        \* per child: the token of its client
    user,         \* per child: the user name of its client
    MaxTries,     \* 10
    AckWait       \* 500 ms

ASSUME HandoffAssumption ==
    /\ token \in [Children -> Tokens] /\ user \in [Children -> Names]
    /\ MaxTries \in Nat /\ AckWait \in Nat

VARIABLES
    call,      \* per child: idle, look, time, true or false
    server,    \* per child: whom it called, or None
    tries,     \* per child
    elapsed    \* per child: time since t0

callVars   == <<call, server, tries, elapsed>>
vars == <<tableVars, net, callVars>>

\* The call returns, and its local variables are gone.
Return(c, result) ==
    /\ call' = [call EXCEPT ![c] = result]
    /\ server' = [server EXCEPT ![c] = None]
    /\ tries' = [tries EXCEPT ![c] = 0] /\ elapsed' = [elapsed EXCEPT ![c] = 0]

Waiting(c) == call[c] \in {"look", "time"}

TypeOK ==
    /\ TableTypeOK
    /\ call \in [Children -> {"idle", "look", "time", "true", "false"}]
    /\ server \in [Children -> Servers \cup {None}]
    /\ tries \in [Children -> 0..MaxTries]
    /\ elapsed \in [Children -> 0..(AckWait + 1)]

Init ==
    /\ TableInit
    /\ call = [c \in Children |-> "idle"] /\ server = [c \in Children |-> None]
    /\ tries = [c \in Children |-> 0] /\ elapsed = [c \in Children |-> 0]

----------------------------------------------------------------------------

Message(c) == [token |-> token[c], name |-> user[c]]

SendAuth(c, s) ==
    /\ call[c] = "idle"
    /\ \/ /\ net' = [net EXCEPT ![s] = @ \cup {Message(c)}]
          /\ call' = [call EXCEPT ![c] = "look"]
          /\ server' = [server EXCEPT ![c] = s]
          /\ UNCHANGED <<tries, elapsed>>
       \/ /\ Faults
          /\ Return(c, "false")
          /\ UNCHANGED net
    /\ UNCHANGED tableVars

\* recvfrom returns more than 0: any datagram will do.
TakeAnswer(c) ==
    /\ call[c] = "look"
    /\ Return(c, "true")
    /\ UNCHANGED <<tableVars, net>>

\* What arrives after this is seen in the next round, if there is one.
NoAnswer(c) ==
    /\ call[c] = "look"
    /\ call' = [call EXCEPT ![c] = "time"]
    /\ UNCHANGED <<tableVars, net, server, tries, elapsed>>

KeepWaiting(c) ==
    /\ call[c] = "time" /\ elapsed[c] <= AckWait
    /\ call' = [call EXCEPT ![c] = "look"]
    /\ UNCHANGED <<tableVars, net, server, tries, elapsed>>

\* The variant that compares before it counts.
ResendOnceMore(c) ==
    /\ call[c] = "time" /\ elapsed[c] > AckWait
    /\ net' = [net EXCEPT ![server[c]] = @ \cup {Message(c)}]
    /\ IF tries[c] <= MaxTries
         THEN /\ call' = [call EXCEPT ![c] = "look"]
              /\ tries' = [tries EXCEPT ![c] = @ + 1]
              /\ elapsed' = [elapsed EXCEPT ![c] = 0]
              /\ UNCHANGED server
         ELSE Return(c, "false")
    /\ UNCHANGED tableVars

\* The variant that does not count the copies it sends.
ResendUncounted(c) ==
    /\ call[c] = "time" /\ elapsed[c] > AckWait
    /\ net' = [net EXCEPT ![server[c]] = @ \cup {Message(c)}]
    /\ call' = [call EXCEPT ![c] = "look"]
    /\ elapsed' = [elapsed EXCEPT ![c] = 0]
    /\ UNCHANGED <<tableVars, server, tries>>

\* The token is sent once more, even when no try is left to wait for.
Resend(c) ==
    /\ call[c] = "time" /\ elapsed[c] > AckWait
    /\ net' = [net EXCEPT ![server[c]] = @ \cup {Message(c)}]
    /\ IF tries[c] < MaxTries
         THEN /\ call' = [call EXCEPT ![c] = "look"]
              /\ tries' = [tries EXCEPT ![c] = @ + 1]
              /\ elapsed' = [elapsed EXCEPT ![c] = 0]
              /\ UNCHANGED server
         ELSE Return(c, "false")
    /\ UNCHANGED tableVars

ResendFails(c) ==
    /\ Faults
    /\ call[c] = "time" /\ elapsed[c] > AckWait
    /\ Return(c, "false")
    /\ UNCHANGED <<tableVars, net>>

Handoff(c) == TakeAnswer(c) \/ NoAnswer(c) \/ KeepWaiting(c)
                 \/ Resend(c) \/ ResendFails(c)

chat_server_auth(c)  == SendAuth(c, "chat") \/ (server[c] = "chat" /\ Handoff(c))
match_server_auth(c) == SendAuth(c, "match") \/ (server[c] = "match" /\ Handoff(c))

----------------------------------------------------------------------------

Tick ==
    /\ AgeExpiries
    /\ elapsed' = [c \in Children |-> IF Waiting(c) /\ elapsed[c] <= AckWait
                                        THEN elapsed[c] + 1 ELSE elapsed[c]]
    /\ UNCHANGED <<pc, connected, current_users, net, call, server, tries>>

TableStep == (ChatServer_update \/ MatchMaker_update) /\ UNCHANGED callVars

Next ==
    \/ TableStep
    \/ \E c \in Children : chat_server_auth(c) \/ match_server_auth(c)
    \/ Tick

Spec == Init /\ [][Next]_vars

\* Every child runs whenever it can, and time goes on.
FairSpec ==
    /\ Spec /\ WF_vars(Tick)
    /\ \A c \in Children : WF_vars(Handoff(c))

----------------------------------------------------------------------------

\* Nobody is in the table without an expiry queued: an entry of the queue bears the
\* user's name, although insert and push_back disagree on a user who is there already
\* (ChatServer.cxx:93-101), and although an earlier entry of the same user drops the
\* user and leaves the later one in the queue (63-65).  That the entry is ever looked
\* at is not said: receive_new blocks, and scrub_list may never be reached.
UsersQueued ==
    \A s \in Servers : pc[s] # "undefined" =>
        \A n \in Names : current_users[s][n] # None =>
            \E i \in DOMAIN expiry[s] : expiry[s][i].name = n

\* scrub_list stops at the first entry that has not expired (61): even so, who
\* is left in the table afterwards was heard of within TokenLife.
FreshAfterScrub ==
    [][\A s \in Servers : pc[s] = "scrub" /\ pc'[s] = "receive" =>
         \A n \in Names : current_users'[s][n] # None =>
             \E i \in DOMAIN expiry'[s] :
                 expiry'[s][i].name = n /\ ~Expired(expiry'[s][i])]_vars

\* A call comes back (LoginServer.cxx:525-555), whether or not somebody answers
\* and whichever child takes the answer.
HandoffEnds ==
    \A c \in Children : Waiting(c) ~> call[c] \in {"true", "false"}

----------------------------------------------------------------------------
(* What a comment says and the code does not do.                           *)

\* "Record token" (ChatServer.cxx:86, MatchMaker.cxx:66): who is in the table is
\* there with the token that was sent.
TokensRecorded ==
    \A s \in Servers : \A n \in Names : current_users[s][n] # EmptyToken

=============================================================================
