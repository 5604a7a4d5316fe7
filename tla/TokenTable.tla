----------------------------- MODULE TokenTable -----------------------------
(***************************************************************************)
(* The token tables of the chat server and of the match maker: users with  *)
(* the token the login server sent for them, and a queue of expiries.      *)
(*                                                                         *)
(* update alternates between receive_new, which reads datagrams until      *)
(* recvfrom fails, and scrub_list, which drops what has expired.  The      *)
(* buffer is cleared and read with strlen, which is 0 after the clearing,  *)
(* so that recvfrom takes a datagram and stores none of its bytes: the     *)
(* token is empty, and the name is read from a stack nobody wrote.         *)
(*                                                                         *)
(* Times are kept as the time that is left, so that the clock needs no     *)
(* bound: an entry has expired when less than nothing is left.  The clock  *)
(* never goes back here; gettimeofday's does when somebody sets it.        *)
(***************************************************************************)
EXTENDS Integers, Sequences, SequencesExt

CONSTANTS
    Servers,      \* the programs that keep a table
    Made,         \* those whose constructor makes the table and the queue
    Reaches,      \* those that datagrams of the login server reach
    Names,        \* user names, and what the stack may hold in place of one
    Tokens,       \* tokens
    EmptyToken,   \* the token of an empty buffer
    None,         \* no token
    TokenLife,    \* 300 s
    MaxExpiry,    \* bound: entries of a queue of expiries
    Faults        \* BOOLEAN: recvfrom and sendto may fail

ASSUME TableAssumption ==
    /\ {"chat", "match"} \subseteq Servers
    /\ Made \subseteq Servers /\ Reaches \subseteq Servers
    /\ EmptyToken \notin Tokens /\ None \notin Tokens \cup {EmptyToken}
    /\ TokenLife \in Nat /\ MaxExpiry \in Nat
    /\ Faults \in BOOLEAN

VARIABLES
    pc,             \* per server: receive, scrub or undefined
    connected,      \* servers whose socket was set up
    current_users,  \* per server: name -> token, or None
    expiry,         \* per server: names with the time left to their expiry
    net             \* per server: datagrams of the login server on their way

tableVars == <<pc, connected, current_users, expiry>>

Datagrams == [token : Tokens, name : Names]
Expiries  == [name : Names, left : -1..TokenLife]

TableTypeOK ==
    /\ pc \in [Servers -> {"receive", "scrub", "undefined"}]
    /\ connected \subseteq Servers
    /\ current_users \in [Servers -> [Names -> Tokens \cup {EmptyToken, None}]]
    /\ expiry \in [Servers -> Seq(Expiries)]
    /\ net \in [Servers -> SUBSET Datagrams]

TableInit ==
    /\ pc = [s \in Servers |-> "receive"]
    /\ connected \in SUBSET Servers
    /\ current_users = [s \in Servers |-> [n \in Names |-> None]]
    /\ expiry = [s \in Servers |-> <<>>]
    /\ net = [s \in Servers |-> {}]

----------------------------------------------------------------------------
(* receive_new.                                                            *)

\* What may be read from the buffers after recvfrom(..., strlen(buffer), ...).
Buffer == [token : {EmptyToken}, name : Names]

\* The variant that puts the newest expiry in front.
QueueInFront(n, queue) == <<[name |-> n, left |-> TokenLife]>> \o queue

QueueExpiry(n, queue) == Append(queue, [name |-> n, left |-> TokenLife])

\* The network may deliver a datagram again and in any order, or never.
\* insert leaves a user who is in the map alone; the expiry is queued anyway.
ReceiveToken(s) ==
    /\ pc[s] = "receive" /\ s \in connected \cap Reaches
    /\ \E d \in net[s] : \E kept \in {net[s], net[s] \ {d}} :
         \E read \in Buffer :
             /\ net' = [net EXCEPT ![s] = kept]
             /\ IF s \notin Made
                  THEN /\ pc' = [pc EXCEPT ![s] = "undefined"]
                       /\ UNCHANGED <<current_users, expiry>>
                  ELSE /\ Len(expiry[s]) < MaxExpiry
                       /\ current_users' =
                            [current_users EXCEPT ![s][read.name] =
                               IF @ = None THEN read.token ELSE @]
                       /\ expiry' = [expiry EXCEPT ![s] = QueueExpiry(read.name, @)]
                       /\ UNCHANGED pc
    /\ UNCHANGED connected

\* recvfrom is interrupted, or the socket was never set up.
ReceiveFails(s) ==
    /\ pc[s] = "receive"
    /\ Faults \/ s \notin connected
    /\ pc' = [pc EXCEPT ![s] = "scrub"]
    /\ UNCHANGED <<connected, current_users, expiry, net>>

----------------------------------------------------------------------------
(* scrub_list.                                                             *)

Expired(entry) == entry.left < 0

\* The entries the loop pops: those before the first one that has not expired.
PoppedCount(queue) ==
    LET live == {i \in DOMAIN queue : ~Expired(queue[i])}
    IN  IF live = {} THEN Len(queue) ELSE Min(live) - 1

\* The variant that pops an entry and keeps the user.
EraseNone(s, popped) == current_users[s]

Erase(s, popped) ==
    [n \in Names |-> IF \E i \in DOMAIN popped : popped[i].name = n
                       THEN None ELSE current_users[s][n]]

\* front() of an empty queue is undefined: the loop may end there, or not.
Scrub(s) ==
    /\ pc[s] = "scrub"
    /\ IF s \notin Made
         THEN /\ pc' = [pc EXCEPT ![s] = "undefined"]
              /\ UNCHANGED <<current_users, expiry>>
         ELSE LET k == PoppedCount(expiry[s])
                  rest == SubSeq(expiry[s], k + 1, Len(expiry[s]))
              IN  /\ expiry' = [expiry EXCEPT ![s] = rest]
                  /\ current_users' =
                       [current_users EXCEPT ![s] = Erase(s, SubSeq(expiry[s], 1, k))]
                  /\ \E next \in {"receive"} \cup (IF rest = <<>> THEN {"undefined"} ELSE {}) :
                       pc' = [pc EXCEPT ![s] = next]
    /\ UNCHANGED <<connected, net>>

----------------------------------------------------------------------------
(* The two programs.  The match maker's constructor makes no table.        *)

ChatServer_receive_new == ReceiveToken("chat") \/ ReceiveFails("chat")
ChatServer_scrub_list  == Scrub("chat")
MatchMaker_receive_new == ReceiveToken("match") \/ ReceiveFails("match")
MatchMaker_scrub_list  == Scrub("match")

ChatServer_update == ChatServer_receive_new \/ ChatServer_scrub_list
MatchMaker_update == MatchMaker_receive_new \/ MatchMaker_scrub_list

\* Time passes for every entry.
AgeExpiries ==
    expiry' = [s \in Servers |->
                 [i \in DOMAIN expiry[s] |->
                    [expiry[s][i] EXCEPT !.left = IF @ < 0 THEN @ ELSE @ - 1]]]

=============================================================================
