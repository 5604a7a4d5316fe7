---------------------------- MODULE ChatSession ----------------------------
(***************************************************************************)
(* The chat session: one process that accepts connections and relays what  *)
(* one client sends to the others, driven by select over a descriptor set. *)
(*                                                                         *)
(* The loop copies client_set to temp_set, lets select overwrite           *)
(* client_set with the descriptors that are ready, and then visits every   *)
(* descriptor of the copy.  So a visit may block in accept or recv on a    *)
(* descriptor that is not ready, and a descriptor that was not ready is    *)
(* not in the set the next select watches.                                 *)
(***************************************************************************)
EXTENDS Integers, Sequences, FiniteSets, FiniteSetsExt

CONSTANTS
    Clients,      \* chat client processes
    None,         \* the owner of a descriptor that is no connection
    Listener,     \* conn_socket, the lowest descriptor that was free
    MaxFd,        \* the highest descriptor the process may open
    MaxClients,   \* MAXCLIENTS, the backlog given to listen
    MaxMessages,  \* bound: messages a client sends
    Leftover,     \* bits the uninitialised client_set may hold before the loop
    WordBits,     \* bits of a long: select reads and writes whole words
    Faults        \* BOOLEAN: select and accept may fail for want of memory

Fds    == 0..MaxFd         \* below FD_SETSIZE
Stdout == 1                \* of standard input, output and error, 0..2

ASSUME SessionAssumption ==
    /\ None \notin Clients
    /\ Listener \in Nat /\ MaxFd \in Nat /\ 2 < Listener /\ Listener <= MaxFd
    /\ MaxClients \in Nat \ {0} /\ MaxMessages \in Nat
    /\ Leftover \subseteq Nat /\ WordBits \in Nat \ {0}
    /\ Faults \in BOOLEAN

Bits == Fds \cup Leftover  \* what the two sets may hold

VARIABLES
    pc,           \* select, scan, stopped (the loop returned) or killed
    client_set, temp_set, max_fd,
    pos,          \* the loop's index i
    owner,        \* per descriptor: the client connected to it, or None
    open,         \* descriptors the process has open
    backlog,      \* connections waiting to be accepted
    inbox,        \* per client: what it sent and the session has not read
    outbox,       \* per client: what the session sent it
    sent,         \* per client: how many messages it sent
    closed,       \* clients that closed their connection
    reset         \* clients whose connection answered a send with a reset

setVars    == <<client_set, temp_set, max_fd>>
descVars   == <<owner, open>>
streamVars == <<inbox, outbox, reset>>
clientVars == <<sent, closed>>
vars == <<pc, pos, setVars, descVars, backlog, streamVars, clientVars>>

Messages == [from : Clients, n : 1..MaxMessages]

TypeOK ==
    /\ pc \in {"select", "scan", "stopped", "killed"}
    /\ client_set \subseteq Bits /\ temp_set \subseteq Bits /\ open \subseteq Fds
    /\ max_fd \in Fds /\ pos \in 0..(MaxFd + 1)
    /\ owner \in [Fds -> Clients \cup {None}]
    /\ backlog \in Seq(Clients)
    /\ inbox \in [Clients -> Seq(Messages)] /\ outbox \in [Clients -> Seq(Messages)]
    /\ sent \in [Clients -> 0..MaxMessages]
    /\ closed \subseteq Clients /\ reset \subseteq closed

\* The constructor leaves client_set as it is, and enter_main_loop adds to it.
\* The descriptors below the listener are those the program was started with.
Init ==
    /\ pc = "select" /\ pos = 0
    /\ \E bits \in SUBSET Leftover : client_set = {Listener} \cup bits
    /\ temp_set = {} /\ max_fd = Listener
    /\ owner = [f \in Fds |-> None] /\ open = 0..Listener
    /\ backlog = <<>>
    /\ inbox = [c \in Clients |-> <<>>] /\ outbox = [c \in Clients |-> <<>>]
    /\ sent = [c \in Clients |-> 0]
    /\ closed = {} /\ reset = {}

Accepted == {owner[f] : f \in open} \ {None}
Queued   == {backlog[i] : i \in DOMAIN backlog}

----------------------------------------------------------------------------
(* The clients: connect, send, close.                                      *)

Connect(c) ==
    /\ c \notin Queued \cup closed
    /\ \A f \in Fds : owner[f] # c
    /\ Len(backlog) < MaxClients
    /\ backlog' = Append(backlog, c)
    /\ UNCHANGED <<pc, pos, setVars, descVars, streamVars, clientVars>>

Send(c) ==
    /\ c \in (Queued \cup Accepted) \ closed
    /\ sent[c] < MaxMessages
    /\ sent' = [sent EXCEPT ![c] = @ + 1]
    /\ inbox' = [inbox EXCEPT ![c] = Append(@, [from |-> c, n |-> sent[c] + 1])]
    /\ UNCHANGED <<pc, pos, setVars, descVars, backlog, outbox, reset, closed>>

Close(c) ==
    /\ c \in (Queued \cup Accepted) \ closed
    /\ closed' = closed \cup {c}
    /\ UNCHANGED <<pc, pos, setVars, descVars, backlog, streamVars, sent>>

----------------------------------------------------------------------------
(* The loop.                                                               *)

\* The next descriptor of the copy that the loop visits, if there is one.
ToVisit == {f \in temp_set : pos <= f /\ f <= max_fd}
Current == Min(ToVisit)

\* Open descriptors that are no sockets: the terminal, or whatever stands for it.
Terminal == {f \in open : f # Listener /\ owner[f] = None}

Ready(f) ==
    \/ f = Listener /\ backlog # <<>>
    \/ owner[f] # None /\ (inbox[owner[f]] # <<>> \/ owner[f] \in closed)

\* select looks at the descriptors up to max_fd,
Watched == {f \in client_set : f <= max_fd}

\* and leaves the bits of later words alone.
Untouched == {b \in client_set : \E w \in 1..b : max_fd < w * WordBits /\ w * WordBits <= b}

\* What select may write to client_set: who is ready, the terminal at any time.
Selections ==
    {s \in {{f \in Watched : Ready(f)} \cup typed : typed \in SUBSET (Watched \cap Terminal)} :
        s # {}}

\* The variant that copies the set after select instead of before.
SelectThenCopy ==
    /\ pc = "select"
    /\ Watched \subseteq open
    /\ \E s \in Selections : client_set' = s \cup Untouched
    /\ temp_set' = client_set'
    /\ pc' = "scan" /\ pos' = 0
    /\ UNCHANGED <<max_fd, descVars, backlog, streamVars, clientVars>>

\* The variant that adds to the copy instead of overwriting it.
SelectKeepsCopy ==
    /\ pc = "select"
    /\ Watched \subseteq open
    /\ temp_set' = (temp_set \cup client_set) \cap open
    /\ \E s \in Selections : client_set' = s \cup Untouched
    /\ pc' = "scan" /\ pos' = 0
    /\ UNCHANGED <<max_fd, descVars, backlog, streamVars, clientVars>>

Select ==
    /\ pc = "select"
    /\ Watched \subseteq open
    /\ temp_set' = client_set
    /\ \E s \in Selections : client_set' = s \cup Untouched
    /\ pc' = "scan" /\ pos' = 0
    /\ UNCHANGED <<max_fd, descVars, backlog, streamVars, clientVars>>

\* Errors are printed to logfile, which the two-argument constructor never
\* opened: the process goes on, or dies of it.
LogError(s) == pc' \in {s, "killed"}

\* EBADF, a watched descriptor that is not open, or a failure of the system:
\* the loop returns and the program ends.
SelectFails ==
    /\ pc = "select"
    /\ Faults \/ ~(Watched \subseteq open)
    /\ LogError("stopped")
    /\ UNCHANGED <<pos, setVars, descVars, backlog, streamVars, clientVars>>

EndScan ==
    /\ pc = "scan"
    /\ ToVisit = {}
    /\ pc' = "select"
    /\ UNCHANGED <<pos, setVars, descVars, backlog, streamVars, clientVars>>

\* The clients in s are sent to.  One that closed answers the first send with a
\* reset, now or later; the next send to it raises SIGPIPE, see Deadly.
Resets(s) ==
    \E late \in SUBSET (s \cap closed) : reset' = reset \cup ((s \cap closed) \ late)

\* A connection may have become the standard output of the process, which is
\* then told of every new one, unless that stream has failed before.
TellStdout ==
    LET told == {owner'[f] : f \in open' \cap {Stdout}} \cap Clients
    IN  \/ UNCHANGED <<pc, reset>>
        \/ Resets(told) /\ pc' = IF told \cap reset = {} THEN "scan" ELSE "killed"

\* accept waits for a connection and returns the lowest descriptor not in use.
HandleAccept ==
    /\ pc = "scan" /\ ToVisit # {} /\ Current = Listener
    /\ backlog # <<>>
    /\ Fds \ open # {}
    /\ LET fd == Min(Fds \ open)
       IN  /\ owner' = [owner EXCEPT ![fd] = Head(backlog)]
           /\ open' = open \cup {fd}
           /\ client_set' = client_set \cup {fd}
           /\ max_fd' = Max({fd, max_fd})
    /\ backlog' = Tail(backlog)
    /\ pos' = Listener + 1
    /\ TellStdout
    /\ UNCHANGED <<temp_set, inbox, outbox, clientVars>>

\* The variant that puts accept's -1 in the set.
AcceptFailsUnchecked ==
    /\ pc = "scan" /\ ToVisit # {} /\ Current = Listener
    /\ Faults \/ Fds \ open = {}
    /\ client_set' = client_set \cup {-1}
    /\ pos' = Listener + 1
    /\ UNCHANGED <<pc, temp_set, max_fd, descVars, backlog, streamVars, clientVars>>

\* EMFILE or ENOMEM: the connection stays where it is.
AcceptFails ==
    /\ pc = "scan" /\ ToVisit # {} /\ Current = Listener
    /\ Faults \/ Fds \ open = {}
    /\ LogError("scan")
    /\ pos' = Listener + 1
    /\ UNCHANGED <<setVars, descVars, backlog, streamVars, clientVars>>

\* The variant that also forgets to take the descriptor out of the set.
CloseKeepsBit(fd) ==
    /\ open' = open \ {fd}
    /\ owner' = [owner EXCEPT ![fd] = None]
    /\ UNCHANGED client_set

CloseConnection(fd) ==
    /\ open' = open \ {fd}
    /\ owner' = [owner EXCEPT ![fd] = None]
    /\ client_set' = client_set \ {fd}

\* recv returns 0, or -1 on a connection that was reset, whose unread data the
\* system may have thrown away.
HandleDisconnect ==
    /\ pc = "scan" /\ ToVisit # {} /\ Current # Listener
    /\ owner[Current] # None
    /\ owner[Current] \in closed
    /\ inbox[owner[Current]] = <<>> \/ owner[Current] \in reset
    /\ CloseConnection(Current)
    /\ pos' = Current + 1
    /\ UNCHANGED <<pc, temp_set, max_fd, backlog, streamVars, clientVars>>

\* recv fails on what is no socket, and the descriptor is closed all the same.
HandleTerminal ==
    /\ pc = "scan" /\ ToVisit # {} /\ Current \in Terminal
    /\ CloseConnection(Current)
    /\ pos' = Current + 1
    /\ UNCHANGED <<pc, temp_set, max_fd, backlog, streamVars, clientVars>>

\* The relay loop stops below max_fd.
RelayToAllSet(fd) == {f \in client_set : f < max_fd /\ f # Listener}
RelayTo(fd) == {f \in client_set : f < max_fd /\ f # Listener /\ f # fd}

\* SIGPIPE ends the process before the higher descriptors.
Deadly(fd) == {f \in RelayTo(fd) : owner[f] \in reset}

Reached(fd) ==
    {owner[f] : f \in {g \in RelayTo(fd) : \A k \in Deadly(fd) : g < k}}

HandleRecv ==
    /\ pc = "scan" /\ ToVisit # {} /\ Current # Listener
    /\ owner[Current] # None
    /\ LET c == owner[Current]
       IN  /\ inbox[c] # <<>>
           /\ outbox' = [d \in Clients |-> IF d \in Reached(Current) \ closed
                                             THEN outbox[d] \o inbox[c] ELSE outbox[d]]
           /\ inbox' = [inbox EXCEPT ![c] = <<>>]
    /\ Resets(Reached(Current))
    /\ pc' = IF Deadly(Current) = {} THEN "scan" ELSE "killed"
    /\ pos' = Current + 1
    /\ UNCHANGED <<setVars, descVars, backlog, clientVars>>

----------------------------------------------------------------------------

SessionStep == Select \/ SelectFails \/ EndScan \/ HandleAccept \/ AcceptFails
               \/ HandleDisconnect \/ HandleTerminal \/ HandleRecv

Next == SessionStep \/ \E c \in Clients : Connect(c) \/ Send(c) \/ Close(c)

Spec == Init /\ [][Next]_vars

\* The process runs whenever no call blocks it; clients do as they please.
FairSpec == Spec /\ WF_vars(SessionStep)

----------------------------------------------------------------------------

\* Whatever bits client_set held at first, every descriptor that select will
\* look at, or that the rest of the scan will visit, is open: select never sees
\* EBADF, no visit reads a descriptor closed since the copy was taken, and each
\* connection is at one descriptor (Session.cxx:134-150).  Among them may be the
\* standard input, which the first visit closes, so that a client comes in its place.
DescriptorsLive ==
    /\ Watched \subseteq open
    /\ pc = "scan" => ToVisit \subseteq open
    /\ \A f, g \in open : owner[f] = owner[g] /\ owner[f] # None => f = g

\* What reaches a client is, per sender, in the order it was sent, never twice
\* and never its own (204-211), whatever the loop drops on the way.
RelayedInOrder ==
    \A c \in Clients : \A i, j \in DOMAIN outbox[c] :
        /\ outbox[c][i].from # c
        /\ i < j /\ outbox[c][i].from = outbox[c][j].from => outbox[c][i].n < outbox[c][j].n

Dropped(f) == f \in open /\ f \notin client_set /\ (pc = "select" \/ f \notin ToVisit)

\* A descriptor the loop stopped watching is never watched, read, closed or
\* given to another client again (134-150): the session cannot recover from
\* what select took out of its set.
DroppedForever == [][\A f \in Fds : Dropped(f) => Dropped(f)']_vars

\* The first client and the second are accepted, whatever the first one does:
\* with set cleared first, no visit blocks before the second accept (140-146,
\* 164-175).  max_fd says how many were: no descriptor is freed before that.
FirstTwoAccepted ==
    \A k \in 0..1 :
        (backlog # <<>> /\ max_fd = Listener + k) ~> (max_fd > Listener + k)

============================================================================
