----------------------------- MODULE ChatProofs -----------------------------
(***************************************************************************)
(* The chat session, for any set of clients, any highest descriptor, any   *)
(* bits left in client_set, any width of a word and any number of          *)
(* messages: the types, and that the loop only uses live descriptors.      *)
(*                                                                         *)
(* DescriptorsLive is not inductive: that accept gives a descriptor to a   *)
(* client that has none rests on QueueInv, a queued connection is queued   *)
(* once and has no descriptor yet.                                         *)
(***************************************************************************)
EXTENDS ChatSession, WellFoundedInduction, SequenceTheorems, TLAPS

----------------------------------------------------------------------------
(* Min and Max.                                                            *)

\* A nonempty set of naturals has a least element, and Min is it.
LEMMA MinIsLeast ==
    ASSUME NEW S, S \subseteq Nat, S # {}
    PROVE  Min(S) \in S /\ \A y \in S : Min(S) <= y
<1>1. PICK x \in S : \A y \in S : ~ (<<y, x>> \in OpToRel(<, Nat))
  BY NatLessThanWellFounded, WFMin
<1>2. \A y, z \in Nat : y < z => <<y, z>> \in OpToRel(<, Nat)
  <2>1. OpToRel(<, Nat) = {ss \in Nat \X Nat : ss[1] < ss[2]}
    BY DEF OpToRel
  <2>2. \A y, z \in Nat : y < z => <<y, z>> \in {ss \in Nat \X Nat : ss[1] < ss[2]}
    OBVIOUS
  <2> QED BY <2>1, <2>2, Zenon
<1>3. \A y \in S : x <= y
  <2>1. \A y \in S : ~ (y < x)
    BY <1>1, <1>2, Zenon
  <2> QED BY <2>1
<1> QED BY <1>3 DEF Min

\* The larger of two.
LEMMA MaxOfTwo ==
    ASSUME NEW a \in Int, NEW b \in Int
    PROVE  Max({a, b}) = IF a >= b THEN a ELSE b
<1> DEFINE m == IF a >= b THEN a ELSE b
<1>1. m \in {a, b} /\ \A y \in {a, b} : m >= y OBVIOUS
<1>2. \A x \in {a, b} : (\A y \in {a, b} : x >= y) => x = m OBVIOUS
<1> QED BY <1>1, <1>2 DEF Max

\* What the type invariant says of the descriptors.
LEMMA DescriptorTypes ==
    ASSUME TypeOK
    PROVE  /\ Fds \subseteq Nat /\ Listener \in Fds
           /\ client_set \subseteq Nat /\ temp_set \subseteq Nat /\ open \subseteq Fds
           /\ max_fd \in Fds /\ pos \in Nat
           /\ owner \in [Fds -> Clients \cup {None}]
<1>1. Fds \subseteq Nat /\ Listener \in Fds /\ Leftover \subseteq Nat
  BY SessionAssumption DEF Fds
<1>2. pos \in Nat
  BY SessionAssumption DEF TypeOK
<1> QED BY <1>1, <1>2 DEF TypeOK, Bits

\* A bit up to max_fd is a descriptor the process may open.
LEMMA BitsBelow ==
    ASSUME TypeOK
    PROVE  ToVisit \subseteq Fds /\ Watched \subseteq Fds
<1>1. client_set \subseteq Nat /\ temp_set \subseteq Nat /\ max_fd \in 0..MaxFd /\ MaxFd \in Nat
  BY DescriptorTypes, SessionAssumption DEF Fds
<1>2. \A f \in Nat : f <= max_fd => f \in 0..MaxFd
  BY <1>1
<1> QED BY <1>1, <1>2 DEF Fds, ToVisit, Watched

\* What select leaves alone lies above max_fd.
LEMMA UntouchedAbove ==
    ASSUME TypeOK, NEW b \in Untouched
    PROVE  b \in client_set /\ ~ (b <= max_fd)
<1>1. b \in client_set /\ b \in Nat /\ max_fd \in Int /\ WordBits \in Int
  BY DescriptorTypes, SessionAssumption DEF Untouched
<1>2. PICK w \in 1..b : max_fd < w * WordBits /\ w * WordBits <= b
  BY DEF Untouched
<1>3. w * WordBits \in Int
  BY <1>1, <1>2
<1> QED BY <1>1, <1>2, <1>3

\* select watches nothing it did not watch before, and sets no bit.
LEMMA SelectShrinks ==
    ASSUME TypeOK, Select
    PROVE  Watched' \subseteq Watched /\ client_set' \subseteq client_set
<1>1. PICK s \in Selections : client_set' = s \cup Untouched
  BY DEF Select
<1>2. s \subseteq Watched
  <2>1. PICK typed \in SUBSET (Watched \cap Terminal) :
            s = {f \in Watched : Ready(f)} \cup typed
    BY DEF Selections
  <2> QED BY <2>1
<1>3. max_fd' = max_fd
  BY DEF Select
<1> QED BY <1>1, <1>2, <1>3, UntouchedAbove DEF Watched

\* The descriptor the loop visits is the least it has still to visit.
LEMMA CurrentIsLeast ==
    ASSUME TypeOK, ToVisit # {}
    PROVE  /\ Current \in ToVisit /\ Current \in Fds
           /\ \A f \in ToVisit : Current <= f
<1>1. ToVisit \subseteq Fds /\ Fds \subseteq Nat
  BY DescriptorTypes, BitsBelow
<1>2. Min(ToVisit) \in ToVisit /\ \A f \in ToVisit : Min(ToVisit) <= f
  BY <1>1, MinIsLeast
<1> QED BY <1>1, <1>2 DEF Current

\* A visit that changes neither the copy nor max_fd leaves fewer to visit.
LEMMA VisitShrinks ==
    ASSUME TypeOK, ToVisit # {}, temp_set' = temp_set, max_fd' = max_fd, pos' = Current + 1
    PROVE  ToVisit' \subseteq ToVisit \ {Current}
<1> SUFFICES ASSUME NEW f \in ToVisit' PROVE f \in ToVisit /\ f # Current
  OBVIOUS
<1>1. f \in temp_set /\ Current + 1 <= f /\ f <= max_fd
  BY DEF ToVisit
<1>2. f \in Nat /\ Current \in Nat /\ pos \in Nat /\ pos <= Current
  BY <1>1, DescriptorTypes, CurrentIsLeast DEF ToVisit
<1> QED BY <1>1, <1>2 DEF ToVisit

\* accept gives the least descriptor that is free.
LEMMA FreeIsLeast ==
    ASSUME Fds \ open # {}
    PROVE  /\ Min(Fds \ open) \in Fds \ open
           /\ \A f \in Fds : f < Min(Fds \ open) => f \in open
<1>1. Fds \ open \subseteq Nat /\ Fds \subseteq Nat
  BY SessionAssumption DEF Fds
<1>2. Min(Fds \ open) \in Fds \ open /\ \A y \in Fds \ open : Min(Fds \ open) <= y
  BY <1>1, MinIsLeast
<1> QED BY <1>1, <1>2

----------------------------------------------------------------------------
(* Types.                                                                  *)

\* The initial state is typed.
LEMMA InitTypes == Init => TypeOK
<1> SUFFICES ASSUME Init PROVE TypeOK OBVIOUS
<1>1. Listener \in Fds /\ Fds \subseteq Nat /\ MaxFd \in Nat
  BY SessionAssumption DEF Fds
<1>2. client_set \subseteq Bits
  BY <1>1 DEF Init, Bits
<1>3. <<>> \in Seq(Clients) /\ <<>> \in Seq(Messages)
  OBVIOUS
<1>4. 0 \in 0..MaxMessages /\ 0 \in 0..(MaxFd + 1)
  BY SessionAssumption
<1>5. 0..Listener \subseteq Fds
  BY SessionAssumption DEF Fds
<1> QED BY <1>1, <1>2, <1>3, <1>4, <1>5 DEF Init, TypeOK

\* Those who answer a send with a reset have closed.
LEMMA ResetTypes ==
    ASSUME TypeOK, NEW s, Resets(s) PROVE reset' \subseteq closed
BY DEF TypeOK, Resets

\* What the line on the standard output may do.
LEMMA TellTypes ==
    ASSUME TypeOK, pc = "scan", TellStdout
    PROVE  pc' \in {"scan", "killed"} /\ reset' \subseteq closed
<1> DEFINE told == {owner'[f] : f \in open' \cap {Stdout}} \cap Clients
<1>1. CASE UNCHANGED <<pc, reset>>
  BY <1>1 DEF TypeOK
<1>2. CASE Resets(told) /\ pc' = IF told \cap reset = {} THEN "scan" ELSE "killed"
  BY <1>2, ResetTypes
<1> QED BY <1>1, <1>2 DEF TellStdout

\* A descriptor closed in the scan keeps the types.
LEMMA CloseTypes ==
    ASSUME TypeOK, ToVisit # {}, CloseConnection(Current), pos' = Current + 1,
           UNCHANGED <<pc, temp_set, max_fd, backlog, streamVars, clientVars>>
    PROVE  TypeOK'
<1>1. Current \in Fds
  BY CurrentIsLeast
<1>2. pos' \in 0..(MaxFd + 1)
  BY <1>1, SessionAssumption DEF Fds
<1> QED BY <1>1, <1>2 DEF CloseConnection, TypeOK, streamVars, clientVars

\* A client's step keeps the types.
LEMMA ClientTypes ==
    ASSUME TypeOK, NEW c \in Clients, Connect(c) \/ Send(c) \/ Close(c)
    PROVE  TypeOK'
<1>1. CASE Connect(c)
  <2>1. backlog' \in Seq(Clients)
    BY <1>1 DEF TypeOK, Connect
  <2> QED BY <1>1, <2>1
        DEF TypeOK, Connect, setVars, descVars, streamVars, clientVars
<1>2. CASE Send(c)
  <2>1. sent[c] + 1 \in 1..MaxMessages
    BY <1>2, SessionAssumption DEF TypeOK, Send
  <2>2. [from |-> c, n |-> sent[c] + 1] \in Messages
    BY <2>1 DEF Messages
  <2>3. Append(inbox[c], [from |-> c, n |-> sent[c] + 1]) \in Seq(Messages)
    BY <2>2, AppendProperties DEF TypeOK
  <2>4. inbox' \in [Clients -> Seq(Messages)]
    BY <1>2, <2>3 DEF TypeOK, Send
  <2>5. sent' \in [Clients -> 0..MaxMessages]
    BY <1>2, <2>1, SessionAssumption DEF TypeOK, Send
  <2> QED BY <1>2, <2>4, <2>5 DEF TypeOK, Send, setVars, descVars
<1>3. CASE Close(c)
  BY <1>3 DEF TypeOK, Close, setVars, descVars, streamVars
<1> QED BY <1>1, <1>2, <1>3

\* The session's step keeps the types.
LEMMA SessionTypes == TypeOK /\ SessionStep => TypeOK'
<1> SUFFICES ASSUME TypeOK, SessionStep PROVE TypeOK' OBVIOUS
<1> USE SessionAssumption
<1>1. CASE Select
  <2>1. client_set' \subseteq Bits /\ temp_set' \subseteq Bits
    BY <1>1, SelectShrinks DEF TypeOK, Select
  <2>2. pos' \in 0..(MaxFd + 1)
    BY <1>1 DEF Select
  <2> QED BY <1>1, <2>1, <2>2 DEF TypeOK, Select, descVars, streamVars, clientVars
<1>2. CASE SelectFails \/ EndScan
  BY <1>2 DEF TypeOK, SelectFails, LogError, EndScan, setVars, descVars, streamVars, clientVars
<1>3. CASE HandleAccept
  <2> DEFINE fd == Min(Fds \ open)
  <2>1. fd \in Fds /\ Fds \subseteq Int
    BY <1>3, FreeIsLeast DEF HandleAccept, Fds
  <2>2. backlog' \in Seq(Clients) /\ Head(backlog) \in Clients
    BY <1>3, HeadTailProperties DEF HandleAccept, TypeOK
  <2>3. max_fd' \in Fds
    <3>1. fd \in Int /\ max_fd \in Int
      BY <2>1 DEF TypeOK
    <3>2. Max({fd, max_fd}) = IF fd >= max_fd THEN fd ELSE max_fd
      BY <3>1, MaxOfTwo
    <3> QED BY <1>3, <2>1, <3>2 DEF HandleAccept, TypeOK
  <2>4. owner' \in [Fds -> Clients \cup {None}]
    BY <1>3, <2>1, <2>2 DEF HandleAccept, TypeOK
  <2>5. pos' \in 0..(MaxFd + 1)
    BY <1>3 DEF HandleAccept
  <2>6. pc' \in {"scan", "killed"} /\ reset' \subseteq closed
    BY <1>3, TellTypes DEF HandleAccept
  <2>7. client_set' \subseteq Bits /\ open' \subseteq Fds
    BY <1>3, <2>1 DEF HandleAccept, TypeOK, Bits
  <2>8. UNCHANGED <<temp_set, inbox, outbox, sent, closed>>
    BY <1>3 DEF HandleAccept, clientVars
  <2> QED BY <2>2, <2>3, <2>4, <2>5, <2>6, <2>7, <2>8 DEF TypeOK
<1>4. CASE AcceptFails
  <2>1. pos' \in 0..(MaxFd + 1)
    BY <1>4 DEF AcceptFails
  <2> QED BY <1>4, <2>1
        DEF TypeOK, AcceptFails, LogError, setVars, descVars, streamVars, clientVars
<1>5. CASE HandleDisconnect
  BY <1>5, CloseTypes DEF HandleDisconnect
<1>6. CASE HandleTerminal
  BY <1>6, CloseTypes DEF HandleTerminal
<1>7. CASE HandleRecv
  <2>1. Current \in Fds /\ owner[Current] \in Clients
    BY <1>7, CurrentIsLeast DEF HandleRecv, TypeOK
  <2>2. pos' \in 0..(MaxFd + 1)
    BY <1>7, <2>1 DEF HandleRecv, Fds
  <2>3. outbox' \in [Clients -> Seq(Messages)]
    <3>1. \A d \in Clients : outbox[d] \o inbox[owner[Current]] \in Seq(Messages)
      BY <2>1, ConcatProperties DEF TypeOK
    <3> QED BY <1>7, <3>1 DEF HandleRecv, TypeOK
  <2>4. inbox' \in [Clients -> Seq(Messages)]
    <3>1. <<>> \in Seq(Messages) OBVIOUS
    <3> QED BY <1>7, <3>1 DEF HandleRecv, TypeOK
  <2>5. reset' \subseteq closed
    BY <1>7, ResetTypes DEF HandleRecv
  <2>6. pc' \in {"scan", "killed"}
    BY <1>7 DEF HandleRecv
  <2> QED BY <1>7, <2>2, <2>3, <2>4, <2>5, <2>6
        DEF HandleRecv, TypeOK, setVars, descVars, clientVars
<1> QED BY <1>1, <1>2, <1>3, <1>4, <1>5, <1>6, <1>7 DEF SessionStep

\* Every step keeps the types.
LEMMA StepTypes == TypeOK /\ [Next]_vars => TypeOK'
<1> SUFFICES ASSUME TypeOK, [Next]_vars PROVE TypeOK' OBVIOUS
<1>1. CASE SessionStep
  BY <1>1, SessionTypes
<1>2. CASE \E c \in Clients : Connect(c) \/ Send(c) \/ Close(c)
  BY <1>2, ClientTypes
<1>3. CASE UNCHANGED vars
  BY <1>3 DEF TypeOK, vars, setVars, descVars, streamVars, clientVars
<1> QED BY <1>1, <1>2, <1>3 DEF Next

\* The variables of the session and of the kernel always have their types.
THEOREM ChatTypeCorrect == Spec => []TypeOK
BY InitTypes, StepTypes, PTL DEF Spec

----------------------------------------------------------------------------
(* The descriptors.                                                        *)

\* A connection is queued once, and a queued one has no descriptor yet.
QueueInv ==
    /\ \A i, j \in DOMAIN backlog : backlog[i] = backlog[j] => i = j
    /\ \A f \in Fds : owner[f] \notin Queued

ChatInv == TypeOK /\ DescriptorsLive /\ QueueInv

\* The initial state satisfies the invariant.
LEMMA InitChatInv == Init => ChatInv
<1> SUFFICES ASSUME Init PROVE ChatInv OBVIOUS
<1>1. TypeOK
  BY InitTypes
<1>2. Watched \subseteq open
  <2> SUFFICES ASSUME NEW f \in Watched PROVE f \in 0..Listener
    BY DEF Init
  <2>1. f \in client_set /\ f <= Listener /\ client_set \subseteq Nat
    BY <1>1, DescriptorTypes DEF Init, Watched
  <2> QED BY <2>1, SessionAssumption
<1>3. DescriptorsLive
  <2>1. \A f \in open : owner[f] = None
    BY DescriptorTypes, <1>1 DEF Init
  <2>2. pc # "scan"
    BY DEF Init
  <2> QED BY <1>2, <2>1, <2>2 DEF DescriptorsLive
<1>4. QueueInv
  BY DEF Init, QueueInv, Queued
<1> QED BY <1>1, <1>3, <1>4 DEF ChatInv

\* A client's step touches no descriptor and queues itself at most once.
LEMMA ClientKeepsInv ==
    ASSUME ChatInv, TypeOK', NEW c \in Clients, Connect(c) \/ Send(c) \/ Close(c)
    PROVE  ChatInv'
<1>1. DescriptorsLive'
  BY DEF ChatInv, DescriptorsLive, Connect, Send, Close, Watched, ToVisit,
         setVars, descVars
<1>2. CASE Connect(c)
  <2>1. backlog \in Seq(Clients) /\ backlog' = Append(backlog, c)
    BY <1>2 DEF ChatInv, TypeOK, Connect
  <2>2. Queued' = Queued \cup {c}
    BY <2>1 DEF Queued
  <2>3. \A i \in DOMAIN backlog : backlog[i] # c
    BY <1>2 DEF Connect, Queued
  <2>4. \A i, j \in DOMAIN backlog' : backlog'[i] = backlog'[j] => i = j
    BY <2>1, <2>3 DEF ChatInv, QueueInv
  <2>5. \A f \in Fds : owner'[f] \notin Queued'
    BY <1>2, <2>2 DEF ChatInv, QueueInv, Connect, descVars
  <2> QED BY <1>1, <2>4, <2>5 DEF ChatInv, QueueInv
<1>3. CASE Send(c) \/ Close(c)
  BY <1>1, <1>3 DEF ChatInv, QueueInv, Queued, Send, Close, descVars
<1> QED BY <1>2, <1>3

\* accept: the new descriptor is the least free one, so whatever the scan may
\* still visit below it is open, and its client had none.
LEMMA AcceptKeepsInv ==
    ASSUME ChatInv, TypeOK', HandleAccept PROVE ChatInv'
<1> DEFINE fd == Min(Fds \ open)
<1>1. fd \in Fds /\ fd \notin open /\ \A f \in Fds : f < fd => f \in open
  BY FreeIsLeast DEF HandleAccept
<1>2. /\ Fds \subseteq Int /\ max_fd \in Fds /\ pos \in Int /\ Listener \in Fds
      /\ client_set \subseteq Nat /\ temp_set \subseteq Nat /\ open \subseteq Fds
      /\ owner \in [Fds -> Clients \cup {None}]
  BY DescriptorTypes DEF ChatInv
<1>3. max_fd' = IF fd >= max_fd THEN fd ELSE max_fd
  BY <1>1, <1>2, MaxOfTwo DEF HandleAccept
<1>4. backlog \in Seq(Clients) /\ backlog # <<>> /\ backlog' = Tail(backlog)
  BY DEF HandleAccept, ChatInv, TypeOK
<1>5. /\ pc = "scan" /\ open' = open \cup {fd}
      /\ client_set' = client_set \cup {fd} /\ temp_set' = temp_set
      /\ pos' = Listener + 1 /\ owner' = [owner EXCEPT ![fd] = Head(backlog)]
  BY DEF HandleAccept
<1>6. Current = Listener /\ Current \in ToVisit
  BY CurrentIsLeast DEF HandleAccept, ChatInv
<1>7. ToVisit \subseteq open /\ Watched \subseteq open
  BY <1>5 DEF ChatInv, DescriptorsLive
<1>8. ASSUME NEW f \in Nat, f <= max_fd', ~ (f <= max_fd) PROVE f \in open'
  <2>1. fd \in Int /\ max_fd \in Int
    BY <1>1, <1>2
  <2>2. f = fd \/ f < fd
    BY <1>3, <1>8, <2>1
  <2>3. f \in Fds
    <3>1. max_fd' \in Fds
      BY DescriptorTypes DEF TypeOK
    <3> QED BY <1>8, <3>1, SessionAssumption DEF Fds
  <2> QED BY <1>1, <1>5, <2>2, <2>3
<1>9. Watched' \subseteq open'
  <2> SUFFICES ASSUME NEW f \in Watched' PROVE f \in open'
    OBVIOUS
  <2>1. f = fd \/ f \in client_set
    BY <1>5 DEF Watched
  <2>2. f <= max_fd'
    BY DEF Watched
  <2>3. f \in client_set /\ f <= max_fd => f \in open
    BY <1>7 DEF Watched
  <2> QED BY <1>2, <1>5, <1>8, <2>1, <2>2, <2>3
<1>10. ToVisit' \subseteq open'
  <2> SUFFICES ASSUME NEW f \in ToVisit' PROVE f \in open'
    OBVIOUS
  <2>1. f \in temp_set /\ f \in Nat /\ f <= max_fd' /\ Listener + 1 <= f
    BY <1>2, <1>5 DEF ToVisit
  <2>2. CASE f <= max_fd
    <3>1. pos <= f
      <4>1. pos <= Listener /\ Listener \in Int
        BY <1>2, <1>6 DEF ToVisit
      <4> QED BY <1>2, <2>1, <4>1
    <3> QED BY <1>5, <1>7, <2>1, <2>2, <3>1 DEF ToVisit
  <2> QED BY <1>8, <2>1, <2>2
<1>11. Head(backlog) \in Queued /\ Head(backlog) \in Clients /\ 1 \in DOMAIN backlog
       /\ Head(backlog) = backlog[1]
  BY <1>4 DEF Queued
<1>12. \A f, g \in open' : owner'[f] = owner'[g] /\ owner'[f] # None => f = g
  <2>1. \A f \in Fds : owner'[f] = IF f = fd THEN Head(backlog) ELSE owner[f]
    BY <1>1, <1>2, <1>5
  <2>2. \A f \in Fds : owner[f] # Head(backlog)
    BY <1>11 DEF ChatInv, QueueInv
  <2>3. \A f, g \in open : owner[f] = owner[g] /\ owner[f] # None => f = g
    BY DEF ChatInv, DescriptorsLive
  <2> QED BY <1>1, <1>2, <1>5, <2>1, <2>2, <2>3
<1>13. DescriptorsLive'
  BY <1>9, <1>10, <1>12 DEF DescriptorsLive
<1>14. \A i \in DOMAIN backlog' : i + 1 \in DOMAIN backlog /\ backlog'[i] = backlog[i + 1]
  BY <1>4, HeadTailProperties
<1>15. \A i, j \in DOMAIN backlog' : backlog'[i] = backlog'[j] => i = j
  <2>1. DOMAIN backlog' \subseteq Int
    BY <1>4
  <2> QED BY <1>14, <2>1 DEF ChatInv, QueueInv
<1>16. Queued' \subseteq Queued /\ Head(backlog) \notin Queued'
  <2>1. \A i \in DOMAIN backlog' : i + 1 # 1
    BY <1>4
  <2> QED BY <1>11, <1>14, <2>1 DEF ChatInv, QueueInv, Queued
<1>17. \A f \in Fds : owner'[f] \notin Queued'
  BY <1>1, <1>5, <1>16 DEF ChatInv, QueueInv, TypeOK
<1> QED BY <1>13, <1>15, <1>17 DEF ChatInv, QueueInv

\* A descriptor closed: it leaves the set, and the scan is past it.
LEMMA CloseKeepsInv ==
    ASSUME ChatInv, TypeOK', pc = "scan", ToVisit # {}, CloseConnection(Current),
           pos' = Current + 1, UNCHANGED <<pc, temp_set, max_fd, backlog>>
    PROVE  DescriptorsLive' /\ QueueInv'
<1>1. Current \in ToVisit /\ Current \in Fds /\ TypeOK
  BY CurrentIsLeast DEF ChatInv
<1>2. /\ open' = open \ {Current} /\ client_set' = client_set \ {Current}
      /\ owner' = [owner EXCEPT ![Current] = None]
  BY DEF CloseConnection
<1>3. open \subseteq Fds /\ owner \in [Fds -> Clients \cup {None}]
  BY <1>1, DescriptorTypes
<1>4. ToVisit' \subseteq ToVisit \ {Current}
  BY <1>1, VisitShrinks
<1>5. Watched' \subseteq open'
  BY <1>2 DEF ChatInv, DescriptorsLive, Watched
<1>6. ToVisit' \subseteq open'
  BY <1>2, <1>4 DEF ChatInv, DescriptorsLive
<1>7. \A f \in Fds : owner'[f] = IF f = Current THEN None ELSE owner[f]
  BY <1>2, <1>3
<1>8. \A f, g \in open' : owner'[f] = owner'[g] /\ owner'[f] # None => f = g
  BY <1>2, <1>3, <1>7 DEF ChatInv, DescriptorsLive
<1>9. None \notin Queued
  BY <1>1, SessionAssumption DEF TypeOK, Queued
<1>10. QueueInv'
  BY <1>7, <1>9 DEF ChatInv, QueueInv, Queued
<1> QED BY <1>5, <1>6, <1>8, <1>10 DEF DescriptorsLive

\* A relay changes no descriptor.
LEMMA RecvKeepsInv ==
    ASSUME ChatInv, TypeOK', HandleRecv PROVE ChatInv'
<1>1. Current \in ToVisit /\ Current \in Fds /\ \A f \in ToVisit : Current <= f
  BY CurrentIsLeast DEF HandleRecv, ChatInv
<1>2. pc = "scan" /\ pos' = Current + 1 /\ UNCHANGED <<client_set, temp_set, max_fd>>
      /\ UNCHANGED <<owner, open, backlog>>
  BY DEF HandleRecv, setVars, descVars
<1>4. ToVisit' \subseteq ToVisit
  BY <1>2, VisitShrinks DEF HandleRecv, ChatInv
<1>5. DescriptorsLive'
  BY <1>2, <1>4 DEF ChatInv, DescriptorsLive, Watched
<1>6. QueueInv'
  BY <1>2 DEF ChatInv, QueueInv, Queued
<1> QED BY <1>5, <1>6 DEF ChatInv

\* Every step keeps the invariant.
LEMMA StepChatInv == ChatInv /\ [Next]_vars => ChatInv'
<1> SUFFICES ASSUME ChatInv, [Next]_vars PROVE ChatInv' OBVIOUS
<1>1. TypeOK'
  BY StepTypes DEF ChatInv
<1>2. CASE Select
  <2>1. ToVisit' \subseteq Watched
    BY <1>2 DEF Select, ToVisit, Watched
  <2>2. Watched' \subseteq Watched
    BY <1>2, SelectShrinks DEF ChatInv
  <2>3. DescriptorsLive'
    BY <1>2, <2>1, <2>2 DEF ChatInv, DescriptorsLive, Select, descVars
  <2> QED BY <1>1, <1>2, <2>3 DEF ChatInv, QueueInv, Queued, Select, descVars
<1>3. CASE SelectFails \/ EndScan
  BY <1>1, <1>3 DEF ChatInv, DescriptorsLive, QueueInv, Queued, Watched,
                    SelectFails, LogError, EndScan, setVars, descVars
<1>4. CASE HandleAccept
  BY <1>1, <1>4, AcceptKeepsInv
<1>5. CASE AcceptFails
  <2>1. Current \in ToVisit /\ pos' = Current + 1
    BY <1>5, CurrentIsLeast DEF AcceptFails, ChatInv
  <2>2. ToVisit' \subseteq ToVisit
    BY <1>5, <2>1, VisitShrinks DEF AcceptFails, setVars, ChatInv
  <2> QED BY <1>1, <1>5, <2>2 DEF ChatInv, DescriptorsLive, QueueInv, Queued,
                                  Watched, AcceptFails, setVars, descVars
<1>6. CASE HandleDisconnect \/ HandleTerminal
  BY <1>1, <1>6, CloseKeepsInv DEF HandleDisconnect, HandleTerminal, ChatInv
<1>7. CASE HandleRecv
  BY <1>1, <1>7, RecvKeepsInv
<1>8. CASE \E c \in Clients : Connect(c) \/ Send(c) \/ Close(c)
  BY <1>1, <1>8, ClientKeepsInv
<1>9. CASE UNCHANGED vars
  BY <1>1, <1>9 DEF ChatInv, DescriptorsLive, QueueInv, Queued, Watched, ToVisit,
                    vars, setVars, descVars
<1> QED BY <1>2, <1>3, <1>4, <1>5, <1>6, <1>7, <1>8, <1>9 DEF Next, SessionStep

\* select never watches, and the scan never visits, a descriptor that is not
\* open, and no two descriptors belong to one client.
THEOREM DescriptorsLiveCorrect == Spec => []DescriptorsLive
<1>1. ChatInv => DescriptorsLive
  BY DEF ChatInv
<1> QED BY <1>1, InitChatInv, StepChatInv, PTL DEF Spec

----------------------------------------------------------------------------
(* What select drops.                                                      *)

\* max_fd covers every open descriptor, and between scans none is left to visit.
ScanInv ==
    /\ \A f \in open : f <= max_fd
    /\ pc = "select" => ToVisit = {}

\* Initially so.
LEMMA InitScanInv == Init => ScanInv
<1> SUFFICES ASSUME Init PROVE ScanInv OBVIOUS
<1>1. open = 0..Listener /\ max_fd = Listener /\ temp_set = {}
  BY DEF Init
<1>2. \A f \in 0..Listener : f <= Listener
  BY SessionAssumption
<1> QED BY <1>1, <1>2 DEF ScanInv, ToVisit

\* What accept does to the descriptors: the new one was free, and max_fd covers it.
LEMMA AcceptOpens ==
    ASSUME TypeOK, HandleAccept
    PROVE  \E fd \in Fds \ open :
              /\ open' = open \cup {fd} /\ client_set' = client_set \cup {fd}
              /\ fd <= max_fd' /\ max_fd <= max_fd' /\ max_fd' \in Nat
              /\ \A f \in open : f <= max_fd => f <= max_fd'
<1> DEFINE fd == Min(Fds \ open)
<1>1. fd \in Fds \ open
  BY FreeIsLeast DEF HandleAccept
<1>2. fd \in Nat /\ max_fd \in Nat /\ \A f \in open : f \in Nat
  BY <1>1, DescriptorTypes
<1>3. max_fd' = IF fd >= max_fd THEN fd ELSE max_fd
  <2>1. Max({fd, max_fd}) = IF fd >= max_fd THEN fd ELSE max_fd
    BY <1>2, MaxOfTwo
  <2> QED BY <2>1 DEF HandleAccept
<1>4. fd <= max_fd' /\ max_fd <= max_fd' /\ max_fd' \in Nat
  BY <1>2, <1>3
<1>5. \A f \in open : f <= max_fd => f <= max_fd'
  BY <1>2, <1>4
<1> QED BY <1>1, <1>4, <1>5 DEF HandleAccept

\* Every step keeps it.
LEMMA StepScanInv == TypeOK /\ ScanInv /\ [Next]_vars => ScanInv'
<1> SUFFICES ASSUME TypeOK, ScanInv, [Next]_vars PROVE ScanInv' OBVIOUS
<1>1. CASE Select \/ SelectFails \/ EndScan
  BY <1>1 DEF ScanInv, ToVisit, Select, SelectFails, LogError, EndScan, setVars, descVars
<1>2. CASE HandleAccept
  <2>1. pc' # "select"
    BY <1>2, TellTypes DEF HandleAccept
  <2> QED BY <1>2, <2>1, AcceptOpens DEF ScanInv
<1>3. CASE AcceptFails
  BY <1>3 DEF ScanInv, AcceptFails, LogError, setVars, descVars
<1>4. CASE HandleDisconnect \/ HandleTerminal
  BY <1>4 DEF ScanInv, HandleDisconnect, HandleTerminal, CloseConnection
<1>5. CASE HandleRecv
  BY <1>5 DEF ScanInv, HandleRecv, setVars, descVars
<1>6. CASE \E c \in Clients : Connect(c) \/ Send(c) \/ Close(c)
  BY <1>6 DEF ScanInv, ToVisit, Connect, Send, Close, setVars, descVars
<1>7. CASE UNCHANGED vars
  BY <1>7 DEF ScanInv, ToVisit, vars, setVars, descVars
<1> QED BY <1>1, <1>2, <1>3, <1>4, <1>5, <1>6, <1>7 DEF Next, SessionStep

\* A step never brings a dropped descriptor back.
LEMMA StepDropped ==
    ASSUME TypeOK, ScanInv, [Next]_vars, NEW f \in Fds, Dropped(f)
    PROVE  Dropped(f)'
<1>1. f \in open /\ f \notin client_set /\ f \notin ToVisit
  BY DEF Dropped, ScanInv
<1>2. CASE Select
  <2>1. f \notin client_set' /\ temp_set' = client_set /\ open' = open
    BY <1>1, <1>2, SelectShrinks DEF Select, descVars
  <2> QED BY <1>1, <2>1 DEF Dropped, ToVisit
<1>3. CASE SelectFails \/ EndScan
  BY <1>1, <1>3 DEF Dropped, ToVisit, SelectFails, EndScan, setVars, descVars
<1>4. CASE HandleAccept
  <2>1. f \in open' /\ f \notin client_set'
    BY <1>1, <1>4, AcceptOpens
  <2>2. f \notin ToVisit'
    <3>1. f <= max_fd /\ f \in Nat /\ pos \in Nat /\ Listener \in Nat
      BY <1>1, DescriptorTypes DEF ScanInv
    <3>2. f \notin temp_set \/ f < pos
      BY <1>1, <3>1 DEF ToVisit
    <3>3. pos <= Listener /\ pos' = Listener + 1 /\ temp_set' = temp_set
      BY <1>4, CurrentIsLeast DEF HandleAccept, ToVisit
    <3> QED BY <3>1, <3>2, <3>3 DEF ToVisit
  <2> QED BY <2>1, <2>2 DEF Dropped
<1>5. CASE AcceptFails
  <2>1. ToVisit' \subseteq ToVisit
    BY <1>5, VisitShrinks DEF AcceptFails, setVars
  <2> QED BY <1>1, <1>5, <2>1 DEF Dropped, AcceptFails, setVars, descVars
<1>6. CASE HandleDisconnect \/ HandleTerminal
  <2>1. Current \in ToVisit /\ ToVisit' \subseteq ToVisit
    BY <1>6, CurrentIsLeast, VisitShrinks DEF HandleDisconnect, HandleTerminal
  <2> QED BY <1>1, <1>6, <2>1
        DEF Dropped, HandleDisconnect, HandleTerminal, CloseConnection
<1>7. CASE HandleRecv
  <2>1. ToVisit' \subseteq ToVisit
    BY <1>7, VisitShrinks DEF HandleRecv, setVars
  <2> QED BY <1>1, <1>7, <2>1 DEF Dropped, HandleRecv, setVars, descVars
<1>8. CASE \E c \in Clients : Connect(c) \/ Send(c) \/ Close(c)
  BY <1>1, <1>8 DEF Dropped, ToVisit, Connect, Send, Close, setVars, descVars
<1>9. CASE UNCHANGED vars
  BY <1>1, <1>9 DEF Dropped, ToVisit, vars, setVars, descVars
<1> QED BY <1>2, <1>4, <1>5, <1>6, <1>7, <1>8, <1>9, <1>3 DEF Next, SessionStep

\* What select took out of the set is never watched, visited, closed or given
\* to another client again.
THEOREM DroppedForeverCorrect == Spec => DroppedForever
<1>1. TypeOK /\ ScanInv /\ [Next]_vars
      => [\A f \in Fds : Dropped(f) => Dropped(f)']_vars
  BY StepDropped
<1>2. Init => TypeOK /\ ScanInv
  BY InitTypes, InitScanInv
<1>3. TypeOK /\ ScanInv /\ [Next]_vars => (TypeOK /\ ScanInv)'
  BY StepTypes, StepScanInv
<1> QED BY <1>1, <1>2, <1>3, PTL DEF Spec, DroppedForever

----------------------------------------------------------------------------
(* The order of what is relayed.                                           *)

\* What a client sent is numbered as it was sent; what has been relayed of it
\* came before what is waiting, and none of it went back to the sender.
StreamInv ==
    /\ \A c \in Clients : \A i \in DOMAIN inbox[c] :
           inbox[c][i].from = c /\ inbox[c][i].n <= sent[c]
    /\ \A c \in Clients : \A i, j \in DOMAIN inbox[c] :
           i < j => inbox[c][i].n < inbox[c][j].n
    /\ \A d \in Clients : \A i \in DOMAIN outbox[d] :
           /\ outbox[d][i].n <= sent[outbox[d][i].from]
           /\ \A j \in DOMAIN inbox[outbox[d][i].from] :
                  outbox[d][i].n < inbox[outbox[d][i].from][j].n
    /\ RelayedInOrder

\* What the type invariant says of the streams.
LEMMA StreamTypes ==
    ASSUME TypeOK, NEW c \in Clients
    PROVE  /\ inbox[c] \in Seq(Messages) /\ outbox[c] \in Seq(Messages) /\ sent[c] \in Int
           /\ Len(inbox[c]) \in Nat /\ DOMAIN inbox[c] = 1..Len(inbox[c])
           /\ Len(outbox[c]) \in Nat /\ DOMAIN outbox[c] = 1..Len(outbox[c])
           /\ \A i \in DOMAIN inbox[c] : inbox[c][i].from \in Clients /\ inbox[c][i].n \in Int
           /\ \A i \in DOMAIN outbox[c] :
                  outbox[c][i].from \in Clients /\ outbox[c][i].n \in Int
<1>1. inbox[c] \in Seq(Messages) /\ outbox[c] \in Seq(Messages)
  BY DEF TypeOK
<1>2. sent[c] \in Int
  BY SessionAssumption DEF TypeOK
<1>3. /\ Len(inbox[c]) \in Nat /\ DOMAIN inbox[c] = 1..Len(inbox[c])
      /\ Len(outbox[c]) \in Nat /\ DOMAIN outbox[c] = 1..Len(outbox[c])
  BY <1>1, LenProperties
<1>4. /\ \A i \in DOMAIN inbox[c] : inbox[c][i] \in Messages
      /\ \A i \in DOMAIN outbox[c] : outbox[c][i] \in Messages
  BY <1>1, <1>3, ElementOfSeq
<1>5. \A m \in Messages : m.from \in Clients /\ m.n \in Int
  BY DEF Messages
<1> QED BY <1>1, <1>2, <1>3, <1>4, <1>5

\* Initially nothing has been sent.
LEMMA InitStreamInv == Init => StreamInv
BY DEF Init, StreamInv, RelayedInOrder

\* A message sent is numbered above all the client sent before.
LEMMA SendKeepsOrder ==
    ASSUME TypeOK, StreamInv, NEW c \in Clients, Send(c) PROVE StreamInv'
<1> DEFINE m == [from |-> c, n |-> sent[c] + 1]
<1>1. /\ inbox[c] \in Seq(Messages) /\ sent[c] \in Int /\ Len(inbox[c]) \in Nat
      /\ DOMAIN inbox[c] = 1..Len(inbox[c])
      /\ \A i \in DOMAIN inbox[c] : inbox[c][i].n \in Int
  BY StreamTypes
<1>2. \A d \in Clients : inbox'[d] = IF d = c THEN Append(inbox[c], m) ELSE inbox[d]
  BY DEF Send, TypeOK
<1>3. \A d \in Clients : sent'[d] = IF d = c THEN sent[c] + 1 ELSE sent[d]
  BY DEF Send, TypeOK
<1>4. outbox' = outbox
  BY DEF Send
<1>5. ASSUME NEW i \in DOMAIN Append(inbox[c], m)
      PROVE  \/ i \in DOMAIN inbox[c] /\ Append(inbox[c], m)[i] = inbox[c][i]
             \/ i = Len(inbox[c]) + 1 /\ Append(inbox[c], m)[i] = m
  BY <1>1
<1>6. m.from = c /\ m.n = sent[c] + 1
  OBVIOUS
<1>7. \A i \in DOMAIN inbox[c] : inbox[c][i].from = c /\ inbox[c][i].n <= sent[c]
  BY DEF StreamInv
<1>8. ASSUME NEW d \in Clients, NEW i \in DOMAIN inbox'[d]
      PROVE  inbox'[d][i].from = d /\ inbox'[d][i].n <= sent'[d]
  <2>1. CASE d # c
    BY <1>2, <1>3, <2>1 DEF StreamInv
  <2>2. CASE d = c
    <3>1. inbox'[d] = Append(inbox[c], m) /\ sent'[d] = sent[c] + 1
      BY <1>2, <1>3, <2>2
    <3>2. CASE i \in DOMAIN inbox[c] /\ inbox'[d][i] = inbox[c][i]
      BY <1>1, <1>7, <2>2, <3>1, <3>2
    <3>3. CASE inbox'[d][i] = m
      BY <1>1, <1>6, <2>2, <3>1, <3>3
    <3> QED BY <1>5, <3>1, <3>2, <3>3
  <2> QED BY <2>1, <2>2
<1>9. ASSUME NEW d \in Clients, NEW i \in DOMAIN inbox'[d], NEW j \in DOMAIN inbox'[d], i < j
      PROVE  inbox'[d][i].n < inbox'[d][j].n
  <2>1. CASE d # c
    BY <1>2, <1>9, <2>1 DEF StreamInv
  <2>2. CASE d = c
    <3>1. inbox'[d] = Append(inbox[c], m)
      BY <1>2, <2>2
    <3>2. i \in DOMAIN inbox[c] /\ inbox'[d][i] = inbox[c][i]
      BY <1>1, <1>9, <3>1
    <3>3. CASE j \in DOMAIN inbox[c] /\ inbox'[d][j] = inbox[c][j]
      BY <1>9, <3>2, <3>3 DEF StreamInv
    <3>4. CASE inbox'[d][j] = m
      BY <1>1, <1>6, <1>7, <3>2, <3>4
    <3> QED BY <1>5, <3>1, <3>3, <3>4
  <2> QED BY <2>1, <2>2
<1>10. ASSUME NEW d \in Clients, NEW i \in DOMAIN outbox[d]
       PROVE  /\ outbox[d][i].n <= sent'[outbox[d][i].from]
              /\ \A j \in DOMAIN inbox'[outbox[d][i].from] :
                     outbox[d][i].n < inbox'[outbox[d][i].from][j].n
  <2>1. outbox[d][i].from \in Clients /\ outbox[d][i].n \in Int
    BY StreamTypes
  <2>2. /\ outbox[d][i].n <= sent[outbox[d][i].from]
        /\ \A j \in DOMAIN inbox[outbox[d][i].from] :
               outbox[d][i].n < inbox[outbox[d][i].from][j].n
    BY DEF StreamInv
  <2>3. CASE outbox[d][i].from # c
    BY <1>2, <1>3, <2>1, <2>2, <2>3
  <2>4. CASE outbox[d][i].from = c
    <3>1. outbox[d][i].n <= sent[c] + 1 /\ outbox[d][i].n < m.n
      BY <1>1, <1>6, <2>1, <2>2, <2>4
    <3>2. ASSUME NEW j \in DOMAIN inbox'[c] PROVE outbox[d][i].n < inbox'[c][j].n
      BY <1>2, <1>5, <2>2, <2>4, <3>1, <3>2
    <3> QED BY <1>3, <2>4, <3>1, <3>2
  <2> QED BY <2>3, <2>4
<1>11. RelayedInOrder'
  BY <1>4 DEF StreamInv, RelayedInOrder
<1> QED BY <1>4, <1>8, <1>9, <1>10, <1>11 DEF StreamInv

\* An index past the first of two lengths is an index into the second part.
LEMMA SecondPart ==
    \A a, b \in Nat : \A i \in 1..(a + b) : i > a => i - a \in 1..b
OBVIOUS

\* A relay appends all that waits to what went before, and not to the sender's
\* own stream, for the sender has one descriptor.
LEMMA RecvKeepsOrder ==
    ASSUME ChatInv, StreamInv, TypeOK', HandleRecv PROVE StreamInv'
<1> DEFINE c == owner[Current]
<1>1. Current \in Fds /\ Current \in ToVisit /\ c \in Clients /\ TypeOK
  BY CurrentIsLeast DEF HandleRecv, ChatInv, TypeOK
<1>2. c \notin Reached(Current)
  <2> SUFFICES ASSUME NEW f \in RelayTo(Current) PROVE owner[f] # c
    BY DEF Reached
  <2>1. f \in client_set /\ f < max_fd /\ f # Current
    BY DEF RelayTo
  <2>2. f \in Watched
    BY <1>1, <2>1, DescriptorTypes DEF Watched
  <2>3. f \in open /\ Current \in open /\ f # Current
    BY <1>1, <2>1, <2>2 DEF HandleRecv, ChatInv, DescriptorsLive
  <2>4. c # None
    BY DEF HandleRecv
  <2> QED BY <2>3, <2>4 DEF ChatInv, DescriptorsLive
<1>3. /\ \A d \in Clients : inbox'[d] = IF d = c THEN <<>> ELSE inbox[d]
      /\ \A d \in Clients : outbox'[d] = IF d \in Reached(Current) \ closed
                                           THEN outbox[d] \o inbox[c] ELSE outbox[d]
      /\ sent' = sent
  BY DEF HandleRecv, ChatInv, TypeOK, clientVars
<1>4. /\ inbox[c] \in Seq(Messages) /\ Len(inbox[c]) \in Nat
      /\ DOMAIN inbox[c] = 1..Len(inbox[c])
  BY <1>1, StreamTypes
<1>5. ASSUME NEW d \in Clients, NEW i \in DOMAIN outbox'[d]
      PROVE  \/ i \in DOMAIN outbox[d] /\ outbox'[d][i] = outbox[d][i]
             \/ /\ d # c /\ i > Len(outbox[d])
                /\ i - Len(outbox[d]) \in DOMAIN inbox[c]
                /\ outbox'[d][i] = inbox[c][i - Len(outbox[d])]
  <2>1. CASE d \in Reached(Current) \ closed
    <3>1. d # c /\ outbox'[d] = outbox[d] \o inbox[c]
      BY <1>2, <1>3, <2>1
    <3>2. /\ outbox[d] \in Seq(Messages) /\ Len(outbox[d]) \in Nat
          /\ DOMAIN outbox[d] = 1..Len(outbox[d])
      BY <1>1, StreamTypes
    <3> DEFINE both == outbox[d] \o inbox[c]
    <3>3. /\ both \in Seq(Messages) /\ Len(both) = Len(outbox[d]) + Len(inbox[c])
          /\ \A k \in 1..(Len(outbox[d]) + Len(inbox[c])) :
                 both[k] = IF k <= Len(outbox[d]) THEN outbox[d][k]
                                                  ELSE inbox[c][k - Len(outbox[d])]
      BY <1>4, <3>2, ConcatProperties
    <3>4. i \in 1..(Len(outbox[d]) + Len(inbox[c]))
      BY <3>1, <3>3, LenProperties
    <3>5. outbox'[d][i] = IF i <= Len(outbox[d]) THEN outbox[d][i]
                                                ELSE inbox[c][i - Len(outbox[d])]
      BY <3>1, <3>3, <3>4
    <3>6. i \in Int /\ Len(outbox[d]) \in Nat /\ Len(inbox[c]) \in Nat
      BY <1>4, <3>2, <3>4
    <3>7. CASE i <= Len(outbox[d])
      BY <3>2, <3>4, <3>5, <3>6, <3>7
    <3>8. CASE i > Len(outbox[d])
      <4>1. i - Len(outbox[d]) \in DOMAIN inbox[c]
        <5>1. i - Len(outbox[d]) \in 1..Len(inbox[c])
          BY <3>4, <3>6, <3>8, SecondPart
        <5> QED BY <1>4, <5>1
      <4>2. outbox'[d][i] = inbox[c][i - Len(outbox[d])]
        BY <3>5, <3>6, <3>8
      <4> QED BY <3>1, <3>8, <4>1, <4>2
    <3> QED BY <3>6, <3>7, <3>8
  <2>2. CASE d \notin Reached(Current) \ closed
    BY <1>3, <2>2
  <2> QED BY <2>1, <2>2
<1>6. \A d \in Clients : \A i \in DOMAIN outbox'[d] : i \in Int
  <2>1. \A d \in Clients : outbox'[d] \in Seq(Messages)
    BY DEF TypeOK
  <2> QED BY <2>1, LenProperties
<1>7. \A d \in Clients : \A i \in DOMAIN inbox'[d] :
          inbox'[d][i].from = d /\ inbox'[d][i].n <= sent'[d]
  BY <1>3 DEF StreamInv
<1>8. \A d \in Clients : \A i, j \in DOMAIN inbox'[d] :
          i < j => inbox'[d][i].n < inbox'[d][j].n
  BY <1>3 DEF StreamInv
<1>9. ASSUME NEW d \in Clients, NEW i \in DOMAIN outbox'[d]
      PROVE  /\ outbox'[d][i].n <= sent'[outbox'[d][i].from]
             /\ \A j \in DOMAIN inbox'[outbox'[d][i].from] :
                    outbox'[d][i].n < inbox'[outbox'[d][i].from][j].n
  <2>1. CASE i \in DOMAIN outbox[d] /\ outbox'[d][i] = outbox[d][i]
    <3>1. outbox[d][i].from \in Clients
      BY <1>1, <2>1, StreamTypes
    <3>2. /\ outbox[d][i].n <= sent[outbox[d][i].from]
          /\ \A j \in DOMAIN inbox[outbox[d][i].from] :
                 outbox[d][i].n < inbox[outbox[d][i].from][j].n
      BY <2>1 DEF StreamInv
    <3> QED BY <1>3, <2>1, <3>1, <3>2
  <2>2. CASE \E k \in DOMAIN inbox[c] : outbox'[d][i] = inbox[c][k]
    BY <1>1, <1>3, <2>2 DEF StreamInv
  <2> QED BY <1>5, <2>1, <2>2
<1>10. ASSUME NEW d \in Clients, NEW i \in DOMAIN outbox'[d], NEW j \in DOMAIN outbox'[d]
      PROVE  /\ outbox'[d][i].from # d
             /\ i < j /\ outbox'[d][i].from = outbox'[d][j].from
                => outbox'[d][i].n < outbox'[d][j].n
  <2>1. outbox'[d][i].from # d
    BY <1>1, <1>5 DEF StreamInv, RelayedInOrder
  <2>2. ASSUME i < j, outbox'[d][i].from = outbox'[d][j].from
        PROVE  outbox'[d][i].n < outbox'[d][j].n
    <3>1. DOMAIN outbox[d] = 1..Len(outbox[d]) /\ Len(outbox[d]) \in Nat
      BY <1>1, StreamTypes
    <3>2. CASE j \in DOMAIN outbox[d] /\ outbox'[d][j] = outbox[d][j]
      <4>1. j <= Len(outbox[d])
        BY <3>1, <3>2
      <4>2. ~ (i > Len(outbox[d]))
        BY <1>6, <2>2, <3>1, <4>1
      <4>3. i \in DOMAIN outbox[d] /\ outbox'[d][i] = outbox[d][i]
        BY <1>5, <4>2
      <4> QED BY <2>2, <3>2, <4>3 DEF StreamInv, RelayedInOrder
    <3>3. CASE /\ d # c /\ j > Len(outbox[d])
               /\ j - Len(outbox[d]) \in DOMAIN inbox[c]
               /\ outbox'[d][j] = inbox[c][j - Len(outbox[d])]
      <4>1. outbox'[d][j].from = c
        BY <1>1, <3>3 DEF StreamInv
      <4>2. CASE i \in DOMAIN outbox[d] /\ outbox'[d][i] = outbox[d][i]
        <5>1. outbox[d][i].from = c
          BY <2>2, <4>1, <4>2
        <5>2. \A k \in DOMAIN inbox[c] : outbox[d][i].n < inbox[c][k].n
          BY <4>2, <5>1 DEF StreamInv
        <5> QED BY <3>3, <4>2, <5>2
      <4>3. CASE /\ i > Len(outbox[d])
                 /\ i - Len(outbox[d]) \in DOMAIN inbox[c]
                 /\ outbox'[d][i] = inbox[c][i - Len(outbox[d])]
        <5>1. i - Len(outbox[d]) < j - Len(outbox[d])
          BY <1>6, <2>2, <3>1
        <5> QED BY <1>1, <3>3, <4>3, <5>1 DEF StreamInv
      <4> QED BY <1>5, <4>2, <4>3
    <3> QED BY <1>5, <3>2, <3>3
  <2> QED BY <2>1, <2>2
<1>11. RelayedInOrder'
  BY <1>10 DEF RelayedInOrder
<1> QED BY <1>7, <1>8, <1>9, <1>11 DEF StreamInv

\* Every step keeps it.
LEMMA StepStreamInv == ChatInv /\ StreamInv /\ [Next]_vars => StreamInv'
<1> SUFFICES ASSUME ChatInv, StreamInv, [Next]_vars PROVE StreamInv' OBVIOUS
<1>1. CASE HandleRecv
  BY <1>1, StepTypes, RecvKeepsOrder DEF ChatInv
<1>2. ASSUME NEW c \in Clients, Send(c) PROVE StreamInv'
  BY <1>2, SendKeepsOrder DEF ChatInv
<1>3. CASE \/ Select \/ SelectFails \/ EndScan \/ HandleAccept \/ AcceptFails
           \/ HandleDisconnect \/ HandleTerminal \/ UNCHANGED vars
           \/ \E c \in Clients : Connect(c) \/ Close(c)
  <2>1. UNCHANGED <<inbox, outbox, sent>>
    BY <1>3 DEF Select, SelectFails, EndScan, HandleAccept, AcceptFails,
                HandleDisconnect, HandleTerminal, Connect, Close, vars, streamVars, clientVars
  <2> QED BY <2>1 DEF StreamInv, RelayedInOrder
<1> QED BY <1>1, <1>2, <1>3 DEF Next, SessionStep

\* What reaches a client is, per sender, in order, never twice, never its own.
THEOREM RelayedInOrderCorrect == Spec => []RelayedInOrder
<1>1. Init => ChatInv /\ StreamInv
  BY InitChatInv, InitStreamInv
<1>2. ChatInv /\ StreamInv /\ [Next]_vars => (ChatInv /\ StreamInv)'
  BY StepChatInv, StepStreamInv
<1>3. StreamInv => RelayedInOrder
  BY DEF StreamInv
<1> QED BY <1>1, <1>2, <1>3, PTL DEF Spec

=============================================================================
