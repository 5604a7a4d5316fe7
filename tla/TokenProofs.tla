---------------------------- MODULE TokenProofs ----------------------------
(***************************************************************************)
(* The token tables and the hand-over, for any servers, names, tokens and  *)
(* children, any token life and any number of repeats.                     *)
(*                                                                         *)
(* UsersQueued is inductive with the types.  FreshAfterScrub is not a *)
(* consequence of it alone: scrub_list stops at the first entry that has   *)
(* not expired, and only the order of the queue says that those behind it  *)
(* have not either.                                                        *)
(***************************************************************************)
EXTENDS AuthHandoff, WellFoundedInduction, SequenceTheorems, TLAPS

\* Expiries are queued in the order in which they expire: the life of a token
\* is the longest that is left to any.
Sorted ==
    \A s \in Servers : \A i, j \in DOMAIN expiry[s] :
        i < j => expiry[s][i].left <= expiry[s][j].left

TokenInv == TypeOK /\ UsersQueued /\ Sorted

----------------------------------------------------------------------------
(* Sequences of expiries.                                                  *)

\* A nonempty set of naturals has a least element, and Min is it.
LEMMA LeastEntry ==
    ASSUME NEW S, S \subseteq Nat, S # {}
    PROVE  Min(S) \in S /\ \A y \in S : Min(S) <= y
<1>1. PICK x \in S : \A y \in S : ~ (<<y, x>> \in OpToRel(<, Nat))
  BY NatLessThanWellFounded, WFMin
<1>2. \A y, z \in Nat : y < z => <<y, z>> \in OpToRel(<, Nat)
  <2>1. OpToRel(<, Nat) = {ss \in Nat \X Nat : ss[1] < ss[2]}
    BY DEF OpToRel
  <2>2. \A y, z \in Nat : y < z => <<y, z>> \in {ss \in Nat \X Nat : ss[1] < ss[2]}
    OBVIOUS
  <2> QED BY <2>1, <2>2, Zenon
<1>3. \A y \in S : x <= y
  <2>1. \A y \in S : ~ (y < x)
    BY <1>1, <1>2, Zenon
  <2> QED BY <2>1
<1> QED BY <1>3 DEF Min

\* The scrub pops a number of entries that the queue has, and stops at one that
\* has not expired, or at the end.
LEMMA PoppedBound ==
    ASSUME NEW q \in Seq(Expiries)
    PROVE  /\ PoppedCount(q) \in 0..Len(q)
           /\ PoppedCount(q) < Len(q) => ~Expired(q[PoppedCount(q) + 1])
<1> DEFINE live == {i \in DOMAIN q : ~Expired(q[i])}
<1>1. CASE live = {}
  <2>1. PoppedCount(q) = Len(q)
    BY <1>1 DEF PoppedCount
  <2>2. Len(q) \in Nat
    OBVIOUS
  <2> QED BY <2>1, <2>2
<1>2. CASE live # {}
  <2>1. live \subseteq Nat
    OBVIOUS
  <2>2. Min(live) \in live
    BY <1>2, <2>1, LeastEntry
  <2>3. PoppedCount(q) = Min(live) - 1
    BY <1>2 DEF PoppedCount
  <2>4. Min(live) \in 1..Len(q) /\ ~Expired(q[Min(live)])
    BY <2>2
  <2>5. Len(q) \in Nat
    OBVIOUS
  <2> HIDE DEF live
  <2>6. PoppedCount(q) + 1 = Min(live) /\ PoppedCount(q) \in 0..Len(q)
    BY <2>3, <2>4, <2>5
  <2> QED BY <2>4, <2>6
<1> QED BY <1>1, <1>2

\* What is left of a queue after k entries were popped.
LEMMA RestOfQueue ==
    ASSUME NEW q \in Seq(Expiries), NEW k \in 0..Len(q)
    PROVE  /\ SubSeq(q, k + 1, Len(q)) \in Seq(Expiries)
           /\ Len(SubSeq(q, k + 1, Len(q))) = Len(q) - k
           /\ \A i \in 1..(Len(q) - k) : SubSeq(q, k + 1, Len(q))[i] = q[k + i]
           /\ SubSeq(q, 1, k) \in Seq(Expiries)
           /\ Len(SubSeq(q, 1, k)) = k
           /\ \A i \in 1..k : SubSeq(q, 1, k)[i] = q[i]
<1>1. Len(q) \in Nat /\ k \in Nat
  OBVIOUS
<1>2. \A i \in (k + 1)..Len(q) : q[i] \in Expiries
  BY ElementOfSeq
<1>3. \A i \in 1..k : q[i] \in Expiries
  BY ElementOfSeq
<1>4. /\ SubSeq(q, k + 1, Len(q)) \in Seq(Expiries)
      /\ Len(SubSeq(q, k + 1, Len(q))) = Len(q) - k
      /\ \A i \in 1..(Len(q) - k) : SubSeq(q, k + 1, Len(q))[i] = q[k + i]
  <2>1. k + 1 \in Int /\ Len(q) \in Int
    BY <1>1
  <2>2. \A i \in (k + 1)..Len(q) : q[i] \in Expiries
    BY <1>2
  <2> QED BY <1>1, <2>1, <2>2, SubSeqProperties
<1>5. /\ SubSeq(q, 1, k) \in Seq(Expiries)
      /\ Len(SubSeq(q, 1, k)) = k
      /\ \A i \in 1..k : SubSeq(q, 1, k)[i] = q[i]
  BY <1>1, <1>3, SubSeqProperties
<1> QED BY <1>4, <1>5

----------------------------------------------------------------------------
(* Types.                                                                  *)

\* What the type invariant says of one table.
LEMMA TableTypes ==
    ASSUME TypeOK, NEW s \in Servers
    PROVE  /\ expiry[s] \in Seq(Expiries)
           /\ current_users[s] \in [Names -> Tokens \cup {EmptyToken, None}]
           /\ \A i \in DOMAIN expiry[s] :
                expiry[s][i].name \in Names /\ expiry[s][i].left \in -1..TokenLife
<1>1. expiry[s] \in Seq(Expiries)
  BY DEF TypeOK, TableTypeOK
<1>2. \A i \in 1..Len(expiry[s]) : expiry[s][i] \in Expiries
  BY <1>1, ElementOfSeq
<1>3. DOMAIN expiry[s] = 1..Len(expiry[s])
  BY <1>1, LenProperties
<1>4. \A i \in DOMAIN expiry[s] :
        expiry[s][i].name \in Names /\ expiry[s][i].left \in -1..TokenLife
  BY <1>2, <1>3 DEF Expiries
<1> QED BY <1>1, <1>4 DEF TypeOK, TableTypeOK

\* The initial state has the invariant.
LEMMA InitInv == Init => TokenInv
<1> SUFFICES ASSUME Init PROVE TokenInv OBVIOUS
<1>1. <<>> \in Seq(Expiries)
  OBVIOUS
<1>2. TableTypeOK
  BY <1>1 DEF Init, TableInit, TableTypeOK
<1>3. 0 \in 0..MaxTries /\ 0 \in 0..(AckWait + 1)
  BY HandoffAssumption
<1>4. TypeOK
  BY <1>2, <1>3 DEF Init, TypeOK
<1>5. UsersQueued
  BY DEF Init, TableInit, UsersQueued
<1>6. Sorted
  <2>1. \A s \in Servers : DOMAIN expiry[s] = {}
    BY DEF Init, TableInit
  <2> QED BY <2>1 DEF Sorted
<1> QED BY <1>4, <1>5, <1>6 DEF TokenInv

\* The new entry is an expiry, and the queue with it is a queue.
LEMMA QueuedExpiry ==
    ASSUME NEW q \in Seq(Expiries), NEW n \in Names
    PROVE  /\ QueueExpiry(n, q) \in Seq(Expiries)
           /\ Len(QueueExpiry(n, q)) = Len(q) + 1
           /\ \A i \in 1..Len(q) : QueueExpiry(n, q)[i] = q[i]
           /\ QueueExpiry(n, q)[Len(q) + 1] = [name |-> n, left |-> TokenLife]
<1>1. [name |-> n, left |-> TokenLife] \in Expiries
  BY TableAssumption DEF Expiries
<1> QED BY <1>1, AppendProperties DEF QueueExpiry

\* What a datagram does to the table, whatever is read in its place.
Received(s, kept, read) ==
    /\ net' = [net EXCEPT ![s] = kept]
    /\ IF s \notin Made
         THEN /\ pc' = [pc EXCEPT ![s] = "undefined"]
              /\ UNCHANGED <<current_users, expiry>>
         ELSE /\ current_users' = [current_users EXCEPT ![s][read.name] =
                                    IF @ = None THEN read.token ELSE @]
              /\ expiry' = [expiry EXCEPT ![s] = QueueExpiry(read.name, @)]
              /\ UNCHANGED pc

\* ReceiveToken is Received with something in the buffers.
LEMMA ReceivedSomething ==
    ASSUME NEW s \in Servers, ReceiveToken(s)
    PROVE  /\ pc[s] = "receive" /\ UNCHANGED connected
           /\ \E kept \in SUBSET net[s] : \E read \in Buffer : Received(s, kept, read)
<1>1. PICK d \in net[s] : \E kept \in {net[s], net[s] \ {d}} :
        \E read \in Buffer : Received(s, kept, read)
  BY DEF ReceiveToken, Received
<1> QED BY <1>1 DEF ReceiveToken

\* A program of the two keeps the types.
LEMMA ServerTypes ==
    ASSUME TypeOK, NEW s \in Servers,
           ReceiveToken(s) \/ ReceiveFails(s) \/ Scrub(s), UNCHANGED callVars
    PROVE  TypeOK'
<1>1. CASE ReceiveToken(s)
  <2>1. PICK kept \in SUBSET net[s], read \in Buffer : Received(s, kept, read)
    BY <1>1, ReceivedSomething
  <2>2. read.token = EmptyToken /\ read.name \in Names
    BY DEF Buffer
  <2>3. net' \in [Servers -> SUBSET Datagrams]
    BY <2>1 DEF Received, TypeOK, TableTypeOK
  <2>4. pc' \in [Servers -> {"receive", "scrub", "undefined"}]
    BY <2>1 DEF Received, TypeOK, TableTypeOK
  <2>5. QueueExpiry(read.name, expiry[s]) \in Seq(Expiries)
    BY <2>2, QueuedExpiry, TableTypes
  <2>6. expiry' \in [Servers -> Seq(Expiries)]
    BY <2>1, <2>5 DEF Received, TypeOK, TableTypeOK
  <2>7. current_users' \in [Servers -> [Names -> Tokens \cup {EmptyToken, None}]]
    <3> DEFINE table == [current_users[s] EXCEPT ![read.name] =
                           IF @ = None THEN read.token ELSE @]
    <3>1. table \in [Names -> Tokens \cup {EmptyToken, None}]
      BY <2>2, TableTypes
    <3>2. current_users' = current_users \/ current_users' = [current_users EXCEPT ![s] = table]
      BY <2>1 DEF Received
    <3> HIDE DEF table
    <3>3. current_users \in [Servers -> [Names -> Tokens \cup {EmptyToken, None}]]
      BY DEF TypeOK, TableTypeOK
    <3> QED BY <3>1, <3>2, <3>3
  <2>8. connected' \subseteq Servers
    BY <1>1 DEF TypeOK, TableTypeOK, ReceiveToken
  <2>9. TableTypeOK'
    BY <2>3, <2>4, <2>6, <2>7, <2>8 DEF TableTypeOK
  <2> QED BY <2>9 DEF TypeOK, callVars
<1>2. CASE ReceiveFails(s)
  BY <1>2 DEF ReceiveFails, TypeOK, TableTypeOK, callVars
<1>3. CASE Scrub(s)
  <2> DEFINE q == expiry[s]
             k == PoppedCount(q)
  <2>1. q \in Seq(Expiries) /\ k \in 0..Len(q)
    BY TableTypes, PoppedBound
  <2>2. SubSeq(q, k + 1, Len(q)) \in Seq(Expiries)
    BY <2>1, RestOfQueue
  <2>3. expiry' \in [Servers -> Seq(Expiries)]
    BY <1>3, <2>2 DEF Scrub, TypeOK, TableTypeOK
  <2>4. \A popped : Erase(s, popped) \in [Names -> Tokens \cup {EmptyToken, None}]
    BY TableTypes DEF Erase
  <2>5. current_users' \in [Servers -> [Names -> Tokens \cup {EmptyToken, None}]]
    BY <1>3, <2>4 DEF Scrub, TypeOK, TableTypeOK
  <2>6. pc' \in [Servers -> {"receive", "scrub", "undefined"}]
    <3>1. CASE s \notin Made
      BY <1>3, <3>1 DEF Scrub, TypeOK, TableTypeOK
    <3>2. CASE s \in Made
      <4>1. PICK next \in {"receive", "undefined"} : pc' = [pc EXCEPT ![s] = next]
        BY <1>3, <3>2 DEF Scrub
      <4> QED BY <4>1 DEF TypeOK, TableTypeOK
    <3> QED BY <3>1, <3>2
  <2>7. TableTypeOK'
    BY <1>3, <2>3, <2>5, <2>6 DEF Scrub, TypeOK, TableTypeOK
  <2> QED BY <2>7 DEF TypeOK, callVars
<1> QED BY <1>1, <1>2, <1>3

\* A step of a hand-over keeps the types; the tables and the time are not its.
LEMMA HandoffTypes ==
    ASSUME TypeOK, NEW c \in Children, chat_server_auth(c) \/ match_server_auth(c)
    PROVE  TypeOK' /\ UNCHANGED tableVars
<1>1. {"chat", "match"} \subseteq Servers
  BY TableAssumption
<1>2. Message(c) \in Datagrams
  BY HandoffAssumption DEF Message, Datagrams
<1>3. PICK s \in Servers : SendAuth(c, s) \/ (server[c] = s /\ Handoff(c))
  BY <1>1 DEF chat_server_auth, match_server_auth
<1>4. 0 \in 0..MaxTries /\ 0 \in 0..(AckWait + 1) /\ MaxTries \in Nat
  BY HandoffAssumption
<1>5. CASE UNCHANGED net /\ UNCHANGED tableVars
           /\ \/ \E result \in {"true", "false"} : Return(c, result)
              \/ \E to \in {"look", "time"} : call' = [call EXCEPT ![c] = to]
                                              /\ UNCHANGED <<server, tries, elapsed>>
  <2>1. TableTypeOK'
    BY <1>5 DEF TypeOK, TableTypeOK, tableVars
  <2>2. CASE \E result \in {"true", "false"} : Return(c, result)
    <3>1. PICK result \in {"true", "false"} : Return(c, result)
      BY <2>2
    <3>2. /\ call' \in [Children -> {"idle", "look", "time", "true", "false"}]
          /\ server' \in [Children -> Servers \cup {None}]
      BY <3>1 DEF Return, TypeOK
    <3>3. tries' \in [Children -> 0..MaxTries] /\ elapsed' \in [Children -> 0..(AckWait + 1)]
      BY <1>4, <3>1 DEF Return, TypeOK
    <3> QED BY <1>5, <2>1, <3>2, <3>3 DEF TypeOK
  <2>3. CASE \E to \in {"look", "time"} : call' = [call EXCEPT ![c] = to]
                                         /\ UNCHANGED <<server, tries, elapsed>>
    <3>1. PICK to \in {"look", "time"} : call' = [call EXCEPT ![c] = to]
                                       /\ UNCHANGED <<server, tries, elapsed>>
      BY <2>3
    <3> QED BY <1>5, <2>1, <3>1 DEF TypeOK
  <2> QED BY <1>5, <2>2, <2>3
<1>6. CASE net' = [net EXCEPT ![s] = @ \cup {Message(c)}] /\ UNCHANGED tableVars
           /\ call' = [call EXCEPT ![c] = "look"]
           /\ server' = [server EXCEPT ![c] = s] /\ UNCHANGED <<tries, elapsed>>
  BY <1>2, <1>6 DEF TypeOK, TableTypeOK, tableVars
<1>7. CASE server[c] = s /\ Resend(c)
  <2>1. UNCHANGED tableVars
    BY <1>7 DEF Resend
  <2>2. net' \in [Servers -> SUBSET Datagrams]
    BY <1>2, <1>7 DEF Resend, TypeOK, TableTypeOK
  <2>3. TableTypeOK'
    BY <2>1, <2>2 DEF TypeOK, TableTypeOK, tableVars
  <2>4. CASE tries[c] < MaxTries
    <3>1. tries[c] + 1 \in 0..MaxTries
      BY <1>4, <2>4 DEF TypeOK
    <3> QED BY <1>4, <1>7, <2>1, <2>3, <2>4, <3>1 DEF Resend, TypeOK
  <2>5. CASE ~(tries[c] < MaxTries)
    BY <1>4, <1>7, <2>1, <2>3, <2>5 DEF Resend, Return, TypeOK
  <2> QED BY <2>4, <2>5
<1>8. SendAuth(c, s) =>
        \/ /\ net' = [net EXCEPT ![s] = @ \cup {Message(c)}] /\ UNCHANGED tableVars
           /\ call' = [call EXCEPT ![c] = "look"]
           /\ server' = [server EXCEPT ![c] = s] /\ UNCHANGED <<tries, elapsed>>
        \/ UNCHANGED net /\ UNCHANGED tableVars /\ Return(c, "false")
  BY DEF SendAuth
<1>9. Handoff(c) =>
        \/ Resend(c)
        \/ /\ UNCHANGED net /\ UNCHANGED tableVars
           /\ \/ Return(c, "true") \/ Return(c, "false")
              \/ /\ \/ call' = [call EXCEPT ![c] = "look"]
                    \/ call' = [call EXCEPT ![c] = "time"]
                 /\ UNCHANGED <<server, tries, elapsed>>
  BY DEF Handoff, TakeAnswer, NoAnswer, KeepWaiting, ResendFails
<1> QED BY <1>3, <1>5, <1>6, <1>7, <1>8, <1>9

\* The entry of a queue after a tick.
LEMMA TickEntry ==
    ASSUME TypeOK, Tick, NEW s \in Servers
    PROVE  /\ expiry'[s] \in Seq(Expiries)
           /\ DOMAIN expiry'[s] = DOMAIN expiry[s]
           /\ \A i \in DOMAIN expiry[s] :
                /\ expiry'[s][i].name = expiry[s][i].name
                /\ expiry'[s][i].left =
                     IF expiry[s][i].left < 0 THEN expiry[s][i].left ELSE expiry[s][i].left - 1
<1> DEFINE q == expiry[s]
           Aged(e) == [e EXCEPT !.left = IF @ < 0 THEN @ ELSE @ - 1]
<1>1. q \in Seq(Expiries) /\ DOMAIN q = 1..Len(q) /\ Len(q) \in Nat
  BY TableTypes, LenProperties
<1>2. expiry'[s] = [i \in DOMAIN q |-> Aged(q[i])]
  BY DEF Tick, AgeExpiries
<1>3. \A i \in 1..Len(q) : q[i] \in Expiries
  BY <1>1, ElementOfSeq
<1>4. \A e \in Expiries :
        /\ Aged(e) \in Expiries /\ Aged(e).name = e.name
        /\ Aged(e).left = IF e.left < 0 THEN e.left ELSE e.left - 1
  BY TableAssumption DEF Expiries
<1>5. expiry'[s] \in [1..Len(q) -> Expiries]
  BY <1>1, <1>2, <1>3, <1>4
<1> HIDE DEF Aged
<1>6. expiry'[s] \in Seq(Expiries)
  BY <1>1, <1>5, SeqDef
<1> QED BY <1>1, <1>2, <1>3, <1>4, <1>6

\* Time keeps the types.
LEMMA TickTypes ==
    ASSUME TypeOK, Tick
    PROVE  TypeOK'
<1>1. expiry' \in [Servers -> Seq(Expiries)]
  <2>1. DOMAIN expiry' = Servers /\ expiry' = [s \in Servers |-> expiry'[s]]
    BY DEF Tick, AgeExpiries
  <2>2. \A s \in Servers : expiry'[s] \in Seq(Expiries)
    BY TickEntry
  <2> QED BY <2>1, <2>2
<1>2. elapsed' \in [Children -> 0..(AckWait + 1)]
  BY HandoffAssumption DEF Tick, TypeOK
<1> QED BY <1>1, <1>2 DEF Tick, TypeOK, TableTypeOK

----------------------------------------------------------------------------
(* One table and its queue.                                                *)

\* The conjuncts of UsersQueued and of Sorted for one table.
Covered(users, q) ==
    \A n \in Names : users[n] # None => \E i \in DOMAIN q : q[i].name = n

Ordered(q) == \A i, j \in DOMAIN q : i < j => q[i].left <= q[j].left

\* Queueing the expiry of a user who may enter the table keeps both: nothing is
\* left longer than a new expiry.
LEMMA QueueKeeps ==
    ASSUME NEW q \in Seq(Expiries), NEW n \in Names, Ordered(q),
           NEW users \in [Names -> Tokens \cup {EmptyToken, None}], Covered(users, q),
           NEW entry
    PROVE  /\ Ordered(QueueExpiry(n, q))
           /\ Covered([users EXCEPT ![n] = entry], QueueExpiry(n, q))
<1> DEFINE longer == QueueExpiry(n, q)
<1>1. /\ longer \in Seq(Expiries) /\ Len(longer) = Len(q) + 1
      /\ \A i \in 1..Len(q) : longer[i] = q[i]
      /\ longer[Len(q) + 1] = [name |-> n, left |-> TokenLife]
  BY QueuedExpiry
<1>2. DOMAIN longer = 1..(Len(q) + 1) /\ DOMAIN q = 1..Len(q) /\ Len(q) \in Nat
  BY <1>1, LenProperties
<1>3. \A i \in 1..Len(q) : q[i].left \in Int /\ q[i].left <= TokenLife
  <2>1. \A i \in 1..Len(q) : q[i] \in Expiries
    BY ElementOfSeq
  <2> QED BY <2>1, TableAssumption DEF Expiries
<1> HIDE DEF longer
<1>4. Ordered(longer)
  <2> SUFFICES ASSUME NEW i \in DOMAIN longer, NEW j \in DOMAIN longer, i < j
               PROVE  longer[i].left <= longer[j].left
    BY DEF Ordered
  <2>1. i \in 1..Len(q) /\ j \in 1..(Len(q) + 1)
    BY <1>2
  <2>2. CASE j \in 1..Len(q)
    BY <1>1, <1>2, <2>1, <2>2 DEF Ordered
  <2>3. CASE j = Len(q) + 1
    BY <1>1, <1>3, <2>1, <2>3
  <2> QED BY <1>2, <2>1, <2>2, <2>3
<1>5. Covered([users EXCEPT ![n] = entry], longer)
  <2> SUFFICES ASSUME NEW m \in Names, [users EXCEPT ![n] = entry][m] # None
               PROVE  \E i \in DOMAIN longer : longer[i].name = m
    BY DEF Covered
  <2>1. CASE m = n
    BY <1>1, <1>2, <2>1
  <2>2. CASE m # n
    <3>1. PICK i \in DOMAIN q : q[i].name = m
      BY <2>2 DEF Covered
    <3> QED BY <1>1, <1>2, <3>1
  <2> QED BY <2>1, <2>2
<1> QED BY <1>4, <1>5 DEF longer

\* What the scrub leaves is in order, has not expired, and bears the name of
\* everybody who is still in the table.
LEMMA ScrubKeeps ==
    ASSUME NEW q \in Seq(Expiries), Ordered(q), NEW s \in Servers,
           Covered(current_users[s], q)
    PROVE  LET k == PoppedCount(q)
               rest == SubSeq(q, k + 1, Len(q))
           IN  /\ Ordered(rest)
               /\ \A i \in DOMAIN rest : ~Expired(rest[i])
               /\ Covered(Erase(s, SubSeq(q, 1, k)), rest)
<1> DEFINE k == PoppedCount(q)
           rest == SubSeq(q, k + 1, Len(q))
           popped == SubSeq(q, 1, k)
<1>1. k \in 0..Len(q) /\ Len(q) \in Nat /\ (k < Len(q) => ~Expired(q[k + 1]))
  BY PoppedBound
<1> HIDE DEF k
<1>2. /\ rest \in Seq(Expiries) /\ Len(rest) = Len(q) - k
      /\ \A i \in 1..(Len(q) - k) : rest[i] = q[k + i]
      /\ popped \in Seq(Expiries) /\ Len(popped) = k
      /\ \A i \in 1..k : popped[i] = q[i]
  BY <1>1, RestOfQueue
<1>3. DOMAIN rest = 1..(Len(q) - k) /\ DOMAIN popped = 1..k /\ DOMAIN q = 1..Len(q)
  BY <1>2, LenProperties
<1>4. \A i \in 1..Len(q) : q[i].left \in Int
  <2>1. \A i \in 1..Len(q) : q[i] \in Expiries
    BY ElementOfSeq
  <2> QED BY <2>1 DEF Expiries
<1> HIDE DEF rest, popped
<1>5. Ordered(rest)
  <2> SUFFICES ASSUME NEW i \in DOMAIN rest, NEW j \in DOMAIN rest, i < j
               PROVE  rest[i].left <= rest[j].left
    BY DEF Ordered
  <2>1. k + i \in DOMAIN q /\ k + j \in DOMAIN q /\ k + i < k + j
    BY <1>1, <1>3
  <2>2. q[k + i].left <= q[k + j].left
    BY <2>1 DEF Ordered
  <2> QED BY <1>2, <1>3, <2>2
<1>6. \A i \in DOMAIN rest : ~Expired(rest[i])
  <2> SUFFICES ASSUME NEW i \in DOMAIN rest PROVE ~Expired(rest[i])
    OBVIOUS
  <2>1. /\ k < Len(q) /\ k + 1 \in DOMAIN q /\ k + i \in DOMAIN q
        /\ k + 1 = k + i \/ k + 1 < k + i
    BY <1>1, <1>3
  <2>2. q[k + 1].left <= q[k + i].left
    BY <1>3, <1>4, <2>1 DEF Ordered
  <2>3. ~(q[k + i].left < 0)
    BY <1>1, <1>3, <1>4, <2>1, <2>2 DEF Expired
  <2> QED BY <1>2, <1>3, <2>3 DEF Expired
<1>7. Covered(Erase(s, popped), rest)
  <2> SUFFICES ASSUME NEW n \in Names, Erase(s, popped)[n] # None
               PROVE  \E i \in DOMAIN rest : rest[i].name = n
    BY DEF Covered
  <2>1. current_users[s][n] # None /\ \A i \in DOMAIN popped : popped[i].name # n
    BY DEF Erase
  <2>2. PICK i \in DOMAIN q : q[i].name = n
    BY <2>1 DEF Covered
  <2>3. ~(i \in 1..k)
    BY <1>2, <1>3, <2>1, <2>2
  <2>4. i - k \in 1..(Len(q) - k) /\ k + (i - k) = i
    BY <1>1, <1>3, <2>3
  <2> QED BY <1>2, <1>3, <2>2, <2>4
<1> QED BY <1>5, <1>6, <1>7 DEF k, rest, popped

----------------------------------------------------------------------------
(* The steps.                                                              *)

\* The invariant speaks of each table by itself.
LEMMA InvByTable ==
    /\ UsersQueued <=>
         \A s \in Servers : pc[s] # "undefined" => Covered(current_users[s], expiry[s])
    /\ Sorted <=> \A s \in Servers : Ordered(expiry[s])
BY DEF UsersQueued, Sorted, Covered, Ordered

\* What a scrub leaves behind in a server whose constructor made a table.
LEMMA Scrubbed ==
    ASSUME TypeOK, NEW s \in Servers, Scrub(s), s \in Made
    PROVE  LET q == expiry[s]
               k == PoppedCount(q)
           IN  /\ expiry'[s] = SubSeq(q, k + 1, Len(q))
               /\ current_users'[s] = Erase(s, SubSeq(q, 1, k))
BY DEF Scrub, TypeOK, TableTypeOK

\* A step of one server keeps what the invariant says of its table.
LEMMA ServerTable ==
    ASSUME TypeOK, NEW s \in Servers, Ordered(expiry[s]),
           pc[s] # "undefined" => Covered(current_users[s], expiry[s]),
           ReceiveToken(s) \/ ReceiveFails(s) \/ Scrub(s)
    PROVE  /\ Ordered(expiry'[s])
           /\ pc'[s] # "undefined" => Covered(current_users'[s], expiry'[s])
<1>1. CASE ReceiveToken(s)
  <2>1. PICK kept \in SUBSET net[s], read \in Buffer : Received(s, kept, read)
    BY <1>1, ReceivedSomething
  <2>2. pc[s] = "receive"
    BY <1>1, ReceivedSomething
  <2>3. CASE s \notin Made
    BY <2>1, <2>3 DEF Received, TypeOK, TableTypeOK
  <2>4. CASE s \in Made
    <3> DEFINE entry == IF current_users[s][read.name] = None
                          THEN read.token ELSE current_users[s][read.name]
    <3>1. read.name \in Names
      BY DEF Buffer
    <3>2. /\ expiry'[s] = QueueExpiry(read.name, expiry[s])
          /\ current_users'[s] = [current_users[s] EXCEPT ![read.name] = entry]
      BY <2>1, <2>4 DEF Received, TypeOK, TableTypeOK
    <3> HIDE DEF entry
    <3>3. Covered(current_users[s], expiry[s])
      BY <2>2
    <3> DEFINE users == current_users[s]
               q == expiry[s]
    <3>4. users \in [Names -> Tokens \cup {EmptyToken, None}] /\ q \in Seq(Expiries)
      BY TableTypes
    <3>5. Ordered(q) /\ Covered(users, q)
      BY <3>3
    <3> HIDE DEF users, q
    <3>6. /\ Ordered(QueueExpiry(read.name, q))
          /\ Covered([users EXCEPT ![read.name] = entry], QueueExpiry(read.name, q))
      BY <3>1, <3>4, <3>5, QueueKeeps
    <3> QED BY <3>2, <3>6 DEF users, q
  <2> QED BY <2>3, <2>4
<1>2. CASE ReceiveFails(s)
  BY <1>2 DEF ReceiveFails
<1>3. CASE Scrub(s) /\ s \notin Made
  BY <1>3 DEF Scrub, TypeOK, TableTypeOK
<1>4. CASE Scrub(s) /\ s \in Made
  <2>1. pc[s] = "scrub"
    BY <1>4 DEF Scrub
  <2>2. expiry[s] \in Seq(Expiries) /\ Covered(current_users[s], expiry[s])
    BY <2>1, TableTypes
  <2> DEFINE q == expiry[s]
             k == PoppedCount(q)
             rest == SubSeq(q, k + 1, Len(q))
  <2>3. expiry'[s] = rest /\ current_users'[s] = Erase(s, SubSeq(q, 1, k))
    BY <1>4, Scrubbed
  <2>4. Ordered(rest) /\ Covered(Erase(s, SubSeq(q, 1, k)), rest)
    BY <2>2, ScrubKeeps
  <2> HIDE DEF rest, k, q
  <2> QED BY <2>3, <2>4
<1> QED BY <1>1, <1>2, <1>3, <1>4

\* A step of one server leaves the other's table alone.
LEMMA OtherTable ==
    ASSUME TypeOK, NEW s \in Servers, NEW r \in Servers, r # s,
           ReceiveToken(s) \/ ReceiveFails(s) \/ Scrub(s)
    PROVE  pc'[r] = pc[r] /\ expiry'[r] = expiry[r] /\ current_users'[r] = current_users[r]
<1>1. CASE ReceiveToken(s)
  <2>1. PICK kept \in SUBSET net[s], read \in Buffer : Received(s, kept, read)
    BY <1>1, ReceivedSomething
  <2> QED BY <2>1 DEF Received, TypeOK, TableTypeOK
<1>2. CASE ReceiveFails(s)
  BY <1>2 DEF ReceiveFails, TypeOK, TableTypeOK
<1>3. CASE Scrub(s)
  <2>1. PICK next \in {"receive", "undefined"} : pc' = [pc EXCEPT ![s] = next]
    BY <1>3 DEF Scrub
  <2> QED BY <1>3, <2>1 DEF Scrub, TypeOK, TableTypeOK
<1> QED BY <1>1, <1>2, <1>3

\* Time keeps the order of a queue, and the names in it.
LEMMA TickTable ==
    ASSUME TypeOK, Tick, NEW s \in Servers, Ordered(expiry[s])
    PROVE  /\ Ordered(expiry'[s])
           /\ Covered(current_users[s], expiry[s]) => Covered(current_users'[s], expiry'[s])
<1>1. /\ DOMAIN expiry'[s] = DOMAIN expiry[s]
      /\ \A i \in DOMAIN expiry[s] :
           /\ expiry'[s][i].name = expiry[s][i].name
           /\ expiry'[s][i].left =
                IF expiry[s][i].left < 0 THEN expiry[s][i].left ELSE expiry[s][i].left - 1
  BY TickEntry
<1>2. \A i \in DOMAIN expiry[s] : expiry[s][i].left \in Int
  BY TableTypes
<1>3. DOMAIN expiry[s] \subseteq Int
  BY TableTypes, LenProperties
<1>4. Ordered(expiry'[s])
  <2> SUFFICES ASSUME NEW i \in DOMAIN expiry[s], NEW j \in DOMAIN expiry[s], i < j
               PROVE  expiry'[s][i].left <= expiry'[s][j].left
    BY <1>1 DEF Ordered
  <2>1. expiry[s][i].left <= expiry[s][j].left
    BY DEF Ordered
  <2> QED BY <1>1, <1>2, <2>1
<1>5. current_users'[s] = current_users[s]
  BY DEF Tick
<1> QED BY <1>1, <1>4, <1>5 DEF Covered

----------------------------------------------------------------------------
(* The theorems.                                                           *)

\* Every step keeps the invariant.
LEMMA NextInv == TokenInv /\ [Next]_vars => TokenInv'
<1> SUFFICES ASSUME TokenInv, [Next]_vars PROVE TokenInv' OBVIOUS
<1>1. /\ TypeOK
      /\ \A r \in Servers : Ordered(expiry[r])
      /\ \A r \in Servers : pc[r] # "undefined" => Covered(current_users[r], expiry[r])
  BY InvByTable DEF TokenInv
<1>2. SUFFICES /\ TypeOK'
               /\ \A r \in Servers :
                    /\ Ordered(expiry'[r])
                    /\ pc'[r] # "undefined" => Covered(current_users'[r], expiry'[r])
  <2> DEFINE Tables == /\ \A r \in Servers : pc'[r] # "undefined" =>
                             Covered(current_users'[r], expiry'[r])
                       /\ \A r \in Servers : Ordered(expiry'[r])
  <2>1. Tables => UsersQueued' /\ Sorted'
    BY DEF UsersQueued, Sorted, Covered, Ordered
  <2> QED BY <2>1 DEF TokenInv
<1>3. CASE TableStep
  <2>1. PICK s \in Servers : ReceiveToken(s) \/ ReceiveFails(s) \/ Scrub(s)
    BY <1>3, TableAssumption
       DEF TableStep, ChatServer_update, MatchMaker_update,
           ChatServer_receive_new, ChatServer_scrub_list,
           MatchMaker_receive_new, MatchMaker_scrub_list
  <2>2. TypeOK'
    BY <1>1, <1>3, <2>1, ServerTypes DEF TableStep
  <2>3. \A r \in Servers : r # s =>
          pc'[r] = pc[r] /\ expiry'[r] = expiry[r] /\ current_users'[r] = current_users[r]
    BY <1>1, <2>1, OtherTable
  <2>4. /\ Ordered(expiry'[s])
        /\ pc'[s] # "undefined" => Covered(current_users'[s], expiry'[s])
    BY <1>1, <2>1, ServerTable
  <2> QED BY <1>1, <2>2, <2>3, <2>4
<1>4. CASE \E c \in Children : chat_server_auth(c) \/ match_server_auth(c)
  <2>1. TypeOK' /\ UNCHANGED tableVars
    BY <1>1, <1>4, HandoffTypes
  <2> QED BY <1>1, <2>1 DEF tableVars
<1>5. CASE Tick
  <2>1. TypeOK'
    BY <1>1, <1>5, TickTypes
  <2>2. pc' = pc
    BY <1>5 DEF Tick
  <2> QED BY <1>1, <1>5, <2>1, <2>2, TickTable
<1>6. CASE UNCHANGED vars
  <2>1. TypeOK'
    BY <1>1, <1>6 DEF vars, callVars, tableVars, TypeOK, TableTypeOK
  <2> QED BY <1>1, <1>6, <2>1 DEF vars, tableVars
<1> QED BY <1>3, <1>4, <1>5, <1>6 DEF Next

\* The invariant of the tables holds in every behaviour.
LEMMA TokenInvariant == Spec => []TokenInv
BY InitInv, NextInv, PTL DEF Spec

\* The variables keep their types: an entry of a queue never has longer to live
\* than a new one (ChatServer.cxx:93-101).
THEOREM TokenTypeCorrect == Spec => []TypeOK
BY TokenInvariant, PTL DEF TokenInv

\* Nobody is in the table without an expiry queued (ChatServer.cxx:61-65, 93-101),
\* however many names, datagrams and repeats; when it is looked at is not said.
THEOREM UsersQueuedCorrect == Spec => []UsersQueued
BY TokenInvariant, PTL DEF TokenInv

\* The queue is in the order in which its entries expire, so that scrub_list may
\* stop at the first that has not (ChatServer.cxx:61).
THEOREM SortedCorrect == Spec => []Sorted
BY TokenInvariant, PTL DEF TokenInv

\* A step of scrub_list leaves nobody in the table whose entries have expired.
LEMMA FreshStep ==
    ASSUME TokenInv, [Next]_vars, NEW s \in Servers,
           pc[s] = "scrub", pc'[s] = "receive", NEW n \in Names,
           current_users'[s][n] # None
    PROVE  \E i \in DOMAIN expiry'[s] :
             expiry'[s][i].name = n /\ ~Expired(expiry'[s][i])
<1>1. /\ TypeOK /\ Ordered(expiry[s]) /\ Covered(current_users[s], expiry[s])
  BY InvByTable DEF TokenInv
<1>2. pc' # pc
  BY DEF TokenInv, TypeOK, TableTypeOK
<1>3. ~(UNCHANGED vars) /\ ~Tick
  BY <1>2 DEF vars, tableVars, Tick
<1>4. ~(\E c \in Children : chat_server_auth(c) \/ match_server_auth(c))
  BY <1>1, <1>2, HandoffTypes DEF tableVars
<1>5. PICK r \in Servers : ReceiveToken(r) \/ ReceiveFails(r) \/ Scrub(r)
  BY <1>3, <1>4, TableAssumption
     DEF Next, TableStep, ChatServer_update, MatchMaker_update,
         ChatServer_receive_new, ChatServer_scrub_list,
         MatchMaker_receive_new, MatchMaker_scrub_list
<1>6. r = s
  BY <1>1, <1>5, OtherTable
<1>7. Scrub(s)
  BY <1>5, <1>6 DEF ReceiveToken, ReceiveFails
<1>8. s \in Made
  BY <1>1, <1>7 DEF Scrub, TypeOK, TableTypeOK
<1> DEFINE q == expiry[s]
           k == PoppedCount(q)
           rest == SubSeq(q, k + 1, Len(q))
<1>9. expiry'[s] = rest /\ current_users'[s] = Erase(s, SubSeq(q, 1, k))
  BY <1>1, <1>7, <1>8, Scrubbed
<1>10. q \in Seq(Expiries)
  BY <1>1, TableTypes
<1>11. /\ Covered(Erase(s, SubSeq(q, 1, k)), rest)
       /\ \A i \in DOMAIN rest : ~Expired(rest[i])
  BY <1>1, <1>10, ScrubKeeps
<1> HIDE DEF rest, k, q
<1> QED BY <1>9, <1>11 DEF Covered

\* scrub_list leaves nobody in the table of whom it has not heard within
\* TokenLife, although it stops at the first entry that has not expired
\* (ChatServer.cxx:61-65).
THEOREM FreshAfterScrubCorrect == Spec => FreshAfterScrub
<1>1. TokenInv /\ [Next]_vars =>
        [\A s \in Servers : pc[s] = "scrub" /\ pc'[s] = "receive" =>
           \A n \in Names : current_users'[s][n] # None =>
             \E i \in DOMAIN expiry'[s] :
                 expiry'[s][i].name = n /\ ~Expired(expiry'[s][i])]_vars
  BY FreshStep
<1> QED BY <1>1, TokenInvariant, PTL DEF Spec, FreshAfterScrub

=============================================================================
