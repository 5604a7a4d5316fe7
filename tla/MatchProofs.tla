---------------------------- MODULE MatchProofs ----------------------------
(***************************************************************************)
(* The match server, for a queue of any capacity, packets of any size, any *)
(* number of datagrams and any ratings.                                    *)
(*                                                                         *)
(* What the runs say of the queue follows from what the acceptor's buffer  *)
(* holds when a packet is made of it, and from where the last datagram is: *)
(* in the buffer, in the queue, or with the converter.                     *)
(***************************************************************************)
EXTENDS MatchSystem, SequenceTheorems, TLAPS

\* The bytes of a packet, or of the buffer: those of the last datagram first, and
\* behind them those of longer ones before it, and a zero at the end.
Layered(address, data) ==
    /\ \A i \in Bytes : data[i] <= address
    /\ \A i \in 2..PacketSize : data[i] <= data[i - 1]
    /\ data[PacketSize] = 0

BufferInv == client = received /\ Layered(client, buffer)

QueueInv == \A k \in DOMAIN queue : Layered(queue[k].address, queue[k].data)

\* What is queued is no newer than the last datagram; before that is pushed it is
\* not queued, unless a receive failed.
NotAhead ==
    \A k \in DOMAIN queue :
        /\ queue[k].address <= client
        /\ acceptor = "push" /\ queue[k].address = client => failed

\* The converter is behind the queue, and behind the acceptor.
Behind ==
    /\ current.address <= client
    /\ \A k \in DOMAIN queue : current.address <= queue[k].address

\* In the roster the first client is a weakest one, there is a strongest one, and
\* the rating lies between, as long as there is one.
RosterInv ==
    clients # <<>> =>
        /\ \E i \in DOMAIN clients : \A j \in DOMAIN clients : clients[j] <= clients[i]
        /\ serverELO # Undefined =>
             /\ \A j \in DOMAIN clients : clients[1] <= clients[j]
             /\ clients[1] <= serverELO
             /\ \E i \in DOMAIN clients : serverELO <= clients[i]

PipelineInv ==
    PipelineTypeOK /\ BufferInv /\ QueueInv /\ QueuedInOrder /\ NotAhead /\ Behind

MatchInv == PipelineInv /\ RosterTypeOK /\ RosterInv

----------------------------------------------------------------------------
(* Packets and queues.                                                     *)

\* A queue holds packets, and so does the place of the current one.
LEMMA QueueTypes ==
    ASSUME PipelineTypeOK
    PROVE  /\ queue \in Seq(Packets) /\ Len(queue) \in Nat
           /\ DOMAIN queue = 1..Len(queue)
           /\ \A k \in 1..Len(queue) :
                /\ queue[k] \in Packets /\ queue[k].address \in Nat
                /\ queue[k].data \in [Bytes -> Serials]
           /\ current.address \in Nat
<1>1. queue \in Seq(Packets)
  BY DEF PipelineTypeOK
<1>2. \A k \in 1..Len(queue) : queue[k] \in Packets
  BY <1>1, ElementOfSeq
<1>3. Serials \subseteq Nat
  BY PipelineAssumption DEF Serials
<1>4. \A p \in Packets : p.address \in Nat /\ p.data \in [Bytes -> Serials]
  BY <1>3 DEF Packets
<1>5. Unwritten.address \in Nat
  BY DEF Unwritten
<1>6. current.address \in Nat
  BY <1>4, <1>5 DEF PipelineTypeOK
<1> QED BY <1>1, <1>2, <1>4, <1>6, LenProperties

\* A step of the roster leaves the pipeline as it is.
LEMMA StillInv == PipelineInv /\ UNCHANGED pipelineVars => PipelineInv'
BY DEF PipelineInv, pipelineVars, acceptorVars, converterVars, PipelineTypeOK, BufferInv,
       QueueInv, QueuedInOrder, NotAhead, Behind

\* The packet that is made of the buffer.
LEMMA BuiltPacket ==
    ASSUME PipelineTypeOK
    PROVE  /\ buildpacket \in Packets
           /\ buildpacket.address = client /\ buildpacket.data = buffer
BY DEF PipelineTypeOK, buildpacket, Packets

\* A queue with a packet at its end.
LEMMA PushedQueue ==
    ASSUME PipelineTypeOK, NEW p \in Packets
    PROVE  /\ Append(queue, p) \in Seq(Packets)
           /\ Len(Append(queue, p)) = Len(queue) + 1
           /\ DOMAIN Append(queue, p) = 1..(Len(queue) + 1)
           /\ \A k \in 1..Len(queue) : Append(queue, p)[k] = queue[k]
           /\ Append(queue, p)[Len(queue) + 1] = p
<1>1. queue \in Seq(Packets)
  BY DEF PipelineTypeOK
<1> QED BY <1>1, AppendProperties, LenProperties

\* A queue without its first packet.
LEMMA PoppedQueue ==
    ASSUME PipelineTypeOK, queue # <<>>
    PROVE  /\ Head(queue) = queue[1] /\ Head(queue) \in Packets
           /\ Len(queue) \in Nat \ {0}
           /\ Tail(queue) \in Seq(Packets)
           /\ DOMAIN Tail(queue) = 1..(Len(queue) - 1)
           /\ Len(Tail(queue)) = Len(queue) - 1
           /\ \A k \in 1..(Len(queue) - 1) : Tail(queue)[k] = queue[k + 1]
<1>1. queue \in Seq(Packets)
  BY DEF PipelineTypeOK
<1> QED BY <1>1, HeadTailProperties, LenProperties, EmptySeq, ElementOfSeq

----------------------------------------------------------------------------
(* The initial state.                                                      *)

\* The initial state has the invariant: a buffer of zeros and an empty queue.
LEMMA InitMatchInv == Init => MatchInv
<1> SUFFICES ASSUME Init PROVE MatchInv OBVIOUS
<1> USE DEF Init, PipelineInit, RosterInit
<1>1. 0 \in Serials /\ PacketSize \in Nat \ {0} /\ Capacity \in Nat
  BY PipelineAssumption DEF Serials
<1>2. <<>> \in Seq(Packets) /\ Len(<<>>) = 0 /\ DOMAIN <<>> = {} /\ <<>> \in Seq(Ratings)
  OBVIOUS
<1>3. PipelineTypeOK
  <2>1. /\ buffer \in [Bytes -> Serials]
        /\ fate \in [1..MaxDatagrams -> {"open", "processed", "refused"}]
    BY <1>1
  <2>2. queue \in Seq(Packets) /\ Len(queue) <= Capacity
    BY <1>1, <1>2
  <2> QED BY <1>1, <2>1, <2>2, Zenon DEF PipelineTypeOK
<1>4. BufferInv
  <2>1. \A i \in 1..PacketSize : buffer[i] = 0
    BY DEF Bytes
  <2>2. \A i \in 2..PacketSize : i \in 1..PacketSize /\ i - 1 \in 1..PacketSize
    BY <1>1
  <2> QED BY <1>1, <2>1, <2>2 DEF BufferInv, Layered
<1>5. QueueInv /\ QueuedInOrder /\ NotAhead
  BY <1>2 DEF QueueInv, QueuedInOrder, NotAhead
<1>6. Behind
  BY <1>2 DEF Behind, Unwritten
<1>7. RosterTypeOK /\ RosterInv
  BY <1>2, RosterAssumption DEF RosterTypeOK, RosterInv
<1> QED BY <1>3, <1>4, <1>5, <1>6, <1>7 DEF MatchInv, PipelineInv

----------------------------------------------------------------------------
(* The acceptor.                                                           *)

\* A datagram covers the start of the buffer and leaves its last byte.
LEMMA ReceiveInv ==
    ASSUME PipelineInv, Receive
    PROVE  PipelineInv'
<1> DEFINE newest == received + 1
<1>1. PICK length \in 0..(PacketSize - 1) :
        buffer' = [i \in Bytes |-> IF i <= length THEN newest ELSE buffer[i]]
  BY DEF Receive, ReceiveSize
<1>2. /\ PacketSize \in Nat \ {0} /\ received \in Nat /\ newest \in Serials
      /\ \A i \in Bytes : buffer[i] \in Nat
      /\ client = received /\ Serials \subseteq Nat
  BY PipelineAssumption DEF PipelineInv, PipelineTypeOK, BufferInv, Receive, Serials
<1>3. PipelineTypeOK'
  <2>1. buffer' \in [Bytes -> Serials]
    BY <1>1, <1>2 DEF PipelineInv, PipelineTypeOK
  <2> QED BY <1>2, <2>1 DEF PipelineInv, PipelineTypeOK, Receive, converterVars
<1>4. BufferInv'
  <2>1. client' = newest /\ received' = newest /\ newest \in Nat /\ newest > received
    BY <1>2 DEF Receive
  <2>2. \A i \in 1..PacketSize : buffer[i] <= received
    BY <1>2 DEF PipelineInv, BufferInv, Layered, Bytes
  <2>3. \A i \in Bytes : buffer'[i] <= newest
    BY <1>1, <1>2, <2>1, <2>2 DEF Bytes
  <2>4. \A i \in 2..PacketSize : buffer'[i] <= buffer'[i - 1]
    <3> SUFFICES ASSUME NEW i \in 2..PacketSize PROVE buffer'[i] <= buffer'[i - 1]
      OBVIOUS
    <3>1. i \in Bytes /\ i - 1 \in Bytes /\ buffer[i] <= buffer[i - 1]
      BY <1>2 DEF PipelineInv, BufferInv, Layered, Bytes
    <3> QED BY <1>1, <1>2, <2>1, <2>2, <3>1 DEF Bytes
  <2>5. buffer'[PacketSize] = 0
    <3>1. PacketSize \in Bytes /\ ~(PacketSize <= length)
      BY <1>2 DEF Bytes
    <3> QED BY <1>1, <3>1 DEF PipelineInv, BufferInv, Layered
  <2> QED BY <2>1, <2>3, <2>4, <2>5 DEF BufferInv, Layered
<1>5. queue' = queue /\ current' = current /\ client' = client + 1 /\ failed' = failed
  BY <1>2 DEF Receive, converterVars
<1>6. QueueInv' /\ QueuedInOrder'
  BY <1>5 DEF PipelineInv, QueueInv, QueuedInOrder
<1>7. NotAhead' /\ Behind'
  <2>1. client \in Nat
    BY <1>2
  <2> QED BY <1>5, <2>1, QueueTypes DEF PipelineInv, NotAhead, Behind
<1> QED BY <1>3, <1>4, <1>6, <1>7 DEF PipelineInv

\* After a receive that failed everything is as before, but for what is known of it.
LEMMA ReceiveFailsInv ==
    ASSUME PipelineInv, ReceiveFails
    PROVE  PipelineInv'
<1>1. /\ UNCHANGED <<bound, received, client, buffer, queue, converter, current, fate>>
      /\ failed' = TRUE /\ acceptor' = "push"
  BY DEF ReceiveFails, converterVars
<1>2. PipelineTypeOK'
  BY <1>1 DEF PipelineInv, PipelineTypeOK
<1>3. BufferInv' /\ QueueInv' /\ Behind'
  BY <1>1 DEF PipelineInv, BufferInv, QueueInv, Behind
<1>4. QueuedInOrder' /\ NotAhead'
  BY <1>1 DEF PipelineInv, QueuedInOrder, NotAhead
<1> QED BY <1>2, <1>3, <1>4 DEF PipelineInv

\* What becomes of a datagram keeps its type.
LEMMA SettleType ==
    ASSUME PipelineTypeOK, NEW n, NEW how \in {"processed", "refused"}, Settle(n, how)
    PROVE  fate' \in [1..MaxDatagrams -> {"open", "processed", "refused"}]
BY DEF PipelineTypeOK, Settle

\* The packet that is pushed is the newest, and is layered as the buffer is.
LEMMA PushInv ==
    ASSUME PipelineInv, Push
    PROVE  PipelineInv'
<1>1. /\ UNCHANGED <<bound, received, client, buffer, failed, converter, current>>
      /\ acceptor = "push" /\ acceptor' = "recv"
  BY DEF Push, converterVars
<1>2. PipelineTypeOK
  BY DEF PipelineInv
<1>3. BufferInv'
  BY <1>1 DEF PipelineInv, BufferInv
<1>4. CASE ~(Len(queue) < Capacity)
  <2>1. queue' = queue
    BY <1>4 DEF Push
  <2>2. fate' \in [1..MaxDatagrams -> {"open", "processed", "refused"}]
    BY <1>2, <1>4, SettleType DEF Push
  <2>3. PipelineTypeOK'
    BY <1>1, <2>1, <2>2 DEF PipelineInv, PipelineTypeOK
  <2>4. QueueInv' /\ QueuedInOrder' /\ NotAhead' /\ Behind'
    BY <1>1, <2>1 DEF PipelineInv, QueueInv, QueuedInOrder, NotAhead, Behind
  <2> QED BY <1>3, <2>3, <2>4 DEF PipelineInv
<1>5. CASE Len(queue) < Capacity
  <2> DEFINE n == Len(queue)
             p == buildpacket
  <2>1. queue' = Append(queue, p) /\ fate' = fate
    BY <1>5 DEF Push
  <2>2. p \in Packets /\ p.address = client /\ p.data = buffer
    BY <1>2, BuiltPacket
  <2> HIDE DEF p
  <2>3. /\ queue' \in Seq(Packets) /\ Len(queue') = n + 1 /\ DOMAIN queue' = 1..(n + 1)
        /\ \A k \in 1..n : queue'[k] = queue[k]
        /\ queue'[n + 1] = p
    BY <1>2, <2>1, <2>2, PushedQueue
  <2>4. /\ DOMAIN queue = 1..n /\ n \in Nat /\ client \in Nat /\ current.address \in Nat
        /\ \A k \in 1..n : queue[k].address \in Nat
    BY <1>2, PipelineAssumption, QueueTypes DEF PipelineTypeOK, Serials
  <2> HIDE DEF n
  <2>5. \A k \in DOMAIN queue' : k \in DOMAIN queue \/ k = n + 1
    BY <2>3, <2>4
  <2>6. PipelineTypeOK'
    <3>1. Len(queue') <= Capacity
      BY <1>5, <2>3, <2>4, PipelineAssumption DEF n
    <3> QED BY <1>1, <2>1, <2>3, <3>1 DEF PipelineInv, PipelineTypeOK
  <2>7. QueueInv'
    <3>1. Layered(client, buffer)
      BY DEF PipelineInv, BufferInv
    <3> QED BY <2>2, <2>3, <2>4, <2>5, <3>1 DEF PipelineInv, QueueInv, Layered
  <2>8. QueuedInOrder'
    <3> SUFFICES ASSUME NEW i \in DOMAIN queue', NEW j \in DOMAIN queue', i < j
                 PROVE  /\ queue'[i].address <= queue'[j].address
                        /\ queue'[i].address = queue'[j].address => failed'
      BY DEF QueuedInOrder
    <3>1. i \in 1..n /\ j \in 1..(n + 1)
      BY <2>3, <2>4
    <3>2. CASE j \in 1..n
      BY <1>1, <2>3, <2>4, <3>1, <3>2 DEF PipelineInv, QueuedInOrder
    <3>3. CASE j = n + 1
      BY <1>1, <2>2, <2>3, <2>4, <3>1, <3>3 DEF PipelineInv, NotAhead
    <3> QED BY <2>4, <3>1, <3>2, <3>3
  <2>9. NotAhead' /\ Behind'
    BY <1>1, <2>2, <2>3, <2>4, <2>5 DEF PipelineInv, NotAhead, Behind
  <2> QED BY <1>3, <2>6, <2>7, <2>8, <2>9 DEF PipelineInv
<1> QED BY <1>4, <1>5

----------------------------------------------------------------------------
(* The converter.                                                          *)

\* What is popped is the oldest packet: the others are no older.
LEMMA PopInv ==
    ASSUME PipelineInv, Pop
    PROVE  PipelineInv' /\ current.address <= current'.address
<1>1. UNCHANGED <<bound, received, client, buffer, failed, acceptor, fate>>
  BY DEF Pop, acceptorVars
<1>2. PipelineTypeOK /\ converter' = "process"
  BY DEF PipelineInv, Pop
<1>3. BufferInv'
  BY <1>1 DEF PipelineInv, BufferInv
<1>4. CASE queue = <<>>
  <2>1. queue' = queue /\ current' = current
    BY <1>4 DEF Pop
  <2>2. PipelineTypeOK'
    BY <1>1, <1>2, <2>1 DEF PipelineTypeOK
  <2>3. QueueInv' /\ QueuedInOrder' /\ NotAhead' /\ Behind'
    BY <1>1, <2>1 DEF PipelineInv, QueueInv, QueuedInOrder, NotAhead, Behind
  <2>4. current.address <= current'.address
    BY <1>2, <2>1, QueueTypes
  <2> QED BY <1>3, <2>2, <2>3, <2>4 DEF PipelineInv
<1>5. CASE queue # <<>>
  <2> DEFINE n == Len(queue) - 1
  <2>1. current' = Head(queue) /\ queue' = Tail(queue)
    BY <1>5 DEF Pop
  <2>2. /\ current' = queue[1] /\ current' \in Packets /\ n \in Nat
        /\ queue' \in Seq(Packets) /\ Len(queue') = n /\ DOMAIN queue' = 1..n
        /\ \A k \in 1..n : queue'[k] = queue[k + 1]
    BY <1>2, <1>5, <2>1, PoppedQueue
  <2>3. /\ DOMAIN queue = 1..(n + 1) /\ client \in Nat /\ Len(queue) = n + 1
        /\ \A k \in 1..(n + 1) : queue[k].address \in Nat
    BY <1>2, PipelineAssumption, QueueTypes DEF PipelineTypeOK, Serials
  <2> HIDE DEF n
  <2>4. \A k \in 1..n : k + 1 \in DOMAIN queue /\ 1 < k + 1 /\ 1 \in DOMAIN queue
    BY <2>2, <2>3
  <2>5. PipelineTypeOK'
    <3>1. Len(queue') <= Capacity
      BY <1>2, <2>2, <2>3, PipelineAssumption DEF PipelineTypeOK
    <3> QED BY <1>1, <1>2, <2>2, <3>1 DEF PipelineTypeOK
  <2>6. QueueInv'
    BY <2>2, <2>4 DEF PipelineInv, QueueInv, Layered
  <2>7. QueuedInOrder'
    <3> SUFFICES ASSUME NEW i \in 1..n, NEW j \in 1..n, i < j
                 PROVE  /\ queue'[i].address <= queue'[j].address
                        /\ queue'[i].address = queue'[j].address => failed'
      BY <2>2 DEF QueuedInOrder
    <3>1. i + 1 \in DOMAIN queue /\ j + 1 \in DOMAIN queue /\ i + 1 < j + 1
      BY <2>4
    <3> QED BY <1>1, <2>2, <3>1 DEF PipelineInv, QueuedInOrder
  <2>8. NotAhead'
    BY <1>1, <2>2, <2>4 DEF PipelineInv, NotAhead
  <2>9. Behind'
    <3>1. current'.address <= client'
      BY <1>1, <2>2, <2>3 DEF PipelineInv, NotAhead
    <3>2. \A k \in 1..n : current'.address <= queue'[k].address
      BY <2>2, <2>4 DEF PipelineInv, QueuedInOrder
    <3> QED BY <2>2, <3>1, <3>2 DEF Behind
  <2>10. current.address <= current'.address
    BY <2>2, <2>3 DEF PipelineInv, Behind
  <2> QED BY <1>3, <2>5, <2>6, <2>7, <2>8, <2>9, <2>10 DEF PipelineInv
<1> QED BY <1>4, <1>5

\* Processing a packet leaves everything where it is.
LEMMA ProcessInv ==
    ASSUME PipelineInv, processPacket
    PROVE  PipelineInv' /\ current' = current
<1>1. /\ UNCHANGED <<bound, received, client, buffer, failed, acceptor, queue, current>>
      /\ converter' = "pop"
  BY DEF processPacket, acceptorVars
<1>2. fate' \in [1..MaxDatagrams -> {"open", "processed", "refused"}]
  BY SettleType DEF PipelineInv, processPacket
<1>3. PipelineTypeOK'
  BY <1>1, <1>2 DEF PipelineInv, PipelineTypeOK
<1>4. BufferInv' /\ QueueInv' /\ QueuedInOrder' /\ NotAhead' /\ Behind'
  BY <1>1 DEF PipelineInv, BufferInv, QueueInv, QueuedInOrder, NotAhead, Behind
<1> QED BY <1>1, <1>3, <1>4 DEF PipelineInv

----------------------------------------------------------------------------
(* The roster.                                                             *)

\* The rating moves towards a client who is no weaker, and not past it.
LEMMA MovesTowards ==
    ASSUME NEW old \in Int, NEW new \in Int, old <= new, NEW size \in Nat \ {0}
    PROVE  /\ old + (new - old) \div size \in Int
           /\ old <= old + (new - old) \div size
           /\ old + (new - old) \div size <= new
<1> DEFINE d == new - old
           share == d \div size
<1>1. d \in Nat
  OBVIOUS
<1>2. share \in Int /\ 0 <= share /\ share <= d
  BY <1>1
<1> HIDE DEF share
<1> QED BY <1>2

\* A client with its rating at the end of the roster.
LEMMA LongerRoster ==
    ASSUME RosterTypeOK, NEW rating \in Ratings
    PROVE  /\ Append(clients, rating) \in Seq(Ratings)
           /\ Len(clients) \in Nat /\ DOMAIN clients = 1..Len(clients)
           /\ Len(Append(clients, rating)) = Len(clients) + 1
           /\ DOMAIN Append(clients, rating) = 1..(Len(clients) + 1)
           /\ \A i \in 1..Len(clients) :
                Append(clients, rating)[i] = clients[i] /\ clients[i] \in Int
           /\ Append(clients, rating)[Len(clients) + 1] = rating
           /\ rating \in Int
<1>1. clients \in Seq(Ratings) /\ Ratings \subseteq Int
  BY RosterAssumption DEF RosterTypeOK
<1>2. \A i \in 1..Len(clients) : clients[i] \in Int
  BY <1>1, ElementOfSeq
<1> QED BY <1>1, <1>2, AppendProperties, LenProperties

\* A client who is let in is no weaker than the first, or leaves no rating.
LEMMA AddClientInv ==
    ASSUME RosterTypeOK, RosterInv, NEW rating \in Ratings, addClient(rating)
    PROVE  RosterTypeOK' /\ RosterInv'
<1>1. CASE Len(clients) = CLIENTSPERSERVER
  <2>1. clients' = clients /\ serverELO' = serverELO
    BY <1>1 DEF addClient, rosterVars
  <2> QED BY <2>1 DEF RosterTypeOK, RosterInv
<1>2. CASE Len(clients) # CLIENTSPERSERVER
  <2> DEFINE n == Len(clients)
             elo == recalculateELO(rating, n + 1)
  <2>1. clients' = Append(clients, rating) /\ serverELO' = elo
    BY <1>2 DEF addClient
  <2>2. /\ clients' \in Seq(Ratings) /\ n \in Nat /\ rating \in Int
        /\ DOMAIN clients = 1..n /\ Len(clients') = n + 1 /\ DOMAIN clients' = 1..(n + 1)
        /\ \A i \in 1..n : clients'[i] = clients[i] /\ clients[i] \in Int
        /\ clients'[n + 1] = rating
    BY <2>1, LongerRoster
  <2>3. n + 1 <= CLIENTSPERSERVER
    <3>1. n <= CLIENTSPERSERVER /\ n # CLIENTSPERSERVER /\ CLIENTSPERSERVER \in Nat
      BY <1>2, RosterAssumption DEF RosterTypeOK
    <3>2. n \in Nat
      BY <2>2
    <3> HIDE DEF n
    <3> QED BY <3>1, <3>2
  <2>4. n # 0 => clients # <<>>
    BY <2>2
  <2>5. serverELO \in Int \cup {Undefined} /\ Undefined \notin Int
    BY RosterAssumption DEF RosterTypeOK
  <2> HIDE DEF n
  <2>6. CASE n = 0
    <3>1. elo = rating
      BY <2>6 DEF recalculateELO
    <3>2. DOMAIN clients' = {1} /\ clients'[1] = rating
      BY <2>2, <2>6
    <3>3. RosterTypeOK'
      BY <2>1, <2>2, <2>3, <3>1 DEF RosterTypeOK
    <3>4. serverELO' = rating /\ rating <= rating
      BY <2>1, <2>2, <3>1
    <3> HIDE DEF elo
    <3> QED BY <3>2, <3>3, <3>4 DEF RosterInv
  <2>7. CASE n # 0
    <3>1. n + 1 # 1 /\ n + 1 \in Nat \ {0} /\ 1 \in 1..n
      BY <2>2, <2>7
    <3>2. /\ elo = Undefined
          \/ /\ serverELO \in Int /\ serverELO <= rating
             /\ elo \in Int /\ serverELO <= elo /\ elo <= rating
      <4>1. CASE serverELO = Undefined \/ rating < serverELO
        BY <3>1, <4>1 DEF recalculateELO
      <4>2. CASE ~(serverELO = Undefined \/ rating < serverELO)
        <5>1. elo = serverELO + (rating - serverELO) \div (n + 1)
          BY <3>1, <4>2 DEF recalculateELO
        <5>2. serverELO \in Int /\ serverELO <= rating
          BY <2>2, <2>5, <4>2
        <5> HIDE DEF elo
        <5> QED BY <2>2, <3>1, <5>1, <5>2, MovesTowards
      <4> QED BY <4>1, <4>2
    <3> HIDE DEF elo
    <3>3. RosterTypeOK'
      BY <2>1, <2>2, <2>3, <3>2 DEF RosterTypeOK
    <3>4. \A j \in DOMAIN clients' : j \in 1..n \/ j = n + 1
      BY <2>2
    <3>5. \E i \in DOMAIN clients' : \A j \in DOMAIN clients' : clients'[j] <= clients'[i]
      <4>1. PICK i \in 1..n : \A j \in 1..n : clients[j] <= clients[i]
        BY <2>2, <2>4, <2>7 DEF RosterInv
      <4>2. /\ clients[i] \in Int /\ rating \in Int
            /\ i \in DOMAIN clients' /\ n + 1 \in DOMAIN clients'
            /\ clients'[i] = clients[i] /\ clients'[n + 1] = rating
        BY <2>2
      <4>3. CASE rating <= clients[i]
        <5>1. \A j \in DOMAIN clients' : clients'[j] <= clients'[i]
          BY <2>2, <3>4, <4>1, <4>2, <4>3
        <5> QED BY <4>2, <5>1
      <4>4. CASE clients[i] <= rating
        <5>1. \A j \in 1..n : clients'[j] <= rating
          BY <2>2, <4>1, <4>2, <4>4
        <5>2. \A j \in DOMAIN clients' : clients'[j] <= clients'[n + 1]
          BY <3>4, <4>2, <5>1
        <5> QED BY <4>2, <5>2
      <4> QED BY <4>2, <4>3, <4>4
    <3>6. serverELO' # Undefined =>
            /\ \A j \in DOMAIN clients' : clients'[1] <= clients'[j]
            /\ clients'[1] <= serverELO'
            /\ \E i \in DOMAIN clients' : serverELO' <= clients'[i]
      <4> SUFFICES ASSUME serverELO' # Undefined
                   PROVE  /\ \A j \in DOMAIN clients' : clients'[1] <= clients'[j]
                          /\ clients'[1] <= serverELO'
                          /\ \E i \in DOMAIN clients' : serverELO' <= clients'[i]
        OBVIOUS
      <4>1. /\ serverELO \in Int /\ serverELO <= rating
            /\ serverELO' \in Int /\ serverELO <= serverELO' /\ serverELO' <= rating
        BY <2>1, <3>2
      <4>2. /\ \A j \in 1..n : clients[1] <= clients[j]
            /\ clients[1] <= serverELO
        BY <2>2, <2>4, <2>5, <2>7, <4>1 DEF RosterInv
      <4>3. clients'[1] = clients[1] /\ clients[1] \in Int
        BY <2>2, <3>1
      <4>4. clients[1] <= rating /\ clients[1] <= serverELO'
        BY <2>2, <4>1, <4>2, <4>3
      <4>5. \A j \in DOMAIN clients' : clients'[1] <= clients'[j]
        BY <2>2, <3>4, <4>2, <4>3, <4>4
      <4>6. n + 1 \in DOMAIN clients' /\ serverELO' <= clients'[n + 1]
        BY <2>2, <4>1
      <4> QED BY <4>3, <4>4, <4>5, <4>6
    <3> QED BY <3>3, <3>5, <3>6 DEF RosterInv
  <2> QED BY <2>6, <2>7
<1> QED BY <1>1, <1>2

----------------------------------------------------------------------------
(* The theorems.                                                           *)

\* Every step keeps the invariant, and the converter never goes back.
LEMMA NextMatchInv ==
    ASSUME MatchInv, [Next]_vars
    PROVE  MatchInv' /\ current.address <= current'.address
<1>1. PipelineInv /\ RosterTypeOK /\ RosterInv /\ current.address <= current.address
  BY QueueTypes DEF MatchInv, PipelineInv
<1>2. CASE AcceptorStep
  <2>1. clients' = clients /\ serverELO' = serverELO /\ current' = current
    BY <1>2 DEF AcceptorStep, rosterVars, startReceiving, Receive, ReceiveFails, Push,
                converterVars
  <2>2. PipelineInv'
    BY <1>1, <1>2, ReceiveInv, ReceiveFailsInv, PushInv DEF AcceptorStep, startReceiving
  <2> QED BY <1>1, <2>1, <2>2 DEF MatchInv, RosterTypeOK, RosterInv
<1>3. CASE ConverterStep
  <2>1. clients' = clients /\ serverELO' = serverELO
    BY <1>3 DEF ConverterStep, rosterVars
  <2>2. PipelineInv' /\ current.address <= current'.address
    BY <1>1, <1>3, PopInv, ProcessInv DEF ConverterStep, convert
  <2> QED BY <1>1, <2>1, <2>2 DEF MatchInv, RosterTypeOK, RosterInv
<1>4. CASE RosterStep
  <2>1. PICK rating \in Ratings : addClient(rating) /\ UNCHANGED pipelineVars
    BY <1>4 DEF RosterStep
  <2>2. RosterTypeOK' /\ RosterInv'
    BY <1>1, <2>1, AddClientInv
  <2>3. UNCHANGED pipelineVars
    BY <2>1
  <2>4. current' = current
    BY <2>3 DEF pipelineVars, converterVars
  <2>5. PipelineInv'
    BY <1>1, <2>3, StillInv
  <2> QED BY <1>1, <2>2, <2>4, <2>5 DEF MatchInv
<1>5. CASE UNCHANGED vars
  <2>1. UNCHANGED pipelineVars /\ clients' = clients /\ serverELO' = serverELO
    BY <1>5 DEF vars, rosterVars
  <2>2. current' = current
    BY <2>1 DEF pipelineVars, converterVars
  <2>3. PipelineInv'
    BY <1>1, <2>1, StillInv
  <2>4. RosterTypeOK' /\ RosterInv'
    BY <1>1, <2>1 DEF RosterTypeOK, RosterInv
  <2> QED BY <1>1, <2>2, <2>3, <2>4 DEF MatchInv
<1> QED BY <1>2, <1>3, <1>4, <1>5 DEF Next

\* The invariant holds in every behaviour.
LEMMA MatchInvariant == Spec => []MatchInv
BY InitMatchInv, NextMatchInv, PTL DEF Spec

\* The variables keep their types: the queue and the roster stay within their
\* bounds (Acceptor.cxx:84, MatchServer.cxx:20-33).
THEOREM MatchTypeCorrect == Spec => []TypeOK
<1>1. MatchInv => TypeOK
  BY DEF MatchInv, PipelineInv, TypeOK
<1> QED BY <1>1, MatchInvariant, PTL

\* A packet holds the bytes of the datagram its address belongs to, and behind
\* them those that longer ones before it left (Acceptor.cxx:74-84).
THEOREM NewestFirstCorrect == Spec => []NewestFirst
<1>1. MatchInv => NewestFirst
  <2>1. 1 \in Bytes
    BY PipelineAssumption DEF Bytes
  <2> QED BY <2>1 DEF MatchInv, PipelineInv, QueueInv, Layered, NewestFirst
<1> QED BY <1>1, MatchInvariant, PTL

\* Printing a packet as a string stops within it (Acceptor.cxx:78, 86), whatever
\* the size of the buffer and of the datagrams.
THEOREM TerminatedCorrect == Spec => []Terminated
<1>1. MatchInv => Terminated
  BY DEF MatchInv, PipelineInv, QueueInv, Layered, Terminated
<1> QED BY <1>1, MatchInvariant, PTL

\* Packets are queued in the order of arrival, and once as long as no receive
\* fails (Acceptor.cxx:79-84).
THEOREM QueuedInOrderCorrect == Spec => []QueuedInOrder
<1>1. MatchInv => QueuedInOrder
  BY DEF MatchInv, PipelineInv
<1> QED BY <1>1, MatchInvariant, PTL

\* The converter never goes back to an earlier packet, although it processes what
\* it has again whenever the queue is empty (Converter.cxx:21-22).
THEOREM NeverGoesBackCorrect == Spec => NeverGoesBack
<1>1. MatchInv /\ [Next]_vars => [current.address <= current'.address]_pipelineVars
  BY NextMatchInv
<1> QED BY <1>1, MatchInvariant, PTL DEF Spec, NeverGoesBack

\* As long as the rating of a roster is defined it lies between the weakest and
\* the strongest client (MatchServer.cxx:35-47), for any ratings and any size.
THEOREM RatingWithinCorrect == Spec => []RatingWithin
<1>1. MatchInv => RatingWithin
  <2> SUFFICES ASSUME MatchInv, clients # <<>>, serverELO # Undefined
               PROVE  /\ Lowest(clients) <= serverELO /\ serverELO <= Highest(clients)
                      /\ \A i \in DOMAIN clients : clients[1] <= clients[i]
    BY DEF RatingWithin
  <2> DEFINE ratings == {clients[i] : i \in DOMAIN clients}
  <2>1. /\ \A j \in DOMAIN clients : clients[1] <= clients[j]
        /\ clients[1] <= serverELO
        /\ \E i \in DOMAIN clients : serverELO <= clients[i]
        /\ \E i \in DOMAIN clients : \A j \in DOMAIN clients : clients[j] <= clients[i]
    BY DEF MatchInv, RosterInv
  <2>2. /\ clients \in Seq(Ratings) /\ DOMAIN clients = 1..Len(clients)
        /\ Len(clients) \in Nat \ {0} /\ serverELO \in Int
    <3>1. clients \in Seq(Ratings) /\ serverELO \in Int
      BY DEF MatchInv, RosterTypeOK
    <3> QED BY <3>1, LenProperties, EmptySeq
  <2>3. \A i \in DOMAIN clients : clients[i] \in Int
    <3>1. \A i \in 1..Len(clients) : clients[i] \in Ratings
      BY <2>2, ElementOfSeq
    <3> QED BY <2>2, <3>1, RosterAssumption
  <2>4. 1 \in DOMAIN clients
    BY <2>2
  <2>5. ratings \subseteq Int /\ clients[1] \in ratings
    BY <2>3, <2>4
  <2>6. \A y \in ratings : clients[1] <= y
    BY <2>1
  <2>7. Min(ratings) \in ratings /\ \A y \in ratings : Min(ratings) <= y
    BY <2>5, <2>6 DEF Min
  <2>8. Max(ratings) \in ratings /\ \A y \in ratings : Max(ratings) >= y
    <3>1. \E x \in ratings : \A y \in ratings : x >= y
      BY <2>1, <2>3
    <3> QED BY <3>1 DEF Max
  <2>9. Lowest(clients) = Min(ratings) /\ Highest(clients) = Max(ratings)
    BY DEF Lowest, Highest
  <2>10. PICK i \in DOMAIN clients : serverELO <= clients[i]
    BY <2>1
  <2>11. clients[i] \in ratings
    OBVIOUS
  <2> HIDE DEF ratings
  <2>12. Min(ratings) <= serverELO /\ serverELO <= Max(ratings)
    <3>1. Min(ratings) \in Int /\ Max(ratings) \in Int
      BY <2>5, <2>7, <2>8
    <3>2. clients[1] \in Int /\ clients[i] \in Int
      BY <2>3, <2>4
    <3>3. Min(ratings) <= clients[1] /\ Max(ratings) >= clients[i]
      BY <2>5, <2>7, <2>8, <2>11
    <3> QED BY <2>1, <2>2, <2>10, <3>1, <3>2, <3>3
  <2> QED BY <2>1, <2>9, <2>12
<1> QED BY <1>1, MatchInvariant, PTL

=============================================================================
