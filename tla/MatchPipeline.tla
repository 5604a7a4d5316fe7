--------------------------- MODULE MatchPipeline ---------------------------
(***************************************************************************)
(* The match server's two threads and the queue between them.  The         *)
(* acceptor reads a datagram into its buffer and pushes a copy; the        *)
(* converter pops a packet and reads its code.  Neither looks at what push *)
(* and pop return, the buffer is never cleared, and after a receive that   *)
(* failed the acceptor goes on as after one that did not.                  *)
(*                                                                         *)
(* A byte is the number of the datagram it came from: 0 for the zeros the  *)
(* buffer starts with, -1 for memory nobody wrote.  An address is the      *)
(* number of the datagram whose sender it is.                              *)
(***************************************************************************)
EXTENDS Integers, Sequences, FiniteSets

CONSTANTS
    Capacity,       \* 2000, the capacity of the queue
    PacketSize,     \* MAXPACKETSIZE
    MaxDatagrams,   \* bound: datagrams that clients send
    Faults          \* BOOLEAN: recvfrom may fail on a socket that is set up

ASSUME PipelineAssumption ==
    /\ Capacity \in Nat \ {0} /\ PacketSize \in Nat \ {0}
    /\ MaxDatagrams \in Nat /\ Faults \in BOOLEAN

VARIABLES
    bound,      \* BOOLEAN: setup succeeded; the launcher does not ask
    received,   \* datagrams read so far
    acceptor,   \* recv or push
    client,     \* currentClient, the address of the last datagram
    buffer,     \* the acceptor's buffer
    queue,      \* converter_queue
    converter,  \* pop or process
    current,    \* currentPacket
    failed,     \* BOOLEAN: a receive failed
    fate        \* per datagram: what became of its packet first

acceptorVars  == <<received, acceptor, client, buffer, failed>>
converterVars == <<converter, current>>
pipelineVars  == <<bound, acceptorVars, queue, converterVars, fate>>

Bytes   == 1..PacketSize
Serials == 0..MaxDatagrams
Packets == [address : Serials, data : [Bytes -> Serials]]
Unwritten == [address |-> 0, data |-> [i \in Bytes |-> -1]]

PipelineTypeOK ==
    /\ bound \in BOOLEAN /\ failed \in BOOLEAN
    /\ received \in Serials /\ client \in Serials
    /\ acceptor \in {"recv", "push"} /\ converter \in {"pop", "process"}
    /\ buffer \in [Bytes -> Serials]
    /\ queue \in Seq(Packets) /\ Len(queue) <= Capacity
    /\ current \in Packets \cup {Unwritten}
    /\ fate \in [1..MaxDatagrams -> {"open", "processed", "refused"}]

PipelineInit ==
    /\ bound \in BOOLEAN /\ failed = FALSE
    /\ received = 0 /\ client = 0
    /\ acceptor = "recv" /\ converter = "pop"
    /\ buffer = [i \in Bytes |-> 0]
    /\ queue = <<>>
    /\ current = Unwritten
    /\ fate = [n \in 1..MaxDatagrams |-> "open"]

\* What becomes of a datagram first; address 0 is nobody's.
Settle(n, how) ==
    fate' = [k \in DOMAIN fate |-> IF k = n /\ fate[k] = "open" THEN how ELSE fate[k]]

----------------------------------------------------------------------------
(* Acceptor::startReceiving.                                               *)

\* The variant that lets recvfrom fill the whole buffer.
WholeBuffer == PacketSize

\* recvfrom is given MAXPACKETSIZE - 1.
ReceiveSize == PacketSize - 1

\* The variant that does not ask recvfrom for the sender.
ReceiveNameless ==
    /\ acceptor = "recv" /\ bound /\ received < MaxDatagrams
    /\ received' = received + 1
    /\ \E length \in 0..ReceiveSize :
         buffer' = [i \in Bytes |-> IF i <= length THEN received + 1 ELSE buffer[i]]
    /\ acceptor' = "push"
    /\ UNCHANGED <<bound, client, queue, converterVars, failed, fate>>

\* A datagram of any length, the empty one included, covers the start of the
\* buffer; the rest stays.
Receive ==
    /\ acceptor = "recv" /\ bound /\ received < MaxDatagrams
    /\ received' = received + 1 /\ client' = received + 1
    /\ \E length \in 0..ReceiveSize :
         buffer' = [i \in Bytes |-> IF i <= length THEN received + 1 ELSE buffer[i]]
    /\ acceptor' = "push"
    /\ UNCHANGED <<bound, queue, converterVars, failed, fate>>

ReceiveFails ==
    /\ acceptor = "recv" /\ (Faults \/ ~bound)
    /\ failed' = TRUE
    /\ acceptor' = "push"
    /\ UNCHANGED <<bound, received, client, buffer, queue, converterVars, fate>>

buildpacket == [address |-> client, data |-> buffer]

\* The variant that puts the packet where the converter takes it next.
PushInFront ==
    /\ acceptor = "push"
    /\ IF Len(queue) < Capacity
         THEN queue' = <<buildpacket>> \o queue /\ UNCHANGED fate
         ELSE Settle(client, "refused") /\ UNCHANGED queue
    /\ acceptor' = "recv"
    /\ UNCHANGED <<bound, received, client, buffer, failed, converterVars>>

\* push refuses a packet when the queue is full; nobody notices.
Push ==
    /\ acceptor = "push"
    /\ IF Len(queue) < Capacity
         THEN queue' = Append(queue, buildpacket) /\ UNCHANGED fate
         ELSE Settle(client, "refused") /\ UNCHANGED queue
    /\ acceptor' = "recv"
    /\ UNCHANGED <<bound, received, client, buffer, failed, converterVars>>

startReceiving == Receive \/ ReceiveFails \/ Push

----------------------------------------------------------------------------
(* Converter::convert.                                                     *)

\* The variant that empties the queue and keeps the last packet.
PopAll ==
    /\ converter = "pop"
    /\ current' = IF queue = <<>> THEN current ELSE queue[Len(queue)]
    /\ queue' = <<>>
    /\ converter' = "process"
    /\ UNCHANGED <<bound, acceptorVars, fate>>

\* pop leaves the packet alone when the queue is empty; nobody notices.
Pop ==
    /\ converter = "pop"
    /\ IF queue = <<>> THEN UNCHANGED <<queue, current>>
                       ELSE current' = Head(queue) /\ queue' = Tail(queue)
    /\ converter' = "process"
    /\ UNCHANGED <<bound, acceptorVars, fate>>

processPacket ==
    /\ converter = "process"
    /\ Settle(current.address, "processed")
    /\ converter' = "pop"
    /\ UNCHANGED <<bound, acceptorVars, queue, current>>

convert == Pop \/ processPacket

----------------------------------------------------------------------------

\* What was written to a packet: the datagram its address belongs to, and after
\* it what longer datagrams before it left (74, 78): no byte is newer than the
\* bytes before it, or than the address.
NewestFirst ==
    \A k \in DOMAIN queue :
        /\ queue[k].data[1] <= queue[k].address
        /\ \A i \in 2..PacketSize : queue[k].data[i] <= queue[k].data[i - 1]

\* The last byte of every packet is the zero the buffer started with, so that
\* printing it as a string (86) stops within it.
Terminated == \A k \in DOMAIN queue : queue[k].data[PacketSize] = 0

\* A datagram is queued once and in the order of arrival, until a receive fails
\* (79-84): from then on packets repeat, but are not out of order.
QueuedInOrder ==
    \A i, j \in DOMAIN queue : i < j =>
        /\ queue[i].address <= queue[j].address
        /\ queue[i].address = queue[j].address => failed

\* The converter, who processes a packet again whenever it finds the queue
\* empty (21-22), never goes back to an earlier one.
NeverGoesBack == [][current.address <= current'.address]_pipelineVars

\* A datagram that was read is processed, unless its packet was refused:
\* ignoring what push returns (84) is the only way to lose one.
EachProcessed ==
    \A n \in 1..MaxDatagrams : (received >= n) ~> fate[n] # "open"

=============================================================================
