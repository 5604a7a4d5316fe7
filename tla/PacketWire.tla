----------------------------- MODULE PacketWire -----------------------------
(***************************************************************************)
(* A packet is serialized into a buffer and taken apart again.             *)
(*                                                                         *)
(* Every class writes its content, then add_header of its layer, which     *)
(* writes the layer's header and calls Packet::add_header with the same    *)
(* pointer.  The readers strip the headers from the tail: deserialize of   *)
(* Packet, of the layer, and of the class.  Nothing in the repository      *)
(* calls them yet, so where the tail of a received packet is (Ends) is the *)
(* caller's: where the last write ends ("header"), which no size function  *)
(* reports, or where get_packet_size says ("packet").  The buffer is used  *)
(* again for the next packet, as the match server does with its own.       *)
(*                                                                         *)
(* A byte is the field it is of: [packet, field, byte], packet 0 being     *)
(* what was in the buffer before the first one.                            *)
(***************************************************************************)
EXTENDS PacketLayout

CONSTANTS Kinds,        \* the classes of packets sent
          Ends,         \* where a receiver takes the tail to be
          MaxPackets    \* bound: the number of packets

ASSUME WireAssumption ==
    /\ Kinds \subseteq AllKinds
    /\ Ends \subseteq {"header", "packet"}
    /\ MaxPackets \in Nat

VARIABLES pc,       \* "idle", "sent", "received", "stripped", "bare", "read"
          kind,     \* class of the current packet
          number,   \* packets so far
          buffer,   \* the bytes at data
          end,      \* the receiver's choice of the tail
          tail,     \* *tail, as an offset from data
          header,   \* what the receiver has of the general header,
          layer,    \*   of the layer's header,
          content   \*   of the content

vars == <<pc, kind, number, buffer, end, tail, header, layer, content>>

----------------------------------------------------------------------------
(* The headers.                                                            *)

\* type is declared, but neither written nor read.
GeneralHeader ==
    <<At("game_ID", 0, 4), At("server_ID", 4, 2), At("sequence_num", 6, 2),
      At("ACK_bitfield", 8, 4)>>

LayerHeader ==
    [protocol |-> <<At("op", 0, 1)>>,
     event    |-> <<At("priority", 0, 1), At("event", 1, 1)>>,
     sync     |-> <<At("priority", 0, 1), At("sync", 1, 1)>>]

LayerReads ==
    [protocol |-> <<At("op", 1, 1)>>,
     event    |-> <<At("priority", 2, 1), At("event", 1, 1)>>,
     sync     |-> <<At("priority", 2, 1), At("sync", 1, 1)>>]

\* The variant in which Protocol_Packet counts only its own header.
HeaderSizeForgetsPacket == [protocol |-> 1, event |-> 2, sync |-> 13]

\* get_header_size of each layer; Sync_Packet declares none and inherits Packet's.
get_header_size == [protocol |-> 1 + 13, event |-> 2 + 13, sync |-> 13]

get_packet_size(k) == Class[k].length + get_header_size[Class[k].layer]

ShiftBy(places, distance) ==
    [i \in DOMAIN places |-> [places[i] EXCEPT !.offset = @ + distance]]

\* The variant in which the general header follows the layer's.
HeaderFollows(k) ==
    LET own == LayerHeader[Class[k].layer]
    IN  ShiftBy(own, Class[k].length)
          \o ShiftBy(GeneralHeader, Class[k].length + Len(own))

\* add_header(data + length) of the layer, then Packet::add_header(tail) at the same place.
add_header(k) ==
    ShiftBy(LayerHeader[Class[k].layer], Class[k].length)
      \o ShiftBy(GeneralHeader, Class[k].length)

Writes(k) == Class[k].writes \o add_header(k)

----------------------------------------------------------------------------
Nothing == <<>>
Foreign == [packet |-> 0, field |-> "none", byte |-> 1]

Bytes(f, width, n) == [b \in 1..width |-> [packet |-> n, field |-> f, byte |-> b]]

\* memcpy of width bytes from t - distance.  Outside the buffer is whatever is there:
\* the byte at data - 1, which a Sync class reads when the tail is the packet's end.
MemAt(t, place) ==
    [b \in 1..place.width |->
        LET i == t - place.offset + b - 1
        IN  IF i \in DOMAIN buffer THEN buffer[i] ELSE Foreign]

\* The fields the places name, each read at its distance from the tail t.
Fields(places, t) ==
    [f \in {p.field : p \in Range(places)} |->
        MemAt(t, CHOOSE p \in Range(places) : p.field = f)]

Init ==
    /\ pc = "idle"
    /\ kind \in Kinds
    /\ number = 0
    /\ buffer = [i \in 0..63 |-> Foreign]
    /\ end \in Ends
    /\ tail = 0
    /\ header = Nothing /\ layer = Nothing /\ content = Nothing

\* serialize of a packet of class k: of several writes of a byte the last one stays.
serialize(k) ==
    /\ pc \in {"idle", "read"}
    /\ number < MaxPackets
    /\ number' = number + 1
    /\ kind' = k
    /\ buffer' =
         [i \in DOMAIN buffer |->
            LET covers == {j \in DOMAIN Writes(k) :
                              /\ Writes(k)[j].offset <= i
                              /\ i < Writes(k)[j].offset + Writes(k)[j].width}
            IN  IF covers = {} THEN buffer[i]
                ELSE LET p == Writes(k)[Max(covers)]
                     IN  Bytes(p.field, p.width, number')[i - p.offset + 1]]
    /\ header' = Nothing /\ layer' = Nothing /\ content' = Nothing
    /\ pc' = "sent"
    /\ UNCHANGED <<end, tail>>

\* The receiver has the bytes and takes their end for the tail.
Receive(e) ==
    /\ pc = "sent"
    /\ end' = e
    /\ tail' = IF e = "packet" THEN get_packet_size(kind) ELSE Class[kind].length + 12
    /\ pc' = "received"
    /\ UNCHANGED <<kind, number, buffer, header, layer, content>>

\* The variant that reads the two short fields in the wrong order.
StripHeaderSwapped ==
    /\ pc = "received"
    /\ header' = Fields(<<At("game_ID", 12, 4), At("sequence_num", 8, 2),
                          At("server_ID", 6, 2), At("ACK_bitfield", 4, 4)>>, tail)
    /\ tail' = tail - 12
    /\ pc' = "stripped"
    /\ UNCHANGED <<kind, number, buffer, end, layer, content>>

\* Packet::deserialize.
StripHeader ==
    /\ pc = "received"
    /\ header' = Fields(<<At("game_ID", 12, 4), At("server_ID", 8, 2),
                          At("sequence_num", 6, 2), At("ACK_bitfield", 4, 4)>>, tail)
    /\ tail' = tail - 12
    /\ pc' = "stripped"
    /\ UNCHANGED <<kind, number, buffer, end, layer, content>>

\* The deserialize of Protocol_Packet, Event_Packet or Sync_Packet.  A receiver that
\* took the tail where the writes end has no bytes left for it.
StripLayer ==
    /\ pc = "stripped"
    /\ end = "packet"
    /\ LET places == LayerReads[Class[kind].layer]
       IN  /\ layer' = Fields(places, tail)
           /\ tail' = tail - Len(places)
    /\ pc' = "bare"
    /\ UNCHANGED <<kind, number, buffer, end, header, content>>

\* The deserialize of the class.
ReadContent ==
    /\ pc = IF end = "packet" THEN "bare" ELSE "stripped"
    /\ content' = Fields(Class[kind].reads, tail)
    /\ pc' = "read"
    /\ UNCHANGED <<kind, number, buffer, end, tail, header, layer>>

Next ==
    \/ \E k \in Kinds : serialize(k)
    \/ \E e \in Ends : Receive(e)
    \/ StripHeader
    \/ StripLayer
    \/ ReadContent

Spec == Init /\ [][Next]_vars

----------------------------------------------------------------------------
(* Properties.                                                             *)

\* The variables have their types; above all, no reader moves the tail in front of
\* the data (the "*tail = *tail - 12" of Packet::deserialize and its likes).  What
\* they copy may lie in front of it all the same, see MemAt.
TypeOK ==
    /\ pc \in {"idle", "sent", "received", "stripped", "bare", "read"}
    /\ kind \in Kinds
    /\ number \in 0..MaxPackets
    /\ DOMAIN buffer = 0..63
    /\ end \in Ends
    /\ tail \in 0..63

\* serialize stays within the size that get_packet_size tells the caller to allocate.
BufferHolds ==
    pc = "sent" =>
      \A i \in DOMAIN buffer :
         i >= get_packet_size(kind) =>
            buffer[i].packet < number

Sent(f, width) == Bytes(f, width, number)

\* The fields that do not come back although the struct has them: I_Minion's y and z
\* are written and read at overlapping places, experience is never written.
Lost(k) == CASE k = "I_Minion" -> {"y", "z"}
             [] k = "G_Primary_Notify" -> {"experience"}
             [] OTHER -> {}

\* With the tail where the last write ends, at length + 12, every other field of every
\* class the Makefile builds is the one this packet was made with: no byte of another
\* field, and none of an earlier packet.  No size function reports that tail; nothing is
\* said of get_packet_size's, from which the content is read one byte late or early.
ContentSurvives ==
    pc = "read" /\ end = "header" =>
      \A f \in DOMAIN Class[kind].content \ Lost(kind) :
         content[f] = Sent(f, Class[kind].content[f])

\* Read from where the last write ends, the general header is that of this packet.
HeaderSurvives ==
    pc \in {"stripped", "read"} /\ end = "header" =>
      \A p \in Range(GeneralHeader) : header[p.field] = Sent(p.field, p.width)

=============================================================================
