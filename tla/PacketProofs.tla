---------------------------- MODULE PacketProofs ----------------------------
(***************************************************************************)
(* Packets through a buffer, for any set of the classes, any choice of the *)
(* tail and any number of packets.                                         *)
(*                                                                         *)
(* The layouts are settled class by class: the writes of a class stay      *)
(* within its content, and each of its fields has a write that no later    *)
(* one covers, at the distance from the end of the content at which it is  *)
(* read.  What the last write of a byte puts there stays until the next    *)
(* packet, so a reader that stands where it should finds it.               *)
(***************************************************************************)
EXTENDS PacketWire, WellFoundedInduction, SequenceTheorems, TLAPS

----------------------------------------------------------------------------
(* The layouts.                                                            *)

\* Two places have no byte in common.
Apart(p, q) == p.offset + p.width <= q.offset \/ q.offset + q.width <= p.offset

\* A sequence, of whatever it holds.
Proper(s) == s \in Seq(Range(s))

\* The writes of a class stay within its content.
WritesInside(c) ==
    /\ c.length \in 1..46
    /\ c.layer \in {"protocol", "event", "sync"}
    /\ Proper(c.writes)
    /\ \A j \in DOMAIN c.writes :
         /\ c.writes[j].offset \in Nat /\ c.writes[j].width \in Nat
         /\ c.writes[j].offset + c.writes[j].width <= c.length

\* A field is written where no later write covers it, and read where it was
\* written.
FieldReadBack(c, f) ==
    /\ \E r \in Range(c.reads) : r.field = f
    /\ \E j \in DOMAIN c.writes :
         /\ c.writes[j].field = f /\ c.writes[j].width = c.content[f]
         /\ \A i \in DOMAIN c.writes : j < i => Apart(c.writes[j], c.writes[i])
         /\ \A r \in Range(c.reads) :
              r.field = f => /\ c.length - r.offset = c.writes[j].offset
                             /\ r.width = c.content[f]

ReadBack(c, lost) == \A f \in DOMAIN c.content \ lost : FieldReadBack(c, f)

\* C_Ping_Packet: its writes stay within its content.
LEMMA C_PingInside == WritesInside(C_Ping)
BY DEF WritesInside, Proper, Range, C_Ping, At

\* C_SYN_Packet: its writes stay within its content.
LEMMA C_SYNInside == WritesInside(C_SYN)
BY DEF WritesInside, Proper, Range, C_SYN, At

\* G_Auto_Notify_Packet: its writes stay within its content.
LEMMA G_Auto_NotifyInside == WritesInside(G_Auto_Notify)
BY DEF WritesInside, Proper, Range, G_Auto_Notify, At

\* G_Auto_Request_Packet: its writes stay within its content.
LEMMA G_Auto_RequestInside == WritesInside(G_Auto_Request)
BY DEF WritesInside, Proper, Range, G_Auto_Request, At

\* G_Move_Notify_Packet: its writes stay within its content.
LEMMA G_Move_NotifyInside == WritesInside(G_Move_Notify)
BY DEF WritesInside, Proper, Range, G_Move_Notify, At

\* G_Move_Request_Packet: its writes stay within its content.
LEMMA G_Move_RequestInside == WritesInside(G_Move_Request)
BY DEF WritesInside, Proper, Range, G_Move_Request, At

\* G_Ping_Packet: its writes stay within its content.
LEMMA G_PingInside == WritesInside(G_Ping)
BY DEF WritesInside, Proper, Range, G_Ping, At

\* G_Primary_Notify_Packet: its writes stay within its content.
LEMMA G_Primary_NotifyInside == WritesInside(G_Primary_Notify)
BY DEF WritesInside, Proper, Range, G_Primary_Notify, At

\* G_Primary_Request_Packet: its writes stay within its content.
LEMMA G_Primary_RequestInside == WritesInside(G_Primary_Request)
BY DEF WritesInside, Proper, Range, G_Primary_Request, At

\* I_Auto_Packet: its writes stay within its content.
LEMMA I_AutoInside == WritesInside(I_Auto)
BY DEF WritesInside, Proper, Range, I_Auto, At

\* I_LastHit_Packet: its writes stay within its content.
LEMMA I_LastHitInside == WritesInside(I_LastHit)
BY DEF WritesInside, Proper, Range, I_LastHit, At

\* I_Local_Player_Packet: its writes stay within its content.
LEMMA I_Local_PlayerInside == WritesInside(I_Local_Player)
BY DEF WritesInside, Proper, Range, I_Local_Player, At

\* I_Minion_Packet: its writes stay within its content.
LEMMA I_MinionInside == WritesInside(I_Minion)
BY DEF WritesInside, Proper, Range, I_Minion, At

\* I_Objective_Packet: its writes stay within its content.
LEMMA I_ObjectiveInside == WritesInside(I_Objective)
BY DEF WritesInside, Proper, Range, I_Objective, At

\* C_Ping_Packet: every field is read where it was written.
LEMMA C_PingBack == ReadBack(C_Ping, {})
BY DEF ReadBack, FieldReadBack, Apart, Range, C_Ping, c_ping, At

\* C_SYN_Packet: every field is read where it was written.
LEMMA C_SYNBack == ReadBack(C_SYN, {})
BY DEF ReadBack, FieldReadBack, Apart, Range, C_SYN, syn_request, At

\* G_Auto_Notify_Packet: every field is read where it was written.
LEMMA G_Auto_NotifyBack == ReadBack(G_Auto_Notify, {})
BY DEF ReadBack, FieldReadBack, Apart, Range, G_Auto_Notify, auto_notify, At

\* G_Auto_Request_Packet: every field is read where it was written.
LEMMA G_Auto_RequestBack == ReadBack(G_Auto_Request, {})
BY DEF ReadBack, FieldReadBack, Apart, Range, G_Auto_Request, auto_request, At

\* G_Move_Notify_Packet: every field is read where it was written.
LEMMA G_Move_NotifyBack == ReadBack(G_Move_Notify, {})
BY DEF ReadBack, FieldReadBack, Apart, Range, G_Move_Notify, move_notify, At

\* G_Move_Request_Packet: every field is read where it was written.
LEMMA G_Move_RequestBack == ReadBack(G_Move_Request, {})
BY DEF ReadBack, FieldReadBack, Apart, Range, G_Move_Request, move_request, At

\* G_Ping_Packet: every field is read where it was written.
LEMMA G_PingBack == ReadBack(G_Ping, {})
BY DEF ReadBack, FieldReadBack, Apart, Range, G_Ping, g_ping, At

\* G_Primary_Notify_Packet: every field but experience is read where it was written.
LEMMA G_Primary_NotifyBack == ReadBack(G_Primary_Notify, {"experience"})
BY SMTT(30) DEF ReadBack, FieldReadBack, Apart, Range, G_Primary_Notify, primary_notify, At

\* G_Primary_Request_Packet: every field is read where it was written.
LEMMA G_Primary_RequestBack == ReadBack(G_Primary_Request, {})
BY SMTT(30) DEF ReadBack, FieldReadBack, Apart, Range, G_Primary_Request, primary_request, At

\* I_Auto_Packet: every field is read where it was written.
LEMMA I_AutoBack == ReadBack(I_Auto, {})
BY SMTT(30) DEF ReadBack, FieldReadBack, Apart, Range, I_Auto, auto_update, At

\* I_LastHit_Packet: every field is read where it was written.
LEMMA I_LastHitBack == ReadBack(I_LastHit, {})
BY DEF ReadBack, FieldReadBack, Apart, Range, I_LastHit, lasthit_update, At

\* I_Local_Player_Packet: every field is read where it was written.
LEMMA I_Local_PlayerBack == ReadBack(I_Local_Player, {})
<1> DEFINE c == I_Local_Player
<1>1. \A f \in DOMAIN c.content : \E r \in Range(c.reads) : r.field = f
  BY DEF Range, I_Local_Player, player_update, At
<1>2. \A f \in DOMAIN c.content : \E j \in DOMAIN c.writes : c.writes[j].field = f
  BY DEF I_Local_Player, player_update, At
<1>3. \A j \in DOMAIN c.writes : c.writes[j].width = c.content[c.writes[j].field]
  BY DEF I_Local_Player, player_update, At
<1>4. \A j \in DOMAIN c.writes : \A i \in DOMAIN c.writes : j < i => Apart(c.writes[j], c.writes[i])
  BY DEF Apart, I_Local_Player, At
<1>5. \A i \in DOMAIN c.reads :
         \E j \in DOMAIN c.writes :
           /\ c.reads[i].field = c.writes[j].field
           /\ c.length - c.reads[i].offset = c.writes[j].offset
           /\ c.reads[i].width = c.writes[j].width
  BY SMTT(30) DEF I_Local_Player, At
<1>6. \A i \in DOMAIN c.writes : \A j \in DOMAIN c.writes :
         c.writes[i].field = c.writes[j].field => i = j
  BY DEF I_Local_Player, At
<1>7. ASSUME NEW f \in DOMAIN c.content PROVE FieldReadBack(c, f)
  <2>1. PICK j \in DOMAIN c.writes : c.writes[j].field = f
    BY <1>2
  <2>2. c.writes[j].width = c.content[f]
    BY <1>3, <2>1
  <2>3. \A r \in Range(c.reads) : r.field = f => /\ c.length - r.offset = c.writes[j].offset
                                                /\ r.width = c.content[f]
    BY <1>5, <1>6, <2>1, <2>2 DEF Range
  <2> QED BY <1>1, <1>4, <2>1, <2>2, <2>3 DEF FieldReadBack
<1> QED BY <1>7 DEF ReadBack

\* I_Minion_Packet: every field but y and z is read where it was written.
LEMMA I_MinionBack == ReadBack(I_Minion, {"y", "z"})
BY SMTT(30) DEF ReadBack, FieldReadBack, Apart, Range, I_Minion, minion_update, At

\* I_Objective_Packet: every field is read where it was written.
LEMMA I_ObjectiveBack == ReadBack(I_Objective, {})
BY SMTT(30) DEF ReadBack, FieldReadBack, Apart, Range, I_Objective, objective_update, At

\* Every class, whichever are sent.
LEMMA EveryLayout ==
    ASSUME NEW k \in AllKinds PROVE WritesInside(Class[k]) /\ ReadBack(Class[k], Lost(k))
<1>1. CASE k = "C_Ping"
  <2>1. Class[k] = C_Ping
    BY <1>1 DEF Class
  <2>2. Lost(k) = {}
    BY <1>1 DEF Lost
  <2> QED BY <2>1, <2>2, C_PingInside, C_PingBack
<1>2. CASE k = "C_SYN"
  <2>1. Class[k] = C_SYN
    BY <1>2 DEF Class
  <2>2. Lost(k) = {}
    BY <1>2 DEF Lost
  <2> QED BY <2>1, <2>2, C_SYNInside, C_SYNBack
<1>3. CASE k = "G_Auto_Notify"
  <2>1. Class[k] = G_Auto_Notify
    BY <1>3 DEF Class
  <2>2. Lost(k) = {}
    BY <1>3 DEF Lost
  <2> QED BY <2>1, <2>2, G_Auto_NotifyInside, G_Auto_NotifyBack
<1>4. CASE k = "G_Auto_Request"
  <2>1. Class[k] = G_Auto_Request
    BY <1>4 DEF Class
  <2>2. Lost(k) = {}
    BY <1>4 DEF Lost
  <2> QED BY <2>1, <2>2, G_Auto_RequestInside, G_Auto_RequestBack
<1>5. CASE k = "G_Move_Notify"
  <2>1. Class[k] = G_Move_Notify
    BY <1>5 DEF Class
  <2>2. Lost(k) = {}
    BY <1>5 DEF Lost
  <2> QED BY <2>1, <2>2, G_Move_NotifyInside, G_Move_NotifyBack
<1>6. CASE k = "G_Move_Request"
  <2>1. Class[k] = G_Move_Request
    BY <1>6 DEF Class
  <2>2. Lost(k) = {}
    BY <1>6 DEF Lost
  <2> QED BY <2>1, <2>2, G_Move_RequestInside, G_Move_RequestBack
<1>7. CASE k = "G_Ping"
  <2>1. Class[k] = G_Ping
    BY <1>7 DEF Class
  <2>2. Lost(k) = {}
    BY <1>7 DEF Lost
  <2> QED BY <2>1, <2>2, G_PingInside, G_PingBack
<1>8. CASE k = "G_Primary_Notify"
  <2>1. Class[k] = G_Primary_Notify
    BY <1>8 DEF Class
  <2>2. Lost(k) = {"experience"}
    BY <1>8 DEF Lost
  <2> QED BY <2>1, <2>2, G_Primary_NotifyInside, G_Primary_NotifyBack
<1>9. CASE k = "G_Primary_Request"
  <2>1. Class[k] = G_Primary_Request
    BY <1>9 DEF Class
  <2>2. Lost(k) = {}
    BY <1>9 DEF Lost
  <2> QED BY <2>1, <2>2, G_Primary_RequestInside, G_Primary_RequestBack
<1>10. CASE k = "I_Auto"
  <2>1. Class[k] = I_Auto
    BY <1>10 DEF Class
  <2>2. Lost(k) = {}
    BY <1>10 DEF Lost
  <2> QED BY <2>1, <2>2, I_AutoInside, I_AutoBack
<1>11. CASE k = "I_LastHit"
  <2>1. Class[k] = I_LastHit
    BY <1>11 DEF Class
  <2>2. Lost(k) = {}
    BY <1>11 DEF Lost
  <2> QED BY <2>1, <2>2, I_LastHitInside, I_LastHitBack
<1>12. CASE k = "I_Local_Player"
  <2>1. Class[k] = I_Local_Player
    BY <1>12 DEF Class
  <2>2. Lost(k) = {}
    BY <1>12 DEF Lost
  <2> QED BY <2>1, <2>2, I_Local_PlayerInside, I_Local_PlayerBack
<1>13. CASE k = "I_Minion"
  <2>1. Class[k] = I_Minion
    BY <1>13 DEF Class
  <2>2. Lost(k) = {"y", "z"}
    BY <1>13 DEF Lost
  <2> QED BY <2>1, <2>2, I_MinionInside, I_MinionBack
<1>14. CASE k = "I_Objective"
  <2>1. Class[k] = I_Objective
    BY <1>14 DEF Class
  <2>2. Lost(k) = {}
    BY <1>14 DEF Lost
  <2> QED BY <2>1, <2>2, I_ObjectiveInside, I_ObjectiveBack
<1> QED BY <1>1, <1>2, <1>3, <1>4, <1>5, <1>6, <1>7, <1>8,
           <1>9, <1>10, <1>11, <1>12, <1>13, <1>14 DEF AllKinds, Class

----------------------------------------------------------------------------
(* All writes of a packet.                                                 *)

\* What a sequence is.
LEMMA ProperIs ==
    ASSUME NEW S, NEW s \in Seq(S)
    PROVE  Proper(s) /\ Len(s) \in Nat /\ DOMAIN s = 1..Len(s)
<1>1. Len(s) \in Nat /\ DOMAIN s = 1..Len(s) /\ \A i \in 1..Len(s) : s[i] \in Range(s)
  BY DEF Range
<1>2. s = [i \in 1..Len(s) |-> s[i]]
  OBVIOUS
<1> QED BY <1>1, <1>2 DEF Proper

\* The positions of a sequence are the numbers up to its length.
LEMMA ProperLen ==
    ASSUME NEW s, Proper(s)
    PROVE  Len(s) \in Nat /\ DOMAIN s = 1..Len(s)
BY DEF Proper

\* Two sequences of places after another.
LEMMA ConcatIs ==
    ASSUME NEW s, NEW t, Proper(s), Proper(t)
    PROVE  /\ Proper(s \o t)
           /\ Len(s \o t) = Len(s) + Len(t)
           /\ DOMAIN (s \o t) = 1..(Len(s) + Len(t))
           /\ \A i \in 1..Len(s) : (s \o t)[i] = s[i]
           /\ \A i \in 1..Len(t) : (s \o t)[Len(s) + i] = t[i]
<1> PICK S : S = Range(s) \cup Range(t)
  OBVIOUS
<1>1. s \in Seq(S) /\ t \in Seq(S) /\ Len(s) \in Nat /\ Len(t) \in Nat
  BY DEF Proper
<1>2. /\ s \o t \in Seq(S) /\ Len(s \o t) = Len(s) + Len(t)
      /\ \A i \in 1..(Len(s) + Len(t)) : (s \o t)[i] = IF i <= Len(s) THEN s[i] ELSE t[i - Len(s)]
  BY <1>1, ConcatProperties
<1>3. DOMAIN (s \o t) = 1..(Len(s) + Len(t))
  BY <1>1, <1>2
<1>4. \A i \in 1..Len(s) : (s \o t)[i] = s[i]
  BY <1>1, <1>2
<1>5. ASSUME NEW i \in 1..Len(t) PROVE (s \o t)[Len(s) + i] = t[i]
  <2>1. /\ Len(s) + i \in 1..(Len(s) + Len(t)) /\ ~ (Len(s) + i <= Len(s))
        /\ (Len(s) + i) - Len(s) = i
    BY <1>1
  <2> QED BY <1>2, <2>1
<1>6. Proper(s \o t)
  BY <1>2, ProperIs
<1> QED BY <1>2, <1>3, <1>4, <1>5, <1>6

\* Three sequences one after another.
LEMMA ThreeAre ==
    ASSUME NEW s, NEW t, NEW u, Proper(s), Proper(t), Proper(u)
    PROVE  /\ DOMAIN (s \o (t \o u)) = 1..((Len(s) + Len(t)) + Len(u))
           /\ \A j \in 1..Len(s) : (s \o (t \o u))[j] = s[j]
           /\ \A j \in 1..Len(t) : (s \o (t \o u))[Len(s) + j] = t[j]
           /\ \A j \in 1..Len(u) : (s \o (t \o u))[(Len(s) + Len(t)) + j] = u[j]
<1>1. PICK n \in Nat, l \in Nat, m \in Nat : n = Len(s) /\ l = Len(t) /\ m = Len(u)
  BY ProperLen
<1>2. PICK v : v = t \o u
  OBVIOUS
<1>3. /\ Proper(v) /\ Len(v) = l + m
      /\ \A j \in 1..l : v[j] = t[j]
      /\ \A j \in 1..m : v[l + j] = u[j]
  <2>1. /\ Proper(v) /\ Len(v) = Len(t) + Len(u)
        /\ \A j \in 1..Len(t) : v[j] = t[j]
        /\ \A j \in 1..Len(u) : v[Len(t) + j] = u[j]
    BY <1>2, ConcatIs
  <2> QED BY <1>1, <2>1
<1>4. PICK w : w = s \o v
  OBVIOUS
<1>5. /\ DOMAIN w = 1..(n + (l + m))
      /\ \A j \in 1..n : w[j] = s[j]
      /\ \A j \in 1..(l + m) : w[n + j] = v[j]
  <2>1. /\ DOMAIN (s \o v) = 1..(Len(s) + Len(v))
        /\ \A j \in 1..Len(s) : (s \o v)[j] = s[j]
        /\ \A j \in 1..Len(v) : (s \o v)[Len(s) + j] = v[j]
    BY <1>3, ConcatIs
  <2>2. /\ DOMAIN w = 1..(Len(s) + Len(v))
        /\ \A j \in 1..Len(s) : w[j] = s[j]
        /\ \A j \in 1..Len(v) : w[Len(s) + j] = v[j]
    BY <1>4, <2>1, Zenon
  <2> QED BY <1>3, <1>1, <2>2
<1>6. \A j \in 1..l : w[n + j] = t[j]
  <2>1. \A j \in 1..l : j \in 1..(l + m)
    OBVIOUS
  <2> QED BY <1>3, <1>5, <2>1
<1>7. \A j \in 1..m : w[(n + l) + j] = u[j]
  <2>1. \A j \in 1..m : l + j \in 1..(l + m) /\ (n + l) + j = n + (l + j)
    OBVIOUS
  <2> QED BY <1>3, <1>5, <2>1
<1>8. n + (l + m) = (n + l) + m
  OBVIOUS
<1> QED BY <1>2, <1>4, <1>5, <1>6, <1>7, <1>8, <1>1

\* Places moved along.
LEMMA ShiftIs ==
    ASSUME NEW s, Proper(s), NEW d
    PROVE  /\ Proper(ShiftBy(s, d)) /\ Len(ShiftBy(s, d)) = Len(s)
           /\ \A i \in 1..Len(s) : ShiftBy(s, d)[i] = [s[i] EXCEPT !.offset = @ + d]
<1>1. DOMAIN s = 1..Len(s) /\ Len(s) \in Nat
  BY ProperLen
<1> PICK t : t = ShiftBy(s, d)
  OBVIOUS
<1>2. t = [i \in 1..Len(s) |-> [s[i] EXCEPT !.offset = @ + d]]
  BY <1>1 DEF ShiftBy
<1>3. DOMAIN t = 1..Len(s) /\ \A i \in 1..Len(s) : t[i] = [s[i] EXCEPT !.offset = @ + d]
  BY <1>2
<1>4. t \in Seq({t[i] : i \in 1..Len(s)}) /\ Len(t) = Len(s)
  BY <1>1, <1>2, <1>3
<1>5. Proper(t)
  BY <1>4, ProperIs
<1> QED BY <1>3, <1>4, <1>5

\* The general header, moved along by d, and the header of the layer.
GeneralAt(d) ==
    <<At("game_ID", d, 4), At("server_ID", d + 4, 2), At("sequence_num", d + 6, 2),
      At("ACK_bitfield", d + 8, 4)>>

\* The places of the general header (Packet.cxx:20-28), moved along by d.
LEMMA GeneralIs ==
    ASSUME NEW d \in Nat
    PROVE  \A m \in 1..4 : [GeneralHeader[m] EXCEPT !.offset = @ + d] = GeneralAt(d)[m]
BY DEF GeneralHeader, GeneralAt, At

\* The headers of the layers have one byte or two.
ShortAt(a) ==
    /\ Proper(LayerHeader[a]) /\ Len(LayerHeader[a]) \in 1..2
    /\ \A i \in 1..Len(LayerHeader[a]) :
         LayerHeader[a][i].offset \in 0..1 /\ LayerHeader[a][i].width = 1

\* The general header has four places, and every header of a layer one or two.
LEMMA HeadersAre ==
    /\ Proper(GeneralHeader) /\ Len(GeneralHeader) = 4
    /\ \A a \in {"protocol", "event", "sync"} : ShortAt(a)
<1>1. Proper(GeneralHeader) /\ Len(GeneralHeader) = 4
  BY DEF GeneralHeader, Proper, Range, At
<1>2. ShortAt("protocol")
  BY DEF LayerHeader, ShortAt, Proper, Range, At
<1>3. ShortAt("event")
  BY DEF LayerHeader, ShortAt, Proper, Range, At
<1>4. ShortAt("sync")
  BY DEF LayerHeader, ShortAt, Proper, Range, At
<1> QED BY <1>1, <1>2, <1>3, <1>4

\* Where the writes of a packet are: n for its content first, inside its
\* length, and the general header after the m-th.
WritesIn(k, n, m) ==
    /\ n \in Nat /\ m \in Nat /\ n < m
    /\ DOMAIN Class[k].writes = 1..n /\ DOMAIN Writes(k) = 1..(m + 4)
    /\ \A j \in 1..n : Writes(k)[j] = Class[k].writes[j]
    /\ \A j \in (n + 1)..m :
         Writes(k)[j].offset \in Class[k].length..(Class[k].length + 1) /\ Writes(k)[j].width = 1
    /\ \A j \in 1..4 : Writes(k)[m + j] = GeneralAt(Class[k].length)[j]

\* The layer's header moved along by d: each byte at d or the one after it.
LEMMA OwnHeaderIs ==
    ASSUME NEW d \in Nat, NEW a \in {"protocol", "event", "sync"},
           NEW own, own = ShiftBy(LayerHeader[a], d)
    PROVE  /\ Proper(own) /\ Len(own) \in 1..2
           /\ \A i \in 1..Len(own) : own[i].offset \in d..(d + 1) /\ own[i].width = 1
<1>1. ShortAt(a)
  BY HeadersAre
<1>2. /\ Proper(own) /\ Len(own) = Len(LayerHeader[a])
      /\ \A i \in 1..Len(own) : own[i] = [LayerHeader[a][i] EXCEPT !.offset = @ + d]
  BY <1>1, ShiftIs DEF ShortAt
<1>3. ASSUME NEW i \in 1..Len(own) PROVE own[i].offset \in d..(d + 1) /\ own[i].width = 1
  <2>1. PICK h : h = LayerHeader[a][i]
    OBVIOUS
  <2>2. h.offset \in 0..1 /\ h.width = 1 /\ own[i] = [h EXCEPT !.offset = @ + d]
    BY <1>1, <1>2, <2>1 DEF ShortAt
  <2> QED BY <2>2
<1> QED BY <1>1, <1>2, <1>3 DEF ShortAt

\* The general header moved along by d.
LEMMA GeneralHeaderIs ==
    ASSUME NEW d \in Nat, NEW general, general = ShiftBy(GeneralHeader, d)
    PROVE  Proper(general) /\ Len(general) = 4 /\ \A j \in 1..4 : general[j] = GeneralAt(d)[j]
<1>1. Proper(GeneralHeader) /\ Len(GeneralHeader) = 4
  BY HeadersAre
<1>2. /\ Proper(general) /\ Len(general) = 4
      /\ \A j \in 1..4 : general[j] = [GeneralHeader[j] EXCEPT !.offset = @ + d]
  BY <1>1, ShiftIs
<1> QED BY <1>2, GeneralIs

\* The writes of every class are laid out so: its content, the header of its
\* layer and the general header (Sync_Packet.cxx:19-27 and its likes).
LEMMA WritesAre == ASSUME NEW k \in AllKinds PROVE \E n, m : WritesIn(k, n, m)
<1>1. PICK writes : writes = Class[k].writes
  OBVIOUS
<1>2. PICK length \in Nat : length = Class[k].length
  BY EveryLayout DEF WritesInside
<1>3. PICK a \in {"protocol", "event", "sync"} : a = Class[k].layer
  BY EveryLayout DEF WritesInside
<1>4. PICK own : own = ShiftBy(LayerHeader[a], length)
  OBVIOUS
<1>5. PICK general : general = ShiftBy(GeneralHeader, length)
  OBVIOUS
<1>6. /\ Proper(own) /\ Len(own) \in 1..2
      /\ \A i \in 1..Len(own) : own[i].offset \in length..(length + 1) /\ own[i].width = 1
  BY <1>4, OwnHeaderIs
<1>7. Proper(general) /\ Len(general) = 4 /\ \A j \in 1..4 : general[j] = GeneralAt(length)[j]
  BY <1>5, GeneralHeaderIs
<1>8. Proper(writes)
  BY <1>1, EveryLayout DEF WritesInside
<1>9. PICK w : w = Writes(k)
  OBVIOUS
<1>10. w = writes \o (own \o general)
  BY <1>1, <1>2, <1>3, <1>4, <1>5, <1>9 DEF Writes, add_header
<1>11. PICK n \in Nat : n = Len(writes)
  BY <1>8, ProperLen
<1>12. PICK l \in 1..2 : l = Len(own)
  BY <1>6
<1>13. /\ DOMAIN w = 1..((n + l) + 4)
       /\ \A j \in 1..n : w[j] = writes[j]
       /\ \A j \in 1..l : w[n + j] = own[j]
       /\ \A j \in 1..4 : w[(n + l) + j] = general[j]
  <2>1. LET all == writes \o (own \o general)
        IN  /\ DOMAIN all = 1..((Len(writes) + Len(own)) + Len(general))
            /\ \A j \in 1..Len(writes) : all[j] = writes[j]
            /\ \A j \in 1..Len(own) : all[Len(writes) + j] = own[j]
            /\ \A j \in 1..Len(general) : all[(Len(writes) + Len(own)) + j] = general[j]
    <3>1. Proper(writes) /\ Proper(own) /\ Proper(general)
      BY <1>6, <1>7, <1>8
    <3> QED BY <3>1, ThreeAre
  <2>2. /\ DOMAIN w = 1..((Len(writes) + Len(own)) + Len(general))
        /\ \A j \in 1..Len(writes) : w[j] = writes[j]
        /\ \A j \in 1..Len(own) : w[Len(writes) + j] = own[j]
        /\ \A j \in 1..Len(general) : w[(Len(writes) + Len(own)) + j] = general[j]
    BY <1>10, <2>1, Zenon
  <2> QED BY <1>7, <1>11, <1>12, <2>2
<1>14. PICK m \in Nat : m = n + l
  OBVIOUS
<1>15. ASSUME NEW j \in (n + 1)..m PROVE w[j].offset \in length..(length + 1) /\ w[j].width = 1
  <2>1. PICK i \in 1..l : n + i = j
    <3>1. j - n \in 1..l /\ n + (j - n) = j
      BY <1>14
    <3> QED BY <3>1
  <2>2. w[j] = own[i]
    BY <1>13, <2>1
  <2> QED BY <1>6, <1>12, <2>2
<1>16. \A j \in 1..4 : w[m + j] = GeneralAt(length)[j]
  BY <1>7, <1>13, <1>14
<1>17. n < m /\ DOMAIN w = 1..(m + 4)
  BY <1>13, <1>14
<1>18. DOMAIN writes = 1..n
  BY <1>8, <1>11, ProperLen
<1>19. WritesIn(k, n, m)
  BY <1>1, <1>2, <1>9, <1>13, <1>15, <1>16, <1>17, <1>18 DEF WritesIn
<1> QED BY <1>19

----------------------------------------------------------------------------
(* Writing.                                                                *)

\* A nonempty set of naturals has a least element.
LEMMA LeastNatural ==
    ASSUME NEW S, S \subseteq Nat, S # {}
    PROVE  \E x \in S : \A y \in S : x <= y
<1>1. PICK x \in S : \A y \in S : ~ (<<y, x>> \in OpToRel(<, Nat))
  BY NatLessThanWellFounded, WFMin
<1>2. \A y, z \in Nat : y < z => <<y, z>> \in OpToRel(<, Nat)
  <2>1. OpToRel(<, Nat) = {ss \in Nat \X Nat : ss[1] < ss[2]}
    BY DEF OpToRel
  <2>2. \A y, z \in Nat : y < z => <<y, z>> \in {ss \in Nat \X Nat : ss[1] < ss[2]}
    OBVIOUS
  <2> QED BY <2>1, <2>2, Zenon
<1>3. \A y \in S : x <= y
  <2>1. \A y \in S : ~ (y < x)
    BY <1>1, <1>2, Zenon
  <2> QED BY <2>1
<1> QED BY <1>3

\* A nonempty set of places in a sequence has a greatest element, and Max is it.
LEMMA MaxIs ==
    ASSUME NEW n \in Nat, NEW S, S \subseteq 1..n, S # {}
    PROVE  Max(S) \in S /\ \A y \in S : y <= Max(S)
<1>1. PICK T : T = {n - x : x \in S}
  OBVIOUS
<1>2. T \subseteq Nat /\ T # {}
  <2>1. \A x \in S : n - x \in Nat
    <3>1. \A x \in 1..n : n - x \in Nat
      OBVIOUS
    <3> QED BY <3>1
  <2>2. PICK x : x \in S
    OBVIOUS
  <2>3. n - x \in T
    BY <1>1, <2>2
  <2>4. \A t \in T : t \in Nat
    BY <1>1, <2>1
  <2> QED BY <2>3, <2>4
<1>3. PICK t \in T : \A y \in T : t <= y
  BY <1>2, LeastNatural
<1>4. PICK x \in S : t = n - x
  BY <1>1, <1>3
<1>5. ASSUME NEW y \in S PROVE y <= x
  <2>1. n - y \in T /\ x \in Int /\ y \in Int
    BY <1>1
  <2>2. n - x <= n - y
    BY <1>3, <1>4, <2>1
  <2> QED BY <2>1, <2>2
<1>6. \E z \in S : \A y \in S : z >= y
  BY <1>5
<1> QED BY <1>6 DEF Max

\* The header that every packet ends with, byte by byte.
LEMMA GeneralBound ==
    ASSUME NEW d \in Nat
    PROVE  /\ \A j \in 1..4 : /\ GeneralAt(d)[j].offset \in d..(d + 8) /\ GeneralAt(d)[j].width \in 1..4
                              /\ GeneralAt(d)[j].offset + GeneralAt(d)[j].width <= d + 12
           /\ \A j \in 1..4 : \A i \in 1..4 : j < i => Apart(GeneralAt(d)[j], GeneralAt(d)[i])
BY DEF GeneralAt, Apart, At

\* Every write is within the general header or before it.
LEMMA WritesBound ==
    ASSUME NEW k \in AllKinds, NEW j \in DOMAIN Writes(k)
    PROVE  /\ Writes(k)[j].offset \in Nat /\ Writes(k)[j].width \in Nat
           /\ Writes(k)[j].offset + Writes(k)[j].width <= Class[k].length + 12
<1>1. PICK n, m : WritesIn(k, n, m)
  BY WritesAre
<1>2. n \in Nat /\ m \in Nat /\ n < m /\ j \in 1..(m + 4)
  BY <1>1 DEF WritesIn
<1>3. PICK length \in 1..46 : length = Class[k].length
  BY EveryLayout DEF WritesInside
<1>4. CASE j \in 1..n
  <2>1. Writes(k)[j] = Class[k].writes[j] /\ j \in DOMAIN Class[k].writes
    BY <1>1, <1>4 DEF WritesIn
  <2>2. /\ Class[k].writes[j].offset \in Nat /\ Class[k].writes[j].width \in Nat
        /\ Class[k].writes[j].offset + Class[k].writes[j].width <= length
    BY <1>3, <2>1, EveryLayout DEF WritesInside
  <2> QED BY <1>3, <2>1, <2>2
<1>5. CASE j \in (n + 1)..m
  <2>1. Writes(k)[j].offset \in length..(length + 1) /\ Writes(k)[j].width = 1
    BY <1>1, <1>3, <1>5 DEF WritesIn
  <2> QED BY <1>3, <2>1
<1>6. CASE j \in (m + 1)..(m + 4)
  <2>1. PICK i \in 1..4 : m + i = j
    <3>1. j - m \in 1..4 /\ m + (j - m) = j
      BY <1>2, <1>6
    <3> QED BY <3>1
  <2>2. Writes(k)[j] = GeneralAt(length)[i]
    BY <1>1, <1>3, <2>1 DEF WritesIn
  <2>3. /\ GeneralAt(length)[i].offset \in length..(length + 8) /\ GeneralAt(length)[i].width \in 1..4
        /\ GeneralAt(length)[i].offset + GeneralAt(length)[i].width <= length + 12
    <3>1. length \in Nat
      BY <1>3
    <3> HIDE <1>3
    <3> QED BY <3>1, GeneralBound
  <2> QED BY <1>3, <2>2, <2>3
<1> QED BY <1>2, <1>4, <1>5, <1>6

\* No later write of the packet covers write j.
Final(k, j) == \A i \in DOMAIN Writes(k) : j < i => Apart(Writes(k)[j], Writes(k)[i])

\* The bytes b hold place p of packet n.
HoldsAt(p, b, n) ==
    \A i \in 1..p.width : b[p.offset + i - 1] = [packet |-> n, field |-> p.field, byte |-> i]

\* They hold whatever of the packet no later write covers.
Kept(k, b, n) == \A j \in DOMAIN Writes(k) : Final(k, j) => HoldsAt(Writes(k)[j], b, n)

\* The writes that cover a byte.
Covers(k, i) ==
    {j \in DOMAIN Writes(k) :
        Writes(k)[j].offset <= i /\ i < Writes(k)[j].offset + Writes(k)[j].width}

\* Of the writes that cover a byte there is a last one.
LEMMA CoversAre ==
    ASSUME NEW k \in AllKinds, NEW i \in Int, Covers(k, i) # {}
    PROVE  Max(Covers(k, i)) \in Covers(k, i) /\ \A y \in Covers(k, i) : y <= Max(Covers(k, i))
<1>1. PICK m \in Nat : DOMAIN Writes(k) = 1..m
  <2>1. PICK n, m : WritesIn(k, n, m)
    BY WritesAre
  <2>2. m + 4 \in Nat /\ DOMAIN Writes(k) = 1..(m + 4)
    BY <2>1 DEF WritesIn
  <2> QED BY <2>2
<1>2. Covers(k, i) \subseteq 1..m
  BY <1>1 DEF Covers
<1> QED BY <1>2, MaxIs

\* serialize (C_SYN_Packet.cxx:9-17 and its likes): the bytes that are written
\* are of this packet, and the others stay.
LEMMA SerializeBytes ==
    ASSUME NEW k \in AllKinds, serialize(k), DOMAIN buffer = 0..63
    PROVE  /\ DOMAIN buffer' = 0..63
           /\ \A i \in 0..63 : Covers(k, i) = {} => buffer'[i] = buffer[i]
           /\ \A i \in 0..63 : Covers(k, i) # {} =>
                LET p == Writes(k)[Max(Covers(k, i))]
                IN  buffer'[i] = [packet |-> number', field |-> p.field, byte |-> i - p.offset + 1]
<1>1. buffer' = [i \in 0..63 |->
                   IF Covers(k, i) = {} THEN buffer[i]
                   ELSE LET p == Writes(k)[Max(Covers(k, i))]
                        IN  Bytes(p.field, p.width, number')[i - p.offset + 1]]
  BY Zenon DEF serialize, Covers
<1>2. ASSUME NEW i \in 0..63, Covers(k, i) # {}
      PROVE  LET p == Writes(k)[Max(Covers(k, i))]
             IN  buffer'[i] = [packet |-> number', field |-> p.field, byte |-> i - p.offset + 1]
  <2>1. PICK j \in DOMAIN Writes(k) : j = Max(Covers(k, i)) /\ j \in Covers(k, i)
    <3>1. i \in Int
      OBVIOUS
    <3>2. Max(Covers(k, i)) \in Covers(k, i)
      BY <1>2, <3>1, CoversAre
    <3> QED BY <3>2 DEF Covers
  <2>2. PICK p : p = Writes(k)[j]
    OBVIOUS
  <2>3. p.offset \in Nat /\ p.width \in Nat /\ p.offset <= i /\ i < p.offset + p.width
    BY <2>1, <2>2, WritesBound DEF Covers
  <2>4. i - p.offset + 1 \in 1..p.width
    BY <2>3
  <2>5. Bytes(p.field, p.width, number')[i - p.offset + 1]
          = [packet |-> number', field |-> p.field, byte |-> i - p.offset + 1]
    BY <2>4 DEF Bytes
  <2>6. buffer'[i] = Bytes(p.field, p.width, number')[i - p.offset + 1]
    BY <1>1, <1>2, <2>1, <2>2
  <2> QED BY <2>1, <2>2, <2>5, <2>6
<1> QED BY <1>1, <1>2

\* What no later write covers is in the buffer.
LEMMA SerializeKeeps ==
    ASSUME NEW k \in AllKinds, serialize(k), DOMAIN buffer = 0..63
    PROVE  Kept(k, buffer', number')
<1> SUFFICES ASSUME NEW j \in DOMAIN Writes(k), Final(k, j), NEW x \in 1..Writes(k)[j].width
             PROVE  buffer'[Writes(k)[j].offset + x - 1]
                      = [packet |-> number', field |-> Writes(k)[j].field, byte |-> x]
  BY DEF Kept, HoldsAt
<1>1. PICK o \in Nat, w \in Nat : o = Writes(k)[j].offset /\ w = Writes(k)[j].width
  BY WritesBound
<1>2. PICK i \in Int : i = o + x - 1
  BY <1>1
<1>3. i \in 0..63 /\ o <= i /\ i < o + w /\ i - o + 1 = x
  <2>1. Class[k].length \in 1..46
    BY EveryLayout DEF WritesInside
  <2>2. o + w <= Class[k].length + 12
    BY <1>1, WritesBound
  <2>3. x \in Nat /\ 1 <= x /\ x <= w
    BY <1>1
  <2> QED BY <1>1, <1>2, <2>1, <2>2, <2>3
<1>4. j \in Covers(k, i)
  BY <1>1, <1>3 DEF Covers
<1>5. Max(Covers(k, i)) = j
  <2>1. PICK y \in Covers(k, i) : y = Max(Covers(k, i)) /\ j <= y
    BY <1>4, CoversAre
  <2>2. ASSUME j < y PROVE FALSE
    <3>1. Apart(Writes(k)[j], Writes(k)[y]) /\ y \in DOMAIN Writes(k)
      BY <2>2 DEF Final, Covers
    <3>2. /\ Writes(k)[y].offset \in Nat /\ Writes(k)[y].width \in Nat
          /\ Writes(k)[y].offset <= i /\ i < Writes(k)[y].offset + Writes(k)[y].width
      BY <3>1, WritesBound DEF Covers
    <3> QED BY <1>1, <1>3, <3>1, <3>2 DEF Apart
  <2>3. j \in Int /\ y \in Int
    <3>1. PICK n, m : WritesIn(k, n, m)
      BY WritesAre
    <3>2. DOMAIN Writes(k) \subseteq Int
      BY <3>1 DEF WritesIn
    <3> QED BY <3>2 DEF Covers
  <2> QED BY <2>1, <2>2, <2>3
<1>6. buffer'[i] = [packet |-> number', field |-> Writes(k)[j].field, byte |-> i - Writes(k)[j].offset + 1]
  BY <1>3, <1>4, <1>5, SerializeBytes
<1> QED BY <1>1, <1>2, <1>3, <1>6

\* The field of a class that comes back is written in one place, which no
\* later write of the packet covers, and its reads are the same distance from
\* the end of the content.
LEMMA ContentFinal ==
    ASSUME NEW k \in AllKinds, NEW f \in DOMAIN Class[k].content \ Lost(k)
    PROVE  \E j \in DOMAIN Writes(k) :
             /\ Final(k, j)
             /\ Writes(k)[j].field = f /\ Writes(k)[j].width = Class[k].content[f]
             /\ \A r \in Range(Class[k].reads) :
                  r.field = f => /\ Class[k].length - r.offset = Writes(k)[j].offset
                                 /\ r.width = Class[k].content[f]
<1>1. PICK n, m : WritesIn(k, n, m)
  BY WritesAre
<1>2. n \in Nat /\ m \in Nat /\ n < m /\ DOMAIN Writes(k) = 1..(m + 4)
  BY <1>1 DEF WritesIn
<1>3. FieldReadBack(Class[k], f)
  BY EveryLayout DEF ReadBack
<1>4. PICK c : c = Class[k]
  OBVIOUS
<1>5. PICK j \in DOMAIN c.writes :
        /\ c.writes[j].field = f /\ c.writes[j].width = c.content[f]
        /\ \A i \in DOMAIN c.writes : j < i => Apart(c.writes[j], c.writes[i])
        /\ \A r \in Range(c.reads) :
             r.field = f => c.length - r.offset = c.writes[j].offset /\ r.width = c.content[f]
  BY <1>3, <1>4 DEF FieldReadBack
<1>6. DOMAIN c.writes = 1..n /\ \A i \in 1..n : Writes(k)[i] = c.writes[i]
  BY <1>1, <1>4 DEF WritesIn
<1>7. j \in 1..n /\ j \in DOMAIN Writes(k) /\ Writes(k)[j] = c.writes[j]
  BY <1>2, <1>5, <1>6
<1>8. PICK length \in Nat, o \in Nat, w \in Nat :
        /\ length = c.length /\ o = c.writes[j].offset /\ w = c.writes[j].width
        /\ o + w <= length
  <2>1. WritesInside(c)
    BY <1>4, EveryLayout
  <2>2. c.length \in Nat
    BY <2>1 DEF WritesInside
  <2>3. /\ c.writes[j].offset \in Nat /\ c.writes[j].width \in Nat
        /\ c.writes[j].offset + c.writes[j].width <= c.length
    BY <2>1 DEF WritesInside
  <2> QED BY <2>2, <2>3
<1>9. ASSUME NEW i \in DOMAIN Writes(k), j < i PROVE Apart(Writes(k)[j], Writes(k)[i])
  <2>1. CASE i \in 1..n
    BY <1>5, <1>6, <1>7, <1>9, <2>1
  <2>2. CASE i \in (n + 1)..m
    <3>1. Writes(k)[i].offset \in length..(length + 1)
      BY <1>1, <1>4, <1>8, <2>2 DEF WritesIn
    <3> QED BY <1>7, <1>8, <3>1 DEF Apart
  <2>3. CASE i \in (m + 1)..(m + 4)
    <3>1. PICK y \in 1..4 : m + y = i
      <4>1. i - m \in 1..4 /\ m + (i - m) = i
        BY <1>2, <2>3
      <4> QED BY <4>1
    <3>2. Writes(k)[i] = GeneralAt(length)[y]
      BY <1>1, <1>4, <1>8, <3>1 DEF WritesIn
    <3>3. GeneralAt(length)[y].offset \in length..(length + 8)
      BY GeneralBound
    <3> QED BY <1>7, <1>8, <3>2, <3>3 DEF Apart
  <2> QED BY <1>2, <2>1, <2>2, <2>3
<1>10. Final(k, j)
  BY <1>9 DEF Final
<1> QED BY <1>4, <1>5, <1>7, <1>10

\* The general header is written last.
LEMMA GeneralFinal ==
    ASSUME NEW k \in AllKinds, NEW y \in 1..4
    PROVE  \E j \in DOMAIN Writes(k) : Final(k, j) /\ Writes(k)[j] = GeneralAt(Class[k].length)[y]
<1>1. PICK n, m : WritesIn(k, n, m)
  BY WritesAre
<1>2. n \in Nat /\ m \in Nat /\ DOMAIN Writes(k) = 1..(m + 4)
  BY <1>1 DEF WritesIn
<1>3. PICK d \in Nat : d = Class[k].length
  BY EveryLayout DEF WritesInside
<1>4. \A x \in 1..4 : Writes(k)[m + x] = GeneralAt(d)[x]
  BY <1>1, <1>3 DEF WritesIn
<1>5. m + y \in DOMAIN Writes(k)
  BY <1>2
<1>6. ASSUME NEW i \in DOMAIN Writes(k), m + y < i PROVE Apart(Writes(k)[m + y], Writes(k)[i])
  <2>1. PICK x \in 1..4 : m + x = i /\ y < x
    <3>1. i - m \in 1..4 /\ m + (i - m) = i /\ y < i - m
      BY <1>2, <1>6
    <3> QED BY <3>1
  <2>2. Apart(GeneralAt(d)[y], GeneralAt(d)[x])
    BY <2>1, GeneralBound
  <2> QED BY <1>4, <2>1, <2>2
<1>7. Final(k, m + y)
  BY <1>6 DEF Final
<1> QED BY <1>3, <1>4, <1>5, <1>7

----------------------------------------------------------------------------
(* Reading.                                                                *)

\* The field of place p is among the places read from tail t, and read at p.
PlacedAt(places, t, p) ==
    /\ \E r \in Range(places) : r.field = p.field
    /\ \A r \in Range(places) :
         r.field = p.field => t - r.offset = p.offset /\ r.width = p.width

\* A place within the buffer.
InBuffer(p) == p.offset \in Nat /\ p.width \in Nat /\ p.offset + p.width <= 64

\* A field read at its place holds what is there.
LEMMA FieldIs ==
    ASSUME DOMAIN buffer = 0..63, NEW places, NEW t, NEW p, NEW n,
           PlacedAt(places, t, p), InBuffer(p), HoldsAt(p, buffer, n)
    PROVE  Fields(places, t)[p.field] = Bytes(p.field, p.width, n)
<1>1. PICK o \in Nat, w \in Nat : o = p.offset /\ w = p.width /\ o + w <= 64
  BY DEF InBuffer
<1>2. PICK r : r = CHOOSE q \in Range(places) : q.field = p.field
  OBVIOUS
<1>3. r \in Range(places) /\ r.field = p.field
  BY <1>2 DEF PlacedAt
<1>4. t - r.offset = o /\ r.width = w
  BY <1>1, <1>3 DEF PlacedAt
<1>5. p.field \in {q.field : q \in Range(places)}
  BY <1>3
<1>6. Fields(places, t)[p.field] = MemAt(t, r)
  BY <1>2, <1>5, Zenon DEF Fields
<1>7. MemAt(t, r) = [b \in 1..w |->
                       IF o + b - 1 \in 0..63 THEN buffer[o + b - 1] ELSE Foreign]
  BY <1>4 DEF MemAt
<1>8. ASSUME NEW b \in 1..w
      PROVE  (IF o + b - 1 \in 0..63 THEN buffer[o + b - 1] ELSE Foreign)
               = [packet |-> n, field |-> p.field, byte |-> b]
  <2>1. o + b - 1 \in 0..63
    BY <1>1
  <2>2. buffer[o + b - 1] = [packet |-> n, field |-> p.field, byte |-> b]
    BY <1>1 DEF HoldsAt
  <2> QED BY <2>1, <2>2
<1>9. MemAt(t, r) = [b \in 1..w |-> [packet |-> n, field |-> p.field, byte |-> b]]
  BY <1>7, <1>8
<1> QED BY <1>1, <1>6, <1>9 DEF Bytes

\* The places Packet::deserialize reads (Packet.cxx:9-13).
HeaderReads ==
    <<At("game_ID", 12, 4), At("server_ID", 8, 2), At("sequence_num", 6, 2),
      At("ACK_bitfield", 4, 4)>>

\* Each is the place of the general header from the tail, when that is where
\* the last write ends.
LEMMA HeaderPlaces ==
    ASSUME NEW d \in 1..46, NEW y \in 1..4
    PROVE  PlacedAt(HeaderReads, d + 12, GeneralAt(d)[y]) /\ InBuffer(GeneralAt(d)[y])
<1>1. Range(HeaderReads) = {At("game_ID", 12, 4), At("server_ID", 8, 2),
                            At("sequence_num", 6, 2), At("ACK_bitfield", 4, 4)}
  BY DEF Range, HeaderReads, At
<1>2. CASE y = 1
  BY <1>1, <1>2 DEF GeneralAt, At, PlacedAt, InBuffer
<1>3. CASE y = 2
  BY <1>1, <1>3 DEF GeneralAt, At, PlacedAt, InBuffer
<1>4. CASE y = 3
  BY <1>1, <1>4 DEF GeneralAt, At, PlacedAt, InBuffer
<1>5. CASE y = 4
  BY <1>1, <1>5 DEF GeneralAt, At, PlacedAt, InBuffer
<1> QED BY <1>2, <1>3, <1>4, <1>5

\* The sizes of the headers, written and read.
LEMMA SizesAre ==
    ASSUME NEW k \in AllKinds
    PROVE  /\ Class[k].length \in 1..46
           /\ get_packet_size(k) \in (Class[k].length + 13)..(Class[k].length + 15)
           /\ Len(LayerReads[Class[k].layer]) \in 1..2
<1>1. Class[k].length \in 1..46 /\ Class[k].layer \in {"protocol", "event", "sync"}
  BY EveryLayout DEF WritesInside
<1>2. PICK d \in 1..46, a \in {"protocol", "event", "sync"} :
        d = Class[k].length /\ a = Class[k].layer
  BY <1>1
<1>3. get_header_size[a] \in 13..15
  BY DEF get_header_size
<1>4. Len(LayerReads[a]) \in 1..2
  <2>1. CASE a = "protocol"
    BY <2>1 DEF LayerReads
  <2>2. CASE a = "event"
    BY <2>2 DEF LayerReads
  <2>3. CASE a = "sync"
    BY <2>3 DEF LayerReads
  <2> QED BY <2>1, <2>2, <2>3
<1>5. d + get_header_size[a] \in (d + 13)..(d + 15)
  BY <1>3
<1>6. get_packet_size(k) = d + get_header_size[a]
  BY <1>2 DEF get_packet_size
<1> QED BY <1>2, <1>4, <1>5, <1>6

----------------------------------------------------------------------------
(* The invariant.                                                          *)

\* The bytes are of packets so far, and those of the current one that no later
\* write covered are there.
BytesOK ==
    /\ \A i \in 0..63 : buffer[i].packet \in 0..number
    /\ pc # "idle" => Kept(kind, buffer, number)

\* Where the tail is.
TailOK ==
    /\ pc = "received" =>
         tail = IF end = "packet" THEN get_packet_size(kind) ELSE Class[kind].length + 12
    /\ pc = "stripped" =>
         tail = IF end = "packet" THEN get_packet_size(kind) - 12 ELSE Class[kind].length
    /\ pc = "bare" =>
         /\ end = "packet"
         /\ tail = get_packet_size(kind) - 12 - Len(LayerReads[Class[kind].layer])

\* The inductive invariant: the types, the bytes, the tail and the properties.
WireInv ==
    TypeOK /\ BytesOK /\ TailOK /\ BufferHolds /\ HeaderSurvives /\ ContentSurvives

\* The invariant holds at first: nothing is written or read yet.
LEMMA InitWire == Init => WireInv
<1> SUFFICES ASSUME Init PROVE WireInv
  OBVIOUS
<1>1. TypeOK
  BY WireAssumption DEF Init, TypeOK
<1>2. BytesOK
  BY DEF Init, BytesOK, Foreign
<1> QED BY <1>1, <1>2 DEF Init, WireInv, TailOK, BufferHolds, HeaderSurvives, ContentSurvives

\* serialize: what it writes is of this packet, and within its size.
LEMMA SerializeWire ==
    ASSUME WireInv, NEW k \in Kinds, serialize(k) PROVE WireInv'
<1>1. /\ k \in AllKinds /\ kind' = k /\ number' = number + 1 /\ pc' = "sent"
      /\ end' = end /\ tail' = tail /\ number \in Nat /\ number < MaxPackets
      /\ DOMAIN buffer = 0..63 /\ MaxPackets \in Nat
  <2>1. /\ kind' = k /\ number' = number + 1 /\ pc' = "sent"
        /\ end' = end /\ tail' = tail /\ number < MaxPackets
    BY Zenon DEF serialize
  <2>2. k \in AllKinds /\ MaxPackets \in Nat
    BY WireAssumption
  <2>3. number \in Nat /\ DOMAIN buffer = 0..63
    BY DEF WireInv, TypeOK
  <2> QED BY <2>1, <2>2, <2>3
<1>2. /\ DOMAIN buffer' = 0..63
      /\ \A i \in 0..63 : Covers(k, i) = {} => buffer'[i] = buffer[i]
      /\ \A i \in 0..63 : Covers(k, i) # {} =>
           LET p == Writes(k)[Max(Covers(k, i))]
           IN  buffer'[i] = [packet |-> number', field |-> p.field, byte |-> i - p.offset + 1]
  BY <1>1, SerializeBytes
<1>3. \A i \in 0..63 : buffer[i].packet \in 0..number
  BY DEF WireInv, BytesOK
<1>4. TypeOK'
  BY <1>1, <1>2 DEF WireInv, TypeOK
<1>5. BytesOK'
  <2>1. ASSUME NEW i \in 0..63 PROVE buffer'[i].packet \in 0..number'
    <3>1. CASE Covers(k, i) = {}
      <4>1. buffer'[i] = buffer[i]
        BY <1>2, <3>1, Zenon
      <4>2. \A x : x \in 0..number => x \in 0..(number + 1)
        BY <1>1
      <4> QED BY <1>1, <1>3, <4>1, <4>2
    <3>2. CASE Covers(k, i) # {}
      <4>1. PICK p : buffer'[i] = [packet |-> number', field |-> p.field, byte |-> i - p.offset + 1]
        BY <1>2, <3>2, Zenon
      <4>2. buffer'[i].packet = number + 1 /\ number + 1 \in 0..(number + 1)
        BY <1>1, <4>1
      <4> QED BY <1>1, <4>2
    <3> QED BY <3>1, <3>2
  <2>2. Kept(k, buffer', number')
    BY <1>1, SerializeKeeps
  <2>3. Kept(kind, buffer, number)'
    BY <1>1, <2>2 DEF Kept, HoldsAt
  <2> QED BY <2>1, <2>3 DEF BytesOK
<1>6. BufferHolds'
  <2>1. ASSUME NEW i \in 0..63, i >= get_packet_size(k) PROVE buffer'[i].packet < number'
    <3>1. Covers(k, i) = {}
      <4>1. ASSUME NEW j \in Covers(k, i) PROVE FALSE
        <5>1. j \in DOMAIN Writes(k) /\ i < Writes(k)[j].offset + Writes(k)[j].width
          BY DEF Covers
        <5>2. /\ Writes(k)[j].offset \in Nat /\ Writes(k)[j].width \in Nat
              /\ Writes(k)[j].offset + Writes(k)[j].width <= Class[k].length + 12
          BY <1>1, <5>1, WritesBound
        <5> QED BY <1>1, <2>1, <5>1, <5>2, SizesAre
      <4> QED BY <4>1
    <3>2. buffer'[i] = buffer[i]
      BY <1>2, <3>1, Zenon
    <3>3. \A x : x \in 0..number => x < number + 1
      BY <1>1
    <3> QED BY <1>1, <1>3, <3>2, <3>3
  <2> QED BY <1>1, <1>2, <2>1 DEF BufferHolds, get_packet_size
<1> QED BY <1>1, <1>4, <1>5, <1>6 DEF WireInv, TailOK, HeaderSurvives, ContentSurvives

\* What a step that leaves the buffer and the packet alone keeps.
LEMMA BytesStay ==
    ASSUME BytesOK, UNCHANGED <<kind, number, buffer>>, pc # "idle" PROVE BytesOK'
BY DEF BytesOK, Kept, HoldsAt

\* The receiver only chooses the tail, which is within the buffer.
LEMMA ReceiveWire ==
    ASSUME WireInv, NEW e \in Ends, Receive(e) PROVE WireInv'
<1>1. BytesOK'
  BY BytesStay DEF WireInv, Receive
<1>2. kind \in AllKinds
  BY WireAssumption DEF WireInv, TypeOK
<1>3. tail' \in 0..63
  BY <1>2, SizesAre DEF Receive
<1>4. TypeOK'
  BY <1>3 DEF WireInv, TypeOK, Receive
<1>5. TailOK'
  BY DEF TailOK, Receive, get_packet_size
<1> QED BY <1>1, <1>4, <1>5 DEF WireInv, Receive, BufferHolds, HeaderSurvives, ContentSurvives

\* Packet::deserialize (Packet.cxx:7-18): read from where the last write ends,
\* the general header is this packet's.
LEMMA StripHeaderWire == ASSUME WireInv, StripHeader PROVE WireInv'
<1>1. BytesOK'
  BY BytesStay DEF WireInv, StripHeader
<1>2. kind \in AllKinds
  BY WireAssumption DEF WireInv, TypeOK
<1>3. PICK d \in 1..46 : d = Class[kind].length
  BY <1>2, SizesAre
<1>4. /\ tail = IF end = "packet" THEN get_packet_size(kind) ELSE d + 12
      /\ get_packet_size(kind) \in (d + 13)..(d + 15)
  BY <1>2, <1>3, SizesAre DEF WireInv, TailOK, StripHeader
<1>5. TypeOK'
  BY <1>4 DEF WireInv, TypeOK, StripHeader
<1>6. TailOK'
  BY <1>3, <1>4 DEF TailOK, StripHeader, get_packet_size
<1>7. HeaderSurvives'
  <2> SUFFICES ASSUME end = "header", NEW p \in Range(GeneralHeader)
               PROVE  header'[p.field] = Bytes(p.field, p.width, number)
    BY DEF HeaderSurvives, Sent, StripHeader
  <2>1. PICK y \in 1..4 : p = GeneralHeader[y]
    BY DEF Range, GeneralHeader
  <2>2. PICK q : q = GeneralAt(d)[y]
    OBVIOUS
  <2>3. q.field = p.field /\ q.width = p.width
    BY <2>1, <2>2 DEF GeneralAt, GeneralHeader, At
  <2>4. PICK j \in DOMAIN Writes(kind) : Final(kind, j) /\ Writes(kind)[j] = q
    BY <1>2, <1>3, <2>2, GeneralFinal
  <2>5. HoldsAt(q, buffer, number)
    BY <2>4 DEF WireInv, BytesOK, Kept, StripHeader
  <2>6. PlacedAt(HeaderReads, d + 12, q) /\ InBuffer(q)
    BY <2>2, HeaderPlaces
  <2>7. tail = d + 12
    BY <1>4
  <2>8. Fields(HeaderReads, d + 12)[q.field] = Bytes(q.field, q.width, number)
    <3>1. DOMAIN buffer = 0..63
      BY DEF WireInv, TypeOK
    <3> QED BY <2>5, <2>6, <3>1, FieldIs
  <2>9. header' = Fields(HeaderReads, tail)
    BY DEF StripHeader, HeaderReads
  <2> QED BY <2>3, <2>7, <2>8, <2>9
<1> QED BY <1>1, <1>5, <1>6, <1>7 DEF WireInv, StripHeader, BufferHolds, ContentSurvives

\* The deserialize of a layer only moves the tail, which stays in the buffer
\* (Event_Packet.cxx:9-17 and its likes).
LEMMA StripLayerWire == ASSUME WireInv, StripLayer PROVE WireInv'
<1>1. BytesOK'
  BY BytesStay DEF WireInv, StripLayer
<1>2. kind \in AllKinds
  BY WireAssumption DEF WireInv, TypeOK
<1>3. /\ end = "packet" /\ tail = get_packet_size(kind) - 12
      /\ tail' = tail - Len(LayerReads[Class[kind].layer])
  BY DEF WireInv, TailOK, StripLayer
<1>4. tail' \in 0..63
  <2>1. PICK d \in 1..46, size \in Nat, n \in 1..2 :
          /\ size = get_packet_size(kind) /\ n = Len(LayerReads[Class[kind].layer])
          /\ size \in (d + 13)..(d + 15)
    <3>1. PICK d \in 1..46 : d = Class[kind].length
      BY <1>2, SizesAre
    <3>2. get_packet_size(kind) \in (d + 13)..(d + 15)
      BY <1>2, <3>1, SizesAre
    <3>3. get_packet_size(kind) \in Nat
      BY <3>2
    <3> QED BY <1>2, <3>2, <3>3, SizesAre
  <2>2. tail' = (size - 12) - n
    BY <1>3, <2>1
  <2>3. d + 13 <= size /\ size <= d + 15
    BY <2>1
  <2> QED BY <2>2, <2>3
<1>5. TypeOK'
  BY <1>4 DEF WireInv, TypeOK, StripLayer
<1>6. TailOK'
  BY <1>3 DEF TailOK, StripLayer, get_packet_size
<1> QED BY <1>1, <1>5, <1>6 DEF WireInv, StripLayer, BufferHolds, HeaderSurvives, ContentSurvives

\* The deserialize of a class (C_SYN_Packet.cxx:19-24 and its likes).
LEMMA ReadContentWire == ASSUME WireInv, ReadContent PROVE WireInv'
<1>1. BytesOK'
  BY BytesStay DEF WireInv, ReadContent
<1>2. kind \in AllKinds
  BY WireAssumption DEF WireInv, TypeOK
<1>3. TypeOK'
  BY DEF WireInv, TypeOK, ReadContent
<1>4. TailOK'
  BY DEF TailOK, ReadContent
<1>5. HeaderSurvives'
  BY DEF WireInv, HeaderSurvives, Sent, ReadContent
<1>6. ContentSurvives'
  <2> SUFFICES ASSUME end = "header", NEW f \in DOMAIN Class[kind].content \ Lost(kind)
               PROVE  content'[f] = Bytes(f, Class[kind].content[f], number)
    BY DEF ContentSurvives, Sent, ReadContent
  <2>1. PICK d \in 1..46 : d = Class[kind].length
    BY <1>2, SizesAre
  <2>2. tail = d
    BY <2>1 DEF WireInv, TailOK, ReadContent
  <2>3. PICK reads : reads = Class[kind].reads
    OBVIOUS
  <2>4. PICK j \in DOMAIN Writes(kind) :
          /\ Final(kind, j)
          /\ Writes(kind)[j].field = f /\ Writes(kind)[j].width = Class[kind].content[f]
          /\ \A r \in Range(reads) :
               r.field = f => /\ d - r.offset = Writes(kind)[j].offset
                              /\ r.width = Class[kind].content[f]
    BY <1>2, <2>1, <2>3, ContentFinal
  <2>5. PICK p : p = Writes(kind)[j]
    OBVIOUS
  <2>6. HoldsAt(p, buffer, number)
    BY <2>4, <2>5 DEF WireInv, BytesOK, Kept, ReadContent
  <2>7. InBuffer(p)
    <3>1. p.offset \in Nat /\ p.width \in Nat /\ p.offset + p.width <= d + 12
      BY <1>2, <2>1, <2>5, WritesBound
    <3> QED BY <3>1 DEF InBuffer
  <2>8. PlacedAt(reads, d, p)
    <3>1. \E r \in Range(reads) : r.field = f
      BY <1>2, <2>3, EveryLayout DEF ReadBack, FieldReadBack
    <3> QED BY <2>4, <2>5, <3>1 DEF PlacedAt
  <2>9. Fields(reads, d)[p.field] = Bytes(p.field, p.width, number)
    <3>1. DOMAIN buffer = 0..63
      BY DEF WireInv, TypeOK
    <3> QED BY <2>6, <2>7, <2>8, <3>1, FieldIs
  <2>10. content' = Fields(reads, d)
    BY <2>2, <2>3 DEF ReadContent
  <2> QED BY <2>4, <2>5, <2>9, <2>10
<1> QED BY <1>1, <1>3, <1>4, <1>5, <1>6 DEF WireInv, ReadContent, BufferHolds

----------------------------------------------------------------------------
(* The theorems.                                                           *)

\* Every state of a run satisfies the invariant: what a packet's writes left
\* uncovered stays in the buffer until the next packet, and the tail is where
\* the readers so far have moved it.
THEOREM PacketInvariant == Spec => []WireInv
<1>1. ASSUME WireInv, [Next]_vars PROVE WireInv'
  <2>1. CASE \E k \in Kinds : serialize(k)
    BY <1>1, <2>1, SerializeWire
  <2>2. CASE \E e \in Ends : Receive(e)
    BY <1>1, <2>2, ReceiveWire
  <2>3. CASE StripHeader
    BY <1>1, <2>3, StripHeaderWire
  <2>4. CASE StripLayer
    BY <1>1, <2>4, StripLayerWire
  <2>5. CASE ReadContent
    BY <1>1, <2>5, ReadContentWire
  <2>6. CASE UNCHANGED vars
    BY <1>1, <2>6 DEF WireInv, TypeOK, BytesOK, Kept, HoldsAt, TailOK, BufferHolds,
                      HeaderSurvives, ContentSurvives, Sent, get_packet_size, vars
  <2> QED BY <1>1, <2>1, <2>2, <2>3, <2>4, <2>5, <2>6 DEF Next
<1> QED BY InitWire, <1>1, PTL DEF Spec

\* No reader moves the tail in front of the data, or past the 64 bytes
\* (Packet.cxx:15 and the like of every layer).
THEOREM PacketTypeCorrect == Spec => []TypeOK
<1>1. WireInv => TypeOK
  BY DEF WireInv
<1> QED BY PacketInvariant, <1>1, PTL

\* A packet of any class fits in what get_packet_size (I_Minion_Packet.cxx:42-44
\* and its likes) tells the caller to allocate.
THEOREM BufferHoldsCorrect == Spec => []BufferHolds
<1>1. WireInv => BufferHolds
  BY DEF WireInv
<1> QED BY PacketInvariant, <1>1, PTL

\* With the tail where the last write ends, at length + 12, which no size function
\* of the code reports, every field of every class but the lost ones is read as
\* this packet wrote it (C_SYN_Packet.cxx:9-24 and its likes).
THEOREM ContentCorrect == Spec => []ContentSurvives
<1>1. WireInv => ContentSurvives
  BY DEF WireInv
<1> QED BY PacketInvariant, <1>1, PTL

\* Read from where the last write ends, the general header is that of this
\* packet (Packet.cxx:7-28).
THEOREM HeaderCorrect == Spec => []HeaderSurvives
<1>1. WireInv => HeaderSurvives
  BY DEF WireInv
<1> QED BY PacketInvariant, <1>1, PTL

=============================================================================
