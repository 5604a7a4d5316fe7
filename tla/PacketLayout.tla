---------------------------- MODULE PacketLayout ----------------------------
(***************************************************************************)
(* Where the packet classes write and read the fields of their contents.   *)
(*                                                                         *)
(* A place is a field, an offset and a width, as in a memcpy: writes are   *)
(* offsets from the start of the data, reads are distances back from the   *)
(* tail.  Both are in the order of the code, for a later write covers an   *)
(* earlier one.  length is the number of content bytes, which every class  *)
(* gives to add_header and counts in get_packet_size.                      *)
(*                                                                         *)
(* These are the classes the Makefile builds.  I_Primary_Packet is not     *)
(* among them: its constructor does not compile.                           *)
(***************************************************************************)
EXTENDS Integers, Sequences, SequencesExt

At(field, offset, width) == [field |-> field, offset |-> offset, width |-> width]

----------------------------------------------------------------------------
(* The contents, with the width of each field.                             *)

c_ping       == [stamp |-> 1]
syn_request  == [req |-> 1, conf_number |-> 1]
auto_notify  == [target |-> 2, experience |-> 2, damage |-> 2, conf |-> 1]
auto_request == [target |-> 2]
move_notify  == [x |-> 4, y |-> 4, z |-> 4, conf |-> 1]
move_request == [x |-> 4, y |-> 4, z |-> 4]
g_ping       == [ping |-> 1, x |-> 4, y |-> 4]
primary_notify ==
    [p_attack |-> 1, player_x |-> 4, player_y |-> 4, player_z |-> 4,
     target_x |-> 4, target_y |-> 4, target_z |-> 4, experience |-> 2, conf |-> 1]
primary_request ==
    [p_attack |-> 1, player_x |-> 4, player_y |-> 4, player_z |-> 4,
     target_x |-> 4, target_y |-> 4, target_z |-> 4]
auto_update ==
    [x |-> 4, y |-> 4, z |-> 4, owner |-> 2, target |-> 2, damage |-> 2, removed |-> 1]
lasthit_update == [attacker_id |-> 2, target_id |-> 2, kill |-> 1]
player_update ==
    [player_id |-> 2, gold |-> 2, health |-> 2, max_health |-> 2, mana |-> 2,
     max_mana |-> 2, cs |-> 2, experience |-> 4, x |-> 4, y |-> 4, z |-> 4,
     rot_x |-> 4, rot_y |-> 4, rot_z |-> 4, auto_target |-> 2, respawn_timer |-> 1,
     level |-> 1]
minion_update ==
    [id |-> 2, health |-> 2, max_health |-> 2, x |-> 4, y |-> 4, z |-> 4,
     rot_x |-> 4, rot_y |-> 4, rot_z |-> 4, auto_target |-> 2]
objective_update ==
    [id |-> 2, health |-> 2, max_health |-> 2, x |-> 4, y |-> 4, z |-> 4,
     auto_target |-> 2]

----------------------------------------------------------------------------
(* The protocol packets.                                                   *)

C_Ping ==
    [layer |-> "protocol", length |-> 1, content |-> c_ping,
     writes |-> <<At("stamp", 0, 1)>>,
     reads  |-> <<At("stamp", 1, 1)>>]

C_SYN ==
    [layer |-> "protocol", length |-> 2, content |-> syn_request,
     writes |-> <<At("req", 0, 1), At("conf_number", 1, 1)>>,
     reads  |-> <<At("conf_number", 1, 1), At("req", 2, 1)>>]

----------------------------------------------------------------------------
(* The event packets.                                                      *)

G_Auto_Notify ==
    [layer |-> "event", length |-> 7, content |-> auto_notify,
     writes |-> <<At("target", 0, 2), At("experience", 2, 2), At("damage", 4, 2),
                  At("conf", 6, 1)>>,
     reads  |-> <<At("conf", 1, 1), At("damage", 3, 2), At("experience", 5, 2),
                  At("target", 7, 2)>>]

G_Auto_Request ==
    [layer |-> "event", length |-> 2, content |-> auto_request,
     writes |-> <<At("target", 0, 2)>>,
     reads  |-> <<At("target", 2, 2)>>]

G_Move_Notify ==
    [layer |-> "event", length |-> 13, content |-> move_notify,
     writes |-> <<At("x", 0, 4), At("y", 4, 4), At("z", 8, 4), At("conf", 12, 1)>>,
     reads  |-> <<At("conf", 1, 1), At("z", 5, 4), At("y", 9, 4), At("x", 13, 4)>>]

G_Move_Request ==
    [layer |-> "event", length |-> 12, content |-> move_request,
     writes |-> <<At("x", 0, 4), At("y", 4, 4), At("z", 8, 4)>>,
     reads  |-> <<At("z", 4, 4), At("y", 8, 4), At("x", 12, 4)>>]

G_Ping ==
    [layer |-> "event", length |-> 9, content |-> g_ping,
     writes |-> <<At("ping", 0, 1), At("x", 1, 4), At("y", 5, 4)>>,
     reads  |-> <<At("y", 4, 4), At("x", 8, 4), At("ping", 9, 1)>>]

\* experience is neither written nor read.
G_Primary_Notify ==
    [layer |-> "event", length |-> 26, content |-> primary_notify,
     writes |-> <<At("p_attack", 0, 1), At("player_x", 1, 4), At("player_y", 5, 4),
                  At("player_z", 9, 4), At("target_x", 13, 4), At("target_y", 17, 4),
                  At("target_z", 21, 4), At("conf", 25, 1)>>,
     reads  |-> <<At("conf", 1, 1), At("target_z", 5, 4), At("target_y", 9, 4),
                  At("target_x", 13, 4), At("player_z", 17, 4), At("player_y", 21, 4),
                  At("player_x", 25, 4), At("p_attack", 26, 1)>>]

G_Primary_Request ==
    [layer |-> "event", length |-> 25, content |-> primary_request,
     writes |-> <<At("p_attack", 0, 1), At("player_x", 1, 4), At("player_y", 5, 4),
                  At("player_z", 9, 4), At("target_x", 13, 4), At("target_y", 17, 4),
                  At("target_z", 21, 4)>>,
     reads  |-> <<At("target_z", 4, 4), At("target_y", 8, 4), At("target_x", 12, 4),
                  At("player_z", 16, 4), At("player_y", 20, 4), At("player_x", 24, 4),
                  At("p_attack", 25, 1)>>]

----------------------------------------------------------------------------
(* The sync packets.                                                       *)

I_Auto ==
    [layer |-> "sync", length |-> 19, content |-> auto_update,
     writes |-> <<At("x", 0, 4), At("y", 4, 4), At("z", 8, 4), At("owner", 12, 2),
                  At("target", 14, 2), At("damage", 16, 2), At("removed", 18, 1)>>,
     reads  |-> <<At("removed", 1, 1), At("damage", 3, 2), At("target", 5, 2),
                  At("owner", 7, 2), At("z", 11, 4), At("y", 15, 4), At("x", 19, 4)>>]

I_LastHit ==
    [layer |-> "sync", length |-> 5, content |-> lasthit_update,
     writes |-> <<At("attacker_id", 0, 2), At("target_id", 2, 2), At("kill", 4, 1)>>,
     reads  |-> <<At("kill", 1, 1), At("target_id", 3, 2), At("attacker_id", 5, 2)>>]

I_Local_Player ==
    [layer |-> "sync", length |-> 46, content |-> player_update,
     writes |-> <<At("player_id", 0, 2), At("gold", 2, 2), At("health", 4, 2),
                  At("max_health", 6, 2), At("mana", 8, 2), At("max_mana", 10, 2),
                  At("cs", 12, 2), At("experience", 14, 4), At("x", 18, 4),
                  At("y", 22, 4), At("z", 26, 4), At("rot_x", 30, 4),
                  At("rot_y", 34, 4), At("rot_z", 38, 4), At("auto_target", 42, 2),
                  At("respawn_timer", 44, 1), At("level", 45, 1)>>,
     reads  |-> <<At("level", 1, 1), At("respawn_timer", 2, 1), At("auto_target", 4, 2),
                  At("rot_z", 8, 4), At("rot_y", 12, 4), At("rot_x", 16, 4),
                  At("z", 20, 4), At("y", 24, 4), At("x", 28, 4),
                  At("experience", 32, 4), At("cs", 34, 2), At("max_mana", 36, 2),
                  At("mana", 38, 2), At("max_health", 40, 2), At("health", 42, 2),
                  At("gold", 44, 2), At("player_id", 46, 2)>>]

\* rot_x covers the last two bytes of z, and y and z are read two bytes late or early.
I_Minion ==
    [layer |-> "sync", length |-> 30, content |-> minion_update,
     writes |-> <<At("id", 0, 2), At("health", 2, 2), At("max_health", 4, 2),
                  At("x", 6, 4), At("y", 10, 4), At("z", 14, 4), At("rot_x", 16, 4),
                  At("rot_y", 20, 4), At("rot_z", 24, 4), At("auto_target", 28, 2)>>,
     reads  |-> <<At("auto_target", 2, 2), At("rot_z", 6, 4), At("rot_y", 10, 4),
                  At("rot_x", 14, 4), At("z", 18, 4), At("y", 22, 4), At("x", 24, 4),
                  At("max_health", 26, 2), At("health", 28, 2), At("id", 30, 2)>>]

\* The variant that has I_Minion's slip: z is four bytes wide but followed at two.
I_ObjectiveOverlaps ==
    [layer |-> "sync", length |-> 20, content |-> objective_update,
     writes |-> <<At("id", 0, 2), At("health", 2, 2), At("max_health", 4, 2),
                  At("x", 6, 4), At("y", 10, 4), At("z", 14, 4),
                  At("auto_target", 16, 2)>>,
     reads  |-> <<At("auto_target", 2, 2), At("z", 6, 4), At("y", 10, 4),
                  At("x", 14, 4), At("max_health", 16, 2), At("health", 18, 2),
                  At("id", 20, 2)>>]

I_Objective ==
    [layer |-> "sync", length |-> 20, content |-> objective_update,
     writes |-> <<At("id", 0, 2), At("health", 2, 2), At("max_health", 4, 2),
                  At("x", 6, 4), At("y", 10, 4), At("z", 14, 4),
                  At("auto_target", 18, 2)>>,
     reads  |-> <<At("auto_target", 2, 2), At("z", 6, 4), At("y", 10, 4),
                  At("x", 14, 4), At("max_health", 16, 2), At("health", 18, 2),
                  At("id", 20, 2)>>]

----------------------------------------------------------------------------

Class ==
    [C_Ping |-> C_Ping, C_SYN |-> C_SYN,
     G_Auto_Notify |-> G_Auto_Notify, G_Auto_Request |-> G_Auto_Request,
     G_Move_Notify |-> G_Move_Notify, G_Move_Request |-> G_Move_Request,
     G_Ping |-> G_Ping, G_Primary_Notify |-> G_Primary_Notify,
     G_Primary_Request |-> G_Primary_Request,
     I_Auto |-> I_Auto, I_LastHit |-> I_LastHit, I_Local_Player |-> I_Local_Player,
     I_Minion |-> I_Minion, I_Objective |-> I_Objective]

AllKinds == DOMAIN Class

=============================================================================
