------------------------------- MODULE Protocol -------------------------------
(***************************************************************************)
(* The packets of rb_protocol.c: who may send which, how long each is, and   *)
(* what the receiver checks before it believes one.                         *)
(*                                                                         *)
(* A frame is what is on the air: the header fields the checks look at, the  *)
(* length, whether the checksum fits, and the body, one value that encoding  *)
(* and decoding carry unchanged (readings in centimetres and hundredths of a *)
(* degree).  Node, sequence number and uptime are used by sensor_node.c.      *)
(***************************************************************************)
EXTENDS Naturals

Magic == 16978      \* RB_PROTOCOL_MAGIC
Version == 3        \* RB_PROTOCOL_VERSION
HeaderLen == 17
CrcLen == 2

\* rb_msg_type_t, and the length of each body on the wire; a heat-map piece has
\* a decoder of its own.
BodyLen == [presence_data |-> 7, thermal_data |-> 19, heartbeat |-> 10, sensor_fault |-> 8, c4002_config |-> 83,
            c4002_config_ack |-> 77, c4002_live |-> 27, thermal_config |-> 9]
Types == DOMAIN BodyLen

\* packet_len: 0 for a type the receiver does not know.
PacketLen(type) == IF type \in Types THEN HeaderLen + BodyLen[type] + CrcLen ELSE 0

\* role_ok: each message may only come from a sender of the matching role.
RoleOk(role, type) ==
    type \in CASE role = "presence" -> {"presence_data", "heartbeat", "sensor_fault", "c4002_config_ack", "c4002_live"}
               [] role = "thermal" -> {"thermal_data", "heartbeat", "sensor_fault", "thermal_frame"}
               [] role = "controller" -> {"c4002_config", "thermal_config"}
               [] OTHER -> {}

\* rb_protocol_encode: nothing (length 0) for a type the role may not send.
Encode(role, type, body) ==
    [length |-> IF type \in Types /\ RoleOk(role, type) THEN PacketLen(type) ELSE 0,
     magic |-> Magic, version |-> Version, type |-> type, role |-> role, crc |-> TRUE, body |-> body]

\* rb_protocol_decode and decode_header: the first check that fails names the
\* error.  A frame too short to have a type is one of a bad length.
Decode(f) ==
    CASE f.length < HeaderLen + CrcLen -> "length"
      [] f.magic # Magic -> "magic"
      [] f.version # Version -> "version"
      [] PacketLen(f.type) = 0 -> "type"
      [] f.length # PacketLen(f.type) -> "length"
      [] ~ f.crc -> "crc"
      [] ~ RoleOk(f.role, f.type) -> "role"
      [] OTHER -> "ok"

\* rb_protocol_is_frame_piece: such a frame never gets to the safety task.
IsFramePiece(f) == f.length > 3 /\ f.type = "thermal_frame"
=============================================================================
