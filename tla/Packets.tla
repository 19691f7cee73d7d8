------------------------------- MODULE Packets -------------------------------
(***************************************************************************)
(* The packets of include/common/protocol.h as far as a receiver can tell  *)
(* them apart: who sent them, their length, the header fields it looks at, *)
(* whether the CRC over the rest matches the last four bytes, the message  *)
(* type and the payload.  The CRC is assumed to notice the damage the      *)
(* radio does, so `intact` stands for the comparison.                      *)
(***************************************************************************)
EXTENDS Naturals

PACKET_MAGIC == 167
PROTOCOL_VERSION == 1

\* sizeof of the packed structs, in bytes.
HeaderSize == 12
PayloadSize == [HEARTBEAT |-> 8, STATUS |-> 16, ARM_SET |-> 8,
                FIRE_CMD |-> 12, FIRE_ACK |-> 12]
PacketSize(msgType) == HeaderSize + PayloadSize[msgType] + 4

\* fillHeader and the CRC: what the firmware of `from` gives to esp_now_send.
Packet(from, msgType, payload) ==
    [mac |-> from, len |-> PacketSize(msgType), magic |-> PACKET_MAGIC,
     version |-> PROTOCOL_VERSION, msgType |-> msgType, intact |-> TRUE,
     payload |-> payload]

\* One thing wrong with a packet: another device sent it, it is cut, longer or
\* damaged, belongs to another protocol or version, or has an unknown type.
Deviations(p) ==
    {[p EXCEPT !.mac = "STRANGER"], [p EXCEPT !.len = HeaderSize + 3],
     [p EXCEPT !.len = @ + 1],      [p EXCEPT !.intact = FALSE],
     [p EXCEPT !.magic = 0],        [p EXCEPT !.version = 2],
     [p EXCEPT !.msgType = "OTHER"]}
=============================================================================
