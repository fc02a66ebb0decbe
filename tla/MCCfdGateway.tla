---------------------------- MODULE MCCfdGateway ----------------------------
(***************************************************************************)
(* Small instances of CfdGateway: displays that send pings with a short    *)
(* and with the longest control payload, texts with a length of two and of *)
(* eight bytes, and close frames.                                          *)
(***************************************************************************)
EXTENDS CfdGateway, TLC

CONSTANTS s1, s2, b1, b2

MCFrame(opcode, len) == [opcode |-> opcode, len |-> len]
MCFrames == {MCFrame(PingOpcode, 125), MCFrame(TextOpcode, 126),
             MCFrame(TextOpcode, 65536), MCFrame(CloseOpcode, 2)}
MCSymmetry == Permutations(Sockets) \cup Permutations(Branches)
=============================================================================
