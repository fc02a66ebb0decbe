--------------------------- MODULE WebSocketFrame ---------------------------
(***************************************************************************)
(* The frames of the customer display gateway: the header that             *)
(* encodeWebSocketFrame() puts before a payload, and                       *)
(* decodeWebSocketFrame().  What a payload says, and the XOR with the mask *)
(* that hides it, decide nothing and are left out: a frame is its opcode   *)
(* and the length of its payload.  Lengths are below 2^31.                 *)
(***************************************************************************)
EXTENDS Integers, Sequences

TextOpcode == 1
CloseOpcode == 8
PingOpcode == 9
PongOpcode == 10

\* Payloads shorter than this have their length in the second byte.
SevenBitLimit == 126

\* From here on, it has eight bytes of its own.
SixteenBitLimit == 256 * 256

\* The bytes before the payload: FIN and opcode, then the length in 1, 3 or 9 bytes.
Header(opcode, len) ==
    IF len < SevenBitLimit THEN <<128 + opcode, len>>
    ELSE IF len < SixteenBitLimit THEN <<128 + opcode, 126, len \div 256, len % 256>>
    ELSE <<128 + opcode, 127, 0, 0, 0, 0,
           len \div (256 * SixteenBitLimit), (len \div SixteenBitLimit) % 256,
           (len \div 256) % 256, len % 256>>

\* The first ten bytes of a frame, numbered as in a Buffer.
FirstBytes(header) ==
    [k \in 0 .. 9 |-> IF k < Len(header) THEN header[k + 1] ELSE 0]

\* The mask that follows the length when the mask bit is set.
MaskLength(secondByte) == IF secondByte >= 128 THEN 4 ELSE 0

\* How many bytes of extended length follow the second byte.
ExtendedBy(secondByte) ==
    IF secondByte % 128 = 126 THEN 2
    ELSE IF secondByte % 128 = 127 THEN 8
    ELSE 0

\* The length, given the first ten bytes: byte[0], byte[1], ...
PayloadLength(byte) ==
    IF ExtendedBy(byte[1]) = 2 THEN byte[2] * 256 + byte[3]
    ELSE IF ExtendedBy(byte[1]) = 8
        THEN ((byte[6] * 256 + byte[7]) * 256 + byte[8]) * 256 + byte[9]
    ELSE byte[1] % 128

TooShort_WhenExact(size, needed) == size <= needed

TooShort(size, needed) == size < needed

\* No frame is complete yet.
NoFrame == [opcode |-> -1, from |-> 0, len |-> 0, bytesRead |-> 0]

\* The frame at the start of a buffer of `size` bytes, of which byte gives the first
\* ten: its opcode, where its payload starts, the payload's length, and its end.
Decode(size, byte) ==
    LET lengthEnd == 2 + ExtendedBy(byte[1])
        from == lengthEnd + MaskLength(byte[1])
        len == PayloadLength(byte)
    IN  IF size < 2 \/ size < lengthEnd \/ TooShort(size, from + len)
        THEN NoFrame
        ELSE [opcode |-> byte[0] % 16, from |-> from, len |-> len, bytesRead |-> from + len]
=============================================================================
