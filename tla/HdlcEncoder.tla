------------------------------ MODULE HdlcEncoder ------------------------------
(***************************************************************************)
(* The one-shot encoder and decoder: HdlcEncoder of                        *)
(* src/src/proto/hdlc/low_level.rs, two pure functions over whole buffers. *)
(* encode cannot fail; decode stops at the flag that follows some bytes.   *)
(***************************************************************************)
EXTENDS HdlcLl, SequencesExt

CONSTANT CrcDefault    \* whether crc_type is HdlcCrcDefault

(* The checksum encode and decode take: that of HdlcLl, but with           *)
(* HdlcCrcDefault they leave it at 0, in a field of the same size.         *)
EncoderCrc(data) == IF CrcDefault THEN [i \in 1 .. CrcSize |-> 0] ELSE Crc(data)

Stuffed(byte) == IF byte \in Special THEN <<Escape, Toggle(byte)>> ELSE <<byte>>

(* Everything between the flags.                                           *)
StuffedAll(bytes) == FlattenSeq([i \in DOMAIN bytes |-> Stuffed(bytes[i])])

(* A payload and its checksum as they stand on the line.                   *)
Framed(bytes) == <<Flag>> \o StuffedAll(bytes) \o <<Flag>>

Encode(data) == Framed(data \o EncoderCrc(data))

-------------------------------------------------------------------------------
(* The loop of decode after some bytes: how many it has consumed, whether  *)
(* it has left, and its two locals escape and result.                      *)
DecodeStart == [consumed |-> 0, done |-> FALSE, escape |-> FALSE, result |-> <<>>]

DecodeByte(d, byte) ==
    IF d.done THEN d
    ELSE IF byte = Flag
    THEN [d EXCEPT !.consumed = @ + 1, !.done = d.result # <<>>]
    ELSE IF byte = Escape THEN [d EXCEPT !.consumed = @ + 1, !.escape = TRUE]
    ELSE [d EXCEPT !.consumed = @ + 1, !.escape = FALSE,
                   !.result = Append(@, IF d.escape THEN Toggle(byte) ELSE byte)]

(* Byte by byte from the first.                                            *)
Decoded(bytes) ==
    LET d[i \in 0 .. Len(bytes)] ==
            IF i = 0 THEN DecodeStart ELSE DecodeByte(d[i - 1], bytes[i])
    IN  d[Len(bytes)]

Verified(result) ==
    /\ Len(result) >= CrcSize
    /\ EncoderCrc(Stripped(result)) = SubSeq(result, Len(result) - CrcSize + 1, Len(result))

(* The bytes consumed, and the payload or nothing where the code answers   *)
(* InvalidData or WrongCrc.                                                *)
Decode(bytes) ==
    LET d == Decoded(bytes)
    IN  [consumed |-> d.consumed,
         payload |-> IF Verified(d.result) THEN <<Stripped(d.result)>> ELSE <<>>]

===============================================================================
