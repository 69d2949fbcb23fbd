-------------------------------- MODULE HdlcLl --------------------------------
(***************************************************************************)
(* The byte-level framing that all protocols use: HdlcLl of                *)
(* src/src/proto/hdlc/low_level_ll.rs.  Its receiver and its transmitter   *)
(* share nothing but the configuration and are two records here.  The      *)
(* operators handle one byte; run_rx and run_tx with longer buffers do the *)
(* same byte after byte, and their callers go on where an error made       *)
(* run_rx stop.                                                            *)
(***************************************************************************)
EXTENDS Naturals, Sequences

CONSTANTS
    ByteMod,      \* number of byte values: 256
    Flag,         \* FLAG_SEQUENCE, 0x7E
    Escape,       \* ESCAPE_CHAR, 0x7D
    EscapeBit,    \* ESCAPE_BIT, 0x20
    PhysMtu,      \* phys_mtu: bytes the receiver keeps of a frame, CRC included
    Crc(_)        \* the bytes of the checksum, lowest first; <<>> for HdlcCrcOff

Byte == 0 .. ByteMod - 1

Special == {Flag, Escape}

(* b ^ ESCAPE_BIT                                                          *)
Toggle(b) == IF (b \div EscapeBit) % 2 = 1 THEN b - EscapeBit ELSE b + EscapeBit

ASSUME ByteAssumption ==
    /\ ByteMod \in Nat \ {0} /\ EscapeBit \in Nat \ {0}
    /\ Special \subseteq Byte /\ Flag # Escape
    /\ \A b \in Byte : Toggle(b) \in Byte
    /\ \A b \in Special : Toggle(b) \notin Special /\ Toggle(Toggle(b)) = b
ASSUME MtuAssumption == PhysMtu \in Nat \ {0}

-------------------------------------------------------------------------------
(***************************************************************************)
(* Reception.  The phase End lasts only while run_rx runs, so between two  *)
(* calls the receiver is in Start or in Data.                              *)
(***************************************************************************)

Rx == [state : {"Start", "Data"}, buf : Seq(Byte), escape : BOOLEAN,
       frames : Seq(Seq(Byte))]

NewRx == [state |-> "Start", buf |-> <<>>, escape |-> FALSE, frames |-> <<>>]

ResetRx(rx) == [rx EXCEPT !.state = "Start", !.buf = <<>>, !.escape = FALSE]

CrcSize == Len(Crc(<<>>))

(* Frames whose checksum fills its field: all, with every HdlcCrcT.        *)
Sendable(data) == data \in Seq(Byte) /\ Crc(data) \in Seq(Byte) /\ Len(Crc(data)) = CrcSize

(* What remains of a received buffer without its checksum.                 *)
Stripped(buf) == SubSeq(buf, 1, Len(buf) - CrcSize)

CrcMatches(buf) ==
    /\ Len(buf) >= CrcSize
    /\ Crc(Stripped(buf)) = SubSeq(buf, Len(buf) - CrcSize + 1, Len(buf))

(* Seeded fault: the checksum is not compared.                             *)
EndOfFrame_NoCrc(rx) ==
    IF Len(rx.buf) <= CrcSize THEN [rx EXCEPT !.escape = FALSE]
    ELSE [rx EXCEPT !.state = "Start", !.buf = <<>>,
                    !.frames = Append(@, Stripped(rx.buf))]

(* The closing flag.  Nothing between two flags: the second one opens.     *)
EndOfFrame(rx) ==
    IF rx.buf = <<>> THEN [rx EXCEPT !.escape = FALSE]
    ELSE IF ~ CrcMatches(rx.buf) THEN [rx EXCEPT !.state = "Start"]
    ELSE [rx EXCEPT !.state = "Start", !.buf = <<>>,
                    !.frames = Append(@, Stripped(rx.buf))]

(* Seeded fault: room is tested for one byte too many.                     *)
KeepByte_OneTooMany(rx, byte) ==
    [rx EXCEPT !.escape = FALSE,
               !.buf = IF Len(@) <= PhysMtu
                       THEN Append(@, IF rx.escape THEN Toggle(byte) ELSE byte)
                       ELSE @]

(* Bytes beyond the MTU are dropped, the frame goes on.                    *)
KeepByte(rx, byte) ==
    [rx EXCEPT !.escape = FALSE,
               !.buf = IF Len(@) < PhysMtu
                       THEN Append(@, IF rx.escape THEN Toggle(byte) ELSE byte)
                       ELSE @]

(* Seeded fault: an opening flag leaves the bytes of a bad frame in place. *)
RxByte_KeepsBuffer(rx, byte) ==
    IF rx.state = "Start"
    THEN IF byte = Flag THEN [rx EXCEPT !.state = "Data", !.escape = FALSE] ELSE rx
    ELSE IF byte = Flag THEN EndOfFrame(rx)
    ELSE IF byte = Escape THEN [rx EXCEPT !.escape = TRUE]
    ELSE KeepByte(rx, byte)

RxByte(rx, byte) ==
    IF rx.state = "Start"
    THEN IF byte = Flag
         THEN [rx EXCEPT !.state = "Data", !.buf = <<>>, !.escape = FALSE]
         ELSE rx
    ELSE IF byte = Flag THEN EndOfFrame(rx)
    ELSE IF byte = Escape THEN [rx EXCEPT !.escape = TRUE]
    ELSE KeepByte(rx, byte)

GetRxFrame(rx) == [rx EXCEPT !.frames = Tail(@)]

-------------------------------------------------------------------------------
(***************************************************************************)
(* Transmission.  The phases Data and Crc do the same with the bytes of    *)
(* the frame and of its checksum, they are one phase Data here; data is    *)
(* empty when there is no frame, put_frame does not take an empty one.     *)
(***************************************************************************)

Tx == [state : {"Start", "Data"}, data : Seq(Byte), pos : Nat, escape : BOOLEAN,
       sent : Seq(Seq(Byte))]

NewTx == [state |-> "Start", data |-> <<>>, pos |-> 0, escape |-> FALSE, sent |-> <<>>]

(* Seeded fault: the phase stays.                                          *)
ResetTx_KeepsPhase(tx) == [tx EXCEPT !.data = <<>>, !.pos = 0, !.escape = FALSE]

ResetTx(tx) == [tx EXCEPT !.state = "Start", !.data = <<>>, !.pos = 0, !.escape = FALSE]

TxBusy(tx) == tx.data # <<>>

(* put_frame answers Ok or Busy; an empty frame is Ok and not queued.      *)
(* Seeded fault: a frame that is still going out is replaced.              *)
PutAccepts_Always(tx, data) == TRUE

PutAccepts(tx, data) == data = <<>> \/ ~ TxBusy(tx)

PutFrame(tx, data) == IF data = <<>> THEN tx ELSE [tx EXCEPT !.data = data, !.pos = 0]

(* What goes between the flags.                                            *)
Body(tx) == tx.data \o Crc(tx.data)

NextByte(tx) == Body(tx)[tx.pos + 1]

(* Seeded fault: the checksum is sent without escapes.                     *)
TxOut_RawCrc(tx) ==
    IF tx.state = "Start" \/ tx.pos = Len(Body(tx)) THEN Flag
    ELSE IF NextByte(tx) \notin Special \/ tx.pos >= Len(tx.data) THEN NextByte(tx)
    ELSE IF tx.escape THEN Toggle(NextByte(tx))
    ELSE Escape

(* The byte run_tx writes next; there is one while TxBusy.                 *)
TxOut(tx) ==
    IF tx.state = "Start" \/ tx.pos = Len(Body(tx)) THEN Flag
    ELSE IF NextByte(tx) \notin Special THEN NextByte(tx)
    ELSE IF tx.escape THEN Toggle(NextByte(tx))
    ELSE Escape

(* The transmitter after that byte.  The closing flag ends the frame and   *)
(* leaves a notification.                                                  *)
TxStep(tx) ==
    IF tx.state = "Start" THEN [tx EXCEPT !.state = "Data", !.pos = 0, !.escape = FALSE]
    ELSE IF tx.pos = Len(Body(tx))
    THEN [tx EXCEPT !.state = "Start", !.escape = FALSE, !.data = <<>>,
                    !.sent = Append(@, tx.data)]
    ELSE IF NextByte(tx) \in Special /\ ~ tx.escape THEN [tx EXCEPT !.escape = TRUE]
    ELSE [tx EXCEPT !.escape = FALSE, !.pos = @ + 1]

GetTxSentFrame(tx) == [tx EXCEPT !.sent = IF @ = <<>> THEN @ ELSE Tail(@)]

===============================================================================
