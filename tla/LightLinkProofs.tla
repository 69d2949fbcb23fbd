---------------------------- MODULE LightLinkProofs ----------------------------
(***************************************************************************)
(* What TLC checks of LightLink over four byte values, proved for every    *)
(* alphabet, checksum, buffer size and set of payloads, and for a line     *)
(* that damages without limit.                                             *)
(***************************************************************************)
EXTENDS LightLink, HdlcLlLemmas

(* The byte in buf is the last one run_tx wrote.                           *)
InBuf ==
    IF Closing \/ Opening THEN Flag
    ELSE IF tx.escape THEN Escape
    ELSE OnLine(Body(tx)[tx.pos])

(* The sending half.  Only a call that runs has a byte to write.           *)
SenderInv ==
    /\ tx \in GoodTx(Payloads)
    /\ buf # <<>> =>
           /\ sending /\ buf = <<InBuf>>
           /\ Closing => tx.sent # <<>>

(* What run_tx makes of a payload.                                         *)
FrameOf(data) == Framed(data \o Crc(data))

(* What the call that runs has handed to write_fn or has in buf.           *)
WrittenInv ==
    sending /\ arg # <<>> =>
        \/ Closing /\ tx.data = arg /\ buf = <<>>
        \/ ~ Closing /\ tx.data = arg /\ written \o buf = SoFar(tx)
        \/ Closing /\ tx.data = <<>> /\ written \o buf = FrameOf(arg)

(* Where the receiver stands.  Follows is said of one that has been given  *)
(* n bytes of a frame and maybe an escape, Between of one that has been    *)
(* given all of a frame, or as much as there will be.                      *)
Follows(body, n, escape) ==
    /\ whole => InStep(rx, body, n, escape) \/ (rx.state = "Start" /\ ~ synced)
    /\ synced /\ ~ whole => rx.state = "Start"

Between == synced => Ready(rx)

SentBody == Last(tx.sent) \o Crc(Last(tx.sent))

ReceiverInv ==
    /\ rx \in GoodRx
    /\ reading => delivered = <<>>
    /\ IF buf = <<>>
       THEN IF Closing THEN Between ELSE Follows(Body(tx), tx.pos, tx.escape)
       ELSE IF Opening THEN Between
       ELSE IF Closing THEN Follows(SentBody, Len(SentBody), FALSE)
       ELSE IF tx.escape THEN Follows(Body(tx), tx.pos, FALSE)
       ELSE Follows(Body(tx), tx.pos - 1, Body(tx)[tx.pos] \in Special)

IInv == TypeOK /\ SenderInv /\ WrittenInv /\ ReceiverInv

(* A payload too long for the receiver's buffer, cut there, does not carry *)
(* a matching checksum by chance (with HdlcCrcOff it always would).        *)
CutFails ==
    \A data \in Payloads : Fits(data) \/ ~ CrcMatches(SubSeq(data \o Crc(data), 1, PhysMtu))

-------------------------------------------------------------------------------

LEMMA PayloadFrames == Frames(Payloads)
BY LightAssumption DEF Frames

LEMMA InitInv == Init => IInv
<1> SUFFICES ASSUME Init PROVE IInv
    OBVIOUS
<1> USE DEF Init
<1>1. tx \in GoodTx(Payloads) /\ tx.state = "Start"
    BY PayloadFrames, TxCallsGood DEF NewTx
<1>2. rx \in GoodRx /\ rx.state = "Start"
    BY ReceiverCalls
<1>3. TypeOK
    <2>1. tx \in Tx /\ rx \in Rx /\ Len(rx.buf) <= PhysMtu /\ rx.frames = <<>>
        BY <1>1, <1>2 DEF GoodTx, GoodRx
    <2>2. <<>> \in Seq(Byte) /\ <<>> \in Seq(Seq(Byte)) /\ Len(<<>>) = 0
        OBVIOUS
    <2>3. /\ arg \in Payloads \cup {<<>>}
          /\ buf \in Seq(Byte) /\ Len(buf) <= 1 /\ written \in Seq(Byte)
          /\ delivered \in Seq(Seq(Byte)) /\ Len(delivered) <= 1
        BY <2>2
    <2>4. sending \in BOOLEAN /\ reading \in BOOLEAN /\ whole \in BOOLEAN /\ synced \in BOOLEAN
        OBVIOUS
    <2>5. failures \in 0 .. MaxFailures
        BY LightAssumption
    <2> QED BY <2>1, <2>3, <2>4, <2>5 DEF TypeOK
<1>4. SenderInv /\ WrittenInv
    BY <1>1 DEF SenderInv, WrittenInv
<1>5. ReceiverInv
    BY <1>1, <1>2 DEF ReceiverInv, Closing, Between, Ready
<1> QED BY <1>3, <1>4, <1>5 DEF IInv

(* The byte run_tx writes is the one InBuf says it has written.            *)
LEMMA RunTxByte ==
    ASSUME SenderInv, RunTx
    PROVE  buf' = <<InBuf'>> /\ tx' \in GoodTx(Payloads)
<1>1. /\ tx \in GoodTx(Payloads) /\ tx \in Tx /\ TxBusy(tx)
      /\ buf' = <<TxOut(tx)>> /\ tx' = TxStep(tx)
    BY DEF SenderInv, RunTx, GoodTx
<1>2. tx' \in GoodTx(Payloads) /\ tx' \in Tx
    BY <1>1, PayloadFrames, TxStepGood DEF GoodTx
<1>3. /\ tx.state \in {"Start", "Data"} /\ tx.pos \in Nat /\ tx.escape \in BOOLEAN
      /\ Len(Body(tx)) \in Nat
      /\ tx.state = "Data" => tx.pos <= Len(Body(tx))
      /\ tx.state = "Data" /\ tx.escape => tx.pos < Len(Body(tx)) /\ NextByte(tx) \in Special
    <2>1. Body(tx) \in Seq(Byte)
        BY <1>1, PayloadFrames, BodyType
    <2> QED BY <1>1, <2>1 DEF GoodTx, Tx
<1>4. CASE tx.state = "Start"
    <2>1. tx' = [tx EXCEPT !.state = "Data", !.pos = 0, !.escape = FALSE]
        BY <1>1, <1>4 DEF TxStep
    <2>2. tx'.state = "Data" /\ tx'.pos = 0 /\ ~ tx'.escape
        BY <1>1, <2>1 DEF Tx
    <2>3. TxOut(tx) = Flag
        BY <1>4 DEF TxOut
    <2> QED BY <1>1, <1>2, <2>2, <2>3 DEF InBuf, Opening
<1>5. CASE tx.state = "Data" /\ tx.pos = Len(Body(tx))
    <2>1. tx'.state = "Start"
        BY <1>1, <1>5 DEF TxStep, Tx
    <2>2. TxOut(tx) = Flag
        BY <1>5 DEF TxOut
    <2> QED BY <1>1, <1>2, <2>1, <2>2 DEF InBuf, Closing
<1>6. CASE tx.state = "Data" /\ tx.pos < Len(Body(tx)) /\ NextByte(tx) \in Special /\ ~ tx.escape
    <2>1. tx' = [tx EXCEPT !.escape = TRUE]
        BY <1>1, <1>3, <1>6 DEF TxStep
    <2>2. tx'.state = "Data" /\ tx'.escape
        BY <1>1, <1>6, <2>1 DEF Tx
    <2>3. TxOut(tx) = Escape
        BY <1>3, <1>6 DEF TxOut
    <2> QED BY <1>1, <1>2, <2>2, <2>3 DEF InBuf, Opening, Closing
<1>7. CASE tx.state = "Data" /\ tx.pos < Len(Body(tx)) /\ ~ (NextByte(tx) \in Special /\ ~ tx.escape)
    <2>1. tx' = [tx EXCEPT !.escape = FALSE, !.pos = @ + 1]
        BY <1>1, <1>3, <1>7 DEF TxStep
    <2>2. /\ tx'.state = "Data" /\ ~ tx'.escape /\ tx'.pos = tx.pos + 1
          /\ tx'.data = tx.data
        BY <1>1, <1>7, <2>1 DEF Tx
    <2>3. Body(tx)' = Body(tx) /\ tx'.pos # 0
        BY <1>3, <2>2 DEF Body
    <2>4. TxOut(tx) = OnLine(NextByte(tx))
        BY <1>3, <1>7 DEF TxOut, OnLine
    <2>5. InBuf' = OnLine(Body(tx)[tx.pos + 1])
        BY <2>2, <2>3 DEF InBuf, Opening, Closing
    <2> QED BY <1>1, <1>2, <2>4, <2>5 DEF NextByte
<1> QED BY <1>3, <1>4, <1>5, <1>6, <1>7


-------------------------------------------------------------------------------

(* The sending half.                                                       *)
LEMMA SenderStep ==
    ASSUME TypeOK, SenderInv, Next
    PROVE  SenderInv'
<1>1. tx \in GoodTx(Payloads) /\ tx \in Tx /\ tx.sent \in Seq(Seq(Byte))
    BY DEF SenderInv, GoodTx, Tx
<1>2. CASE \E data \in Payloads : Send(data)
    <2>1. PICK data \in Payloads : Send(data)
        BY <1>2
    <2>2. tx' \in GoodTx(Payloads)
        BY <1>1, <2>1, PayloadFrames, TxCallsGood DEF Send
    <2>3. buf' = <<>>
        BY <2>1 DEF Send, SenderInv
    <2> QED BY <2>2, <2>3 DEF SenderInv
<1>3. CASE RunTx
    <2>1. buf' = <<InBuf'>> /\ tx' \in GoodTx(Payloads) /\ sending'
        BY <1>3, RunTxByte DEF RunTx
    <2>2. Closing' => tx'.sent # <<>>
        <3>1. ASSUME Closing' PROVE tx' = [tx EXCEPT !.state = "Start", !.escape = FALSE,
                                                     !.data = <<>>, !.sent = Append(@, tx.data)]
            BY <1>1, <1>3, <3>1 DEF RunTx, TxStep, Closing, Tx
        <3>2. Append(tx.sent, tx.data) # <<>>
            BY <1>1, AppendProperties DEF Tx
        <3> QED BY <1>1, <3>1, <3>2 DEF Tx
    <2> QED BY <2>1, <2>2 DEF SenderInv
<1>4. CASE SendDone
    <2>1. tx' \in GoodTx(Payloads) /\ buf' = <<>>
        BY <1>1, <1>4, PayloadFrames, TxCallsGood DEF SendDone
    <2> QED BY <2>1 DEF SenderInv
<1>5. CASE buf' = <<>> /\ (Abandon \/ UNCHANGED tx)
    <2>1. tx' \in GoodTx(Payloads)
        BY <1>1, <1>5, PayloadFrames, TxCallsGood DEF Abandon
    <2> QED BY <1>5, <2>1 DEF SenderInv
<1>6. CASE UNCHANGED sender
    BY <1>6 DEF SenderInv, sender, InBuf, Closing, Opening
<1> QED BY <1>2, <1>3, <1>4, <1>5, <1>6
        DEF Next, WriteFails, WriteTimesOut, Read, ReadTimesOut, ReadFails,
            Pass, Lose, Alter, MakeUp, Written, sender

-------------------------------------------------------------------------------

(* What a call that runs has written: nothing or all of a frame outside    *)
(* of one, the flag and the stuffed bytes so far inside.                   *)
LEMMA WrittenRunTx ==
    ASSUME TypeOK, SenderInv, WrittenInv, RunTx
    PROVE  WrittenInv'
<1> SUFFICES ASSUME sending', arg' # <<>>
             PROVE  \/ ~ Closing' /\ tx'.data = arg' /\ written' \o buf' = SoFar(tx)'
                    \/ Closing' /\ tx'.data = <<>> /\ written' \o buf' = FrameOf(arg')
    BY DEF WrittenInv
<1>1. /\ sending /\ arg' = arg /\ arg # <<>> /\ buf = <<>> /\ TxBusy(tx)
      /\ buf' = <<TxOut(tx)>> /\ tx' = TxStep(tx)
      /\ written' = IF tx.state = "Start" THEN <<>> ELSE written
      /\ tx \in GoodTx(Payloads) /\ written \in Seq(Byte)
    BY DEF RunTx, SenderInv, TypeOK
<1>2. tx.data = arg /\ (~ Closing => written = SoFar(tx))
    <2>1. written \o buf = written
        BY <1>1, ConcatEmptySeq
    <2> QED BY <1>1, <2>1 DEF WrittenInv, TxBusy
<1>3. SoFar(tx)' = SoFar(TxStep(tx)) /\ TxOut(tx) \in Byte /\ tx.state \in {"Start", "Data"}
    BY <1>1, PayloadFrames, TxOutType DEF SoFar, Body, GoodTx, Tx
<1>4. CASE tx.state = "Start"
    <2>1. written' \o buf' = <<TxOut(tx)>>
        BY <1>1, <1>3, <1>4, ConcatEmptySeq
    <2> QED BY <1>1, <1>2, <1>3, <1>4, <2>1, PayloadFrames, TxStepWrites DEF Closing
<1>5. CASE tx.state = "Data"
    BY <1>1, <1>2, <1>3, <1>5, PayloadFrames, TxStepWrites DEF Closing, FrameOf, Body
<1> QED BY <1>3, <1>4, <1>5

LEMMA WrittenStep ==
    ASSUME TypeOK, SenderInv, WrittenInv, Next
    PROVE  WrittenInv'
<1>1. CASE \E data \in Payloads : Send(data)
    <2>1. PICK data \in Payloads : Send(data)
        BY <1>1
    <2>2. ASSUME arg' # <<>> PROVE Closing' /\ tx'.data = arg' /\ buf' = <<>>
        <3>1. tx' = [tx EXCEPT !.data = data, !.pos = 0] /\ ~ TxBusy(tx) /\ arg' = data
            BY <2>1, <2>2 DEF Send, PutAccepts, PutFrame
        <3>2. tx \in Tx /\ tx.state = "Start"
            BY <3>1 DEF SenderInv, GoodTx, Tx
        <3>3. tx'.state = "Start" /\ tx'.data = arg'
            BY <3>1, <3>2 DEF Tx
        <3> QED BY <2>1, <3>3 DEF Send, SenderInv, Closing
    <2> QED BY <2>2 DEF WrittenInv
<1>2. CASE RunTx
    BY <1>2, WrittenRunTx
<1>3. CASE ~ sending'
    BY <1>3 DEF WrittenInv
<1>4. CASE Written /\ UNCHANGED <<tx, sending, arg>>
    <2>1. /\ buf # <<>> /\ buf \in Seq(Byte) /\ Len(buf) <= 1 /\ written \in Seq(Byte)
          /\ buf' = <<>> /\ written' = Append(written, Head(buf))
        BY <1>4 DEF Written, TypeOK
    <2>2. written' \o buf' = written \o buf
        <3>1. buf = <<Head(buf)>>
            <4>1. Len(buf) = 1
                <5>1. buf \in Seq(Byte) /\ buf # <<>> /\ Len(buf) <= 1
                    BY <2>1
                <5>2. Len(buf) # 0 /\ Len(buf) \in Nat
                    BY <5>1, EmptySeq
                <5>3. Len(buf) <= 1
                    BY <5>1
                <5>4. \A n \in Nat : n # 0 /\ n <= 1 => n = 1
                    OBVIOUS
                <5> QED BY <5>2, <5>3, <5>4, Zenon
            <4>2. Len(<<Head(buf)>>) = 1 /\ <<Head(buf)>>[1] = buf[1] /\ <<Head(buf)>> \in Seq(Byte)
                BY <2>1
            <4> QED BY <2>1, <4>1, <4>2
        <3>2. written' = written \o buf
            BY <2>1, <3>1
        <3>3. written' \in Seq(Byte)
            BY <2>1, <3>2, ConcatProperties
        <3> QED BY <2>1, <3>2, <3>3, ConcatEmptySeq
    <2>3. Closing' = Closing /\ SoFar(tx)' = SoFar(tx) /\ FrameOf(arg)' = FrameOf(arg)
        BY <1>4 DEF Closing, SoFar, Body, FrameOf
    <2> QED BY <1>4, <2>1, <2>2, <2>3 DEF WrittenInv
<1>5. CASE UNCHANGED sender
    BY <1>5 DEF WrittenInv, sender, Closing, SoFar, Body, FrameOf
<1> QED BY <1>1, <1>2, <1>3, <1>4, <1>5
        DEF Next, SendDone, WriteFails, WriteTimesOut, Read, ReadTimesOut, ReadFails,
            Pass, Lose, Alter, MakeUp, Written, Abandon, sender

-------------------------------------------------------------------------------

(* A turn of read that got a byte: a whole frame comes out and the call    *)
(* returns it, or the call goes on, or it gives up and resets.             *)
LEMMA ReadOutcome ==
    ASSUME TypeOK, ReceiverInv, NEW byte \in Byte, ReadByte(byte)
    PROVE  \/ /\ byte = Flag /\ rx.state = "Data" /\ rx.buf # <<>> /\ CrcMatches(rx.buf)
              /\ RxByte(rx, byte).frames = <<Stripped(rx.buf)>>
              /\ rx' \in GoodRx /\ rx'.state = "Start"
              /\ ~ reading' /\ reading' \in BOOLEAN /\ delivered' = <<Stripped(rx.buf)>>
           \/ /\ RxByte(rx, byte) \in GoodRx /\ rx' = RxByte(rx, byte)
              /\ reading' = reading /\ delivered' = <<>> /\ ~ TimedOut
           \/ /\ RxByte(rx, byte) \in GoodRx /\ rx' \in GoodRx /\ rx'.state = "Start"
              /\ reading' = FALSE /\ delivered' = <<>> /\ TimedOut
<1> DEFINE r == RxByte(rx, byte)
<1>1. rx \in GoodRx /\ reading /\ delivered = <<>> /\ AfterRead(r)
    BY DEF ReceiverInv, ReadByte
<1>2. CASE r \in GoodRx
    <2>1. r.frames = <<>>
        BY <1>2 DEF GoodRx
    <2>2. CASE rx' = r /\ UNCHANGED <<reading, delivered>>
        BY <1>1, <1>2, <2>2 DEF TimedOut
    <2>3. CASE rx' = ResetRx(r) /\ reading' = FALSE /\ UNCHANGED delivered
        BY <1>1, <1>2, <2>3, ReceiverCalls DEF TimedOut
    <2> QED BY <1>1, <2>1, <2>2, <2>3 DEF AfterRead
<1>3. CASE r \notin GoodRx
    <2>1. /\ byte = Flag /\ rx.state = "Data" /\ rx.buf # <<>> /\ CrcMatches(rx.buf)
          /\ r = [state |-> "Start", buf |-> <<>>, escape |-> rx.escape,
                  frames |-> <<Stripped(rx.buf)>>]
        BY <1>1, <1>3, RxByteFrame
    <2>2. rx' = GetRxFrame(r) /\ reading' = FALSE /\ delivered' = <<Stripped(rx.buf)>>
        BY <1>1, <2>1 DEF AfterRead
    <2>3. rx' = [state |-> "Start", buf |-> <<>>, escape |-> rx.escape, frames |-> <<>>]
        BY <2>1, <2>2 DEF GetRxFrame
    <2>4. rx.escape \in BOOLEAN
        BY <1>1 DEF GoodRx, Rx
    <2>5. rx' \in Rx /\ rx'.buf = <<>> /\ rx'.frames = <<>> /\ rx'.state = "Start"
        BY <2>3, <2>4, NoBytes DEF Rx
    <2>6. rx' \in GoodRx
        BY <2>5, MtuAssumption DEF GoodRx
    <2>7. r.frames = <<Stripped(rx.buf)>>
        BY <2>1
    <2> HIDE DEF r
    <2>8. ~ reading' /\ reading' \in BOOLEAN
        BY <2>2
    <2> QED BY <2>1, <2>2, <2>5, <2>6, <2>7, <2>8 DEF r
<1> QED BY <1>2, <1>3

LEMMA TypeStep ==
    ASSUME TypeOK, SenderInv, ReceiverInv, Next
    PROVE  TypeOK'
<1>0. /\ <<>> \in Seq(Byte) /\ Len(<<>>) <= 1 /\ <<>> \in Payloads \cup {<<>>}
      /\ TRUE \in BOOLEAN /\ FALSE \in BOOLEAN
    OBVIOUS
<1>1. tx' \in Tx
    BY SenderStep DEF SenderInv, GoodTx
<1>2. CASE \E data \in Payloads : Send(data)
    BY <1>1, <1>2 DEF Send, TypeOK, receiver
<1>3. CASE RunTx
    <2>1. buf' \in Seq(Byte) /\ Len(buf') <= 1
        <3>1. TxOut(tx) \in Byte
            BY PayloadFrames, TxOutType DEF SenderInv
        <3> QED BY <1>3, <3>1 DEF RunTx
    <2>2. written' \in Seq(Byte)
        BY <1>3 DEF RunTx, TypeOK
    <2> QED BY <1>1, <1>3, <2>1, <2>2 DEF RunTx, TypeOK, receiver
<1>4. CASE SendDone
    BY <1>1, <1>4, NoBytes DEF SendDone, TypeOK, receiver
<1>5. CASE WriteFails
    <2>1. failures' \in 0 .. MaxFailures
        BY <1>5, LightAssumption DEF WriteFails, TypeOK
    <2> QED BY <1>0, <1>1, <1>5, <2>1 DEF WriteFails, TypeOK, receiver
<1>6. CASE WriteTimesOut
    BY <1>0, <1>1, <1>6 DEF WriteTimesOut, Abandon, TypeOK, receiver
<1>7. CASE Read \/ ReadTimesOut \/ ReadFails
    <2>1. ResetRx(rx) \in GoodRx
        BY ReceiverCalls DEF ReceiverInv
    <2>2. <<>> \in Seq(Seq(Byte)) /\ Len(<<>>) <= 1
        OBVIOUS
    <2> QED BY <1>1, <1>7, <2>1, <2>2 DEF Read, ReadTimesOut, ReadFails, TypeOK, sender, GoodRx
<1>8. ASSUME NEW byte \in Byte, ReadByte(byte)
      PROVE  /\ rx' \in Rx /\ Len(rx'.buf) <= PhysMtu /\ rx'.frames = <<>>
             /\ reading' \in BOOLEAN
             /\ delivered' \in Seq(Seq(Byte)) /\ Len(delivered') <= 1
    <2>1. rx' \in GoodRx /\ reading' \in BOOLEAN
          /\ (delivered' = <<>> \/ (delivered' = <<Stripped(rx.buf)>> /\ CrcMatches(rx.buf)))
        <3>1. reading \in BOOLEAN
            BY DEF TypeOK
        <3>2. rx' \in GoodRx /\ (reading' \in BOOLEAN \/ reading' = reading)
            BY <1>8, ReadOutcome, Zenon
        <3>3. delivered' = <<>> \/ (delivered' = <<Stripped(rx.buf)>> /\ CrcMatches(rx.buf))
            BY <1>8, ReadOutcome
        <3> QED BY <3>1, <3>2, <3>3, Zenon
    <2>2. CrcMatches(rx.buf) => Stripped(rx.buf) \in Seq(Byte)
        BY LightAssumption, StrippedType DEF TypeOK, Rx
    <2>3. delivered' \in Seq(Seq(Byte)) /\ Len(delivered') <= 1
        <3>1. CASE delivered' = <<>>
            BY <3>1
        <3>2. CASE delivered' = <<Stripped(rx.buf)>> /\ CrcMatches(rx.buf)
            BY <2>2, <3>2
        <3> QED BY <2>1, <3>1, <3>2
    <2> QED BY <2>1, <2>3 DEF GoodRx
<1>9. ASSUME Written
      PROVE  /\ buf \in Seq(Byte) /\ Head(buf) \in Byte
             /\ buf' \in Seq(Byte) /\ Len(buf') <= 1
             /\ written' \in Seq(Byte) /\ failures' \in 0 .. MaxFailures
             /\ sending' \in BOOLEAN /\ arg' \in Payloads \cup {<<>>}
    <2>1. Head(buf) \in Byte
        BY <1>9 DEF Written, TypeOK
    <2>2. written' \in Seq(Byte)
        BY <1>9, <2>1, AppendProperties DEF Written, TypeOK
    <2> QED BY <1>0, <1>9, <2>1, <2>2 DEF Written, Abandon, TypeOK
<1>10. CASE Pass
    <2>1. TimedOut \in BOOLEAN /\ CutShort \in BOOLEAN /\ Closing \in BOOLEAN /\ Opening \in BOOLEAN
        BY DEF TimedOut, CutShort, Closing, Opening
    <2>2. whole' \in BOOLEAN /\ synced' \in BOOLEAN
        BY <1>10, <2>1 DEF Pass, TypeOK
    <2> QED BY <1>1, <1>8, <1>9, <1>10, <2>2 DEF Pass, TypeOK
<1>11. CASE Lose
    BY <1>1, <1>9, <1>11 DEF Lose, Damage, TypeOK, receiver
<1>12. CASE Alter
    BY <1>1, <1>8, <1>9, <1>12 DEF Alter, Damage, TypeOK
<1>13. CASE MakeUp
    BY <1>1, <1>8, <1>13 DEF MakeUp, Damage, TypeOK, sender
<1> QED BY <1>2, <1>3, <1>4, <1>5, <1>6, <1>7, <1>10, <1>11, <1>12, <1>13 DEF Next

-------------------------------------------------------------------------------

(* The receiving half.  When the line is damaged nothing is claimed of it. *)
LEMMA AfterDamage ==
    ASSUME ~ whole', ~ synced', rx' \in GoodRx, reading' => delivered' = <<>>
    PROVE  ReceiverInv'
BY DEF ReceiverInv, Between, Follows

(* The byte in buf, and the frame whose closing flag it is.                *)
LEMMA InBufByte ==
    ASSUME SenderInv, buf # <<>>
    PROVE  /\ Head(buf) = InBuf /\ InBuf \in Byte
           /\ ~ Closing /\ ~ Opening => InBuf # Flag
           /\ Closing => Last(tx.sent) \in Payloads /\ Last(tx.sent) # <<>>
           /\ tx.pos \in Nat /\ tx.escape \in BOOLEAN /\ Body(tx) \in Seq(Byte)
           /\ ~ Closing => tx.pos <= Len(Body(tx))
           /\ ~ Closing /\ tx.escape =>
                  tx.pos < Len(Body(tx)) /\ Body(tx)[tx.pos + 1] \in Special
<1>1. /\ tx \in GoodTx(Payloads) /\ tx \in Tx /\ tx.state \in {"Start", "Data"}
      /\ tx.pos \in Nat /\ tx.escape \in BOOLEAN /\ tx.sent \in Seq(Seq(Byte))
    BY DEF SenderInv, GoodTx, Tx
<1>2. Head(buf) = InBuf
    BY DEF SenderInv
<1>3. Body(tx) \in Seq(Byte)
    BY <1>1, PayloadFrames, BodyType
<1>4. ~ Closing => tx.pos <= Len(Body(tx))
    BY <1>1 DEF GoodTx, Closing
<1>5. ~ Closing /\ tx.escape => tx.pos < Len(Body(tx)) /\ Body(tx)[tx.pos + 1] \in Special
    BY <1>1 DEF GoodTx, Closing, NextByte
<1>6. Flag \in Byte /\ Escape \in Byte /\ Flag # Escape
    BY ByteAssumption DEF Special
<1>7. CASE ~ Closing /\ ~ Opening /\ ~ tx.escape
    <2>1. tx.pos \in 1 .. Len(Body(tx))
        BY <1>1, <1>3, <1>4, <1>7 DEF Opening, Closing
    <2>2. Body(tx)[tx.pos] \in Byte
        BY <1>3, <2>1
    <2>3. InBuf = OnLine(Body(tx)[tx.pos])
        BY <1>7 DEF InBuf
    <2>4. InBuf \in Byte /\ InBuf # Flag
        BY <2>2, <2>3, OnLineByte DEF Special
    <2> QED BY <1>1, <1>2, <1>3, <1>4, <1>5, <1>7, <2>4
<1>8. Closing => Last(tx.sent) \in Payloads /\ Last(tx.sent) # <<>>
    <2>1. Closing => Len(tx.sent) \in DOMAIN tx.sent
        BY <1>1, EmptySeq DEF SenderInv
    <2>2. \A i \in DOMAIN tx.sent : tx.sent[i] \in Payloads \ {<<>>}
        BY <1>1 DEF GoodTx
    <2> QED BY <2>1, <2>2 DEF Last
<1> QED BY <1>1, <1>2, <1>3, <1>4, <1>5, <1>6, <1>7, <1>8 DEF InBuf, Opening

LEMMA ReceiverPass ==
    ASSUME TypeOK, SenderInv, ReceiverInv, Pass
    PROVE  ReceiverInv'
<1>1. /\ buf # <<>> /\ buf' = <<>> /\ Written /\ ReadByte(Head(buf)) /\ sending
      /\ rx \in GoodRx /\ reading /\ delivered = <<>>
    BY DEF Pass, Written, ReadByte, SenderInv, ReceiverInv
<1>2. rx' \in GoodRx /\ (reading' => delivered' = <<>>)
    BY <1>1, InBufByte, ReadOutcome
<1> DEFINE q == RxByte(rx, InBuf)
<1>3. \/ /\ InBuf = Flag /\ rx.state = "Data" /\ rx.buf # <<>> /\ q.frames # <<>>
         /\ rx'.state = "Start"
      \/ q \in GoodRx /\ rx' = q /\ ~ TimedOut
      \/ rx'.state = "Start" /\ TimedOut
    <2>1. <<Stripped(rx.buf)>> # <<>>
        OBVIOUS
    <2> QED BY <1>1, <2>1, InBufByte, ReadOutcome
<1>4. /\ whole' <=> (whole \/ Opening) /\ ~ TimedOut /\ ~ CutShort
      /\ synced' <=> ~ CutShort /\ (synced \/ TimedOut \/ (Closing /\ whole))
    BY DEF Pass
<1>5. CASE CutShort
    BY <1>2, <1>4, <1>5, AfterDamage
<1>6. CASE Closing
    <2>1. Closing'
        <3>1. tx' = tx \/ tx' = ResetTx(tx)
            BY <1>1 DEF Written, Abandon
        <3>2. tx \in Tx
            BY DEF SenderInv, GoodTx
        <3> QED BY <1>6, <3>1, <3>2 DEF Closing, ResetTx, Tx
    <2>2. InBuf = Flag
        BY <1>6 DEF InBuf
    <2>3. Follows(SentBody, Len(SentBody), FALSE)
        BY <1>1, <1>6 DEF ReceiverInv, Opening, Closing
    <2>4. CASE rx.state = "Start"
        <3>1. Ready(rx) /\ RxByte(rx, Flag).frames = <<>> /\ RxByte(rx, Flag).buf = <<>>
            BY <1>1, <2>4, OpeningFlag DEF Ready, RxByte, GoodRx, Rx
        <3>2. Ready(rx')
            BY <1>3, <2>2, <2>4, <3>1 DEF Ready
        <3> QED BY <1>1, <1>2, <2>1, <3>2 DEF ReceiverInv, Between
    <2>5. CASE rx.state # "Start" /\ whole
        <3>1. InStep(rx, SentBody, Len(SentBody), FALSE)
            BY <2>3, <2>5 DEF Follows
        <3>2. Sendable(Last(tx.sent)) /\ Last(tx.sent) # <<>>
            BY <1>1, <1>6, InBufByte, LightAssumption
        <3>3. RxByte(rx, Flag).state = "Start"
            BY <1>1, <3>1, <3>2, ClosingFlag DEF SentBody
        <3>4. Ready(rx')
            BY <1>3, <2>2, <3>3 DEF Ready
        <3> QED BY <1>1, <1>2, <2>1, <3>4 DEF ReceiverInv, Between
    <2>6. CASE rx.state # "Start" /\ ~ whole
        <3>1. ~ synced
            BY <2>3, <2>6 DEF Follows
        <3>2. synced' => TimedOut
            BY <1>4, <2>6, <3>1
        <3>3. TimedOut => rx'.state = "Start"
            <4>1. CASE rx'.state = "Start"
                BY <4>1
            <4>2. CASE ~ TimedOut
                BY <4>2
            <4> QED BY <1>3, <4>1, <4>2
        <3>4. Between'
            BY <3>2, <3>3 DEF Between, Ready
        <3> QED BY <1>1, <1>2, <2>1, <3>4 DEF ReceiverInv
    <2> QED BY <2>4, <2>5, <2>6
<1>7. CASE ~ Closing /\ ~ CutShort
    <2>1. tx' = tx /\ ~ Closing'
        <3>1. ~ Abandon
            BY <1>1, <1>7 DEF CutShort, Abandon
        <3> QED BY <1>1, <1>7, <3>1 DEF Written, Closing
    <2>2. Body(tx)' = Body(tx)
        BY <2>1 DEF Body
    <2>3. SUFFICES Follows(Body(tx), tx.pos, tx.escape)'
        BY <1>1, <1>2, <2>1 DEF ReceiverInv
    <2>4. TimedOut => ~ whole' /\ rx'.state = "Start"
        BY <1>3, <1>4, InBufByte
    <2>5. CASE TimedOut
        BY <2>4, <2>5 DEF Follows
    <2>6. CASE ~ TimedOut /\ Opening
        <3>1. InBuf = Flag /\ tx.pos = 0 /\ tx.escape = FALSE
            BY <1>1, <2>6, InBufByte DEF InBuf, Opening
        <3>2. synced => Ready(rx)
            BY <1>1, <2>6 DEF ReceiverInv, Between
        <3>3. whole' /\ (synced' => synced)
            BY <1>4, <1>7, <2>6
        <3>4. CASE synced
            <4>1. InStep(q, Body(tx), 0, FALSE) /\ q.frames = <<>>
                BY <1>1, <3>1, <3>2, <3>4, OpeningFlag
            <4>2. InStep(rx', Body(tx), 0, FALSE)
                BY <1>3, <2>6, <4>1
            <4> QED BY <2>1, <2>2, <3>1, <3>3, <4>2 DEF Follows
        <3>5. CASE ~ synced
            <4>1. rx'.state = "Start" \/ InStep(rx', Body(tx), 0, FALSE)
                BY <1>1, <1>3, <2>6, <3>1, OpeningFlag
            <4> QED BY <2>1, <2>2, <3>1, <3>3, <3>5, <4>1 DEF Follows
        <3> QED BY <3>4, <3>5
    <2>7. CASE ~ TimedOut /\ ~ Opening
        <3>1. InBuf \in Byte /\ InBuf # Flag
            BY <1>1, <1>7, <2>7, InBufByte
        <3>2. q \in GoodRx /\ rx' = q /\ (whole' <=> whole) /\ (synced' <=> synced)
            BY <1>3, <1>4, <1>7, <2>7, <3>1
        <3>3. rx.state = "Start" => rx'.state = "Start"
            BY <3>1, <3>2 DEF RxByte
        <3>4. /\ tx.pos \in Nat /\ tx.escape \in BOOLEAN /\ Body(tx) \in Seq(Byte)
              /\ tx.pos <= Len(Body(tx))
            BY <1>1, <1>7, InBufByte
        <3>5. CASE tx.escape
            <4>1. Follows(Body(tx), tx.pos, FALSE) /\ InBuf = Escape /\ tx.escape = TRUE
                BY <1>1, <1>7, <2>7, <3>4, <3>5 DEF ReceiverInv, InBuf
            <4>2. InStep(rx, Body(tx), tx.pos, FALSE) => InStep(rx', Body(tx), tx.pos, TRUE)
                BY <1>1, <3>2, <3>4, <4>1, InStepEscape
            <4> QED BY <2>1, <2>2, <3>2, <3>3, <4>1, <4>2 DEF Follows
        <3>6. CASE ~ tx.escape
            <4> DEFINE n == tx.pos - 1
            <4>1. /\ Follows(Body(tx), n, Body(tx)[tx.pos] \in Special)
                  /\ InBuf = OnLine(Body(tx)[tx.pos]) /\ tx.escape = FALSE
                BY <1>1, <1>7, <2>7, <3>4, <3>6 DEF ReceiverInv, InBuf
            <4>2. n \in Nat /\ n < Len(Body(tx)) /\ n + 1 = tx.pos
                BY <1>7, <2>7, <3>4, <3>6 DEF Opening, Closing, SenderInv, GoodTx, Tx
            <4> HIDE DEF n
            <4>3. InStep(rx, Body(tx), n, Body(tx)[n + 1] \in Special)
                      => InStep(RxByte(rx, OnLine(Body(tx)[n + 1])), Body(tx), n + 1, FALSE)
                BY <1>1, <3>4, <4>2, InStepByte
            <4>4. InStep(rx, Body(tx), n, Body(tx)[tx.pos] \in Special)
                      => InStep(rx', Body(tx), tx.pos, FALSE)
                BY <3>2, <4>1, <4>2, <4>3
            <4> QED BY <2>1, <2>2, <3>2, <3>3, <4>1, <4>4 DEF Follows
        <3> QED BY <3>4, <3>5, <3>6
    <2> QED BY <2>5, <2>6, <2>7
<1> QED BY <1>5, <1>6, <1>7

LEMMA ReceiverRunTx ==
    ASSUME TypeOK, SenderInv, ReceiverInv, RunTx
    PROVE  ReceiverInv'
<1>1. /\ buf = <<>> /\ buf' # <<>> /\ TxBusy(tx) /\ tx' = TxStep(tx)
      /\ tx \in GoodTx(Payloads) /\ tx \in Tx
      /\ rx' = rx /\ reading' = reading /\ delivered' = delivered
      /\ whole' = whole /\ synced' = synced
      /\ rx \in GoodRx /\ (reading => delivered = <<>>)
    BY DEF RunTx, SenderInv, GoodTx, ReceiverInv, receiver
<1>2. /\ tx.state \in {"Start", "Data"} /\ tx.pos \in Nat /\ tx.escape \in BOOLEAN
      /\ tx.sent \in Seq(Seq(Byte)) /\ tx.data \in Seq(Byte)
      /\ Len(Body(tx)) \in Nat
      /\ tx.state = "Data" => tx.pos <= Len(Body(tx))
      /\ tx.state = "Data" /\ tx.escape => tx.pos < Len(Body(tx)) /\ NextByte(tx) \in Special
    <2>1. Body(tx) \in Seq(Byte)
        BY <1>1, PayloadFrames, BodyType
    <2> QED BY <1>1, <2>1 DEF GoodTx, Tx
<1>3. CASE tx.state = "Start"
    <2>1. Between
        BY <1>1, <1>3 DEF ReceiverInv, Closing
    <2>2. tx' = [tx EXCEPT !.state = "Data", !.pos = 0, !.escape = FALSE]
        BY <1>1, <1>3 DEF TxStep
    <2>3. Opening'
        BY <1>1, <2>2 DEF Opening, Tx
    <2> QED BY <1>1, <2>1, <2>3 DEF ReceiverInv, Between
<1>4. ASSUME tx.state = "Data"
      PROVE  Follows(Body(tx), tx.pos, tx.escape)
    BY <1>1, <1>4 DEF ReceiverInv, Closing
<1>5. CASE tx.state = "Data" /\ tx.pos = Len(Body(tx))
    <2>1. tx' = [tx EXCEPT !.state = "Start", !.escape = FALSE, !.data = <<>>,
                           !.sent = Append(@, tx.data)]
        BY <1>1, <1>5 DEF TxStep
    <2>2. tx'.state = "Start" /\ tx'.sent = Append(tx.sent, tx.data)
        BY <1>1, <2>1 DEF Tx
    <2>3. Last(tx'.sent) = tx.data
        BY <1>2, <2>2 DEF Last
    <2>4. SentBody' = Body(tx) /\ Closing' /\ ~ Opening'
        BY <2>2, <2>3 DEF SentBody, Body, Closing, Opening
    <2>5. Follows(Body(tx), Len(Body(tx)), FALSE)
        <3>1. tx.escape = FALSE
            BY <1>2, <1>5
        <3> QED BY <1>4, <1>5, <3>1
    <2>6. Follows(SentBody, Len(SentBody), FALSE)'
        BY <1>1, <2>4, <2>5 DEF Follows
    <2> QED BY <1>1, <2>4, <2>6 DEF ReceiverInv
<1>6. CASE tx.state = "Data" /\ tx.pos < Len(Body(tx)) /\ NextByte(tx) \in Special /\ ~ tx.escape
    <2>1. tx' = [tx EXCEPT !.escape = TRUE]
        BY <1>1, <1>2, <1>6 DEF TxStep
    <2>2. tx'.state = "Data" /\ tx'.escape /\ tx'.pos = tx.pos /\ tx'.data = tx.data
        BY <1>1, <1>6, <2>1 DEF Tx
    <2>3. Body(tx)' = Body(tx) /\ ~ Closing' /\ ~ Opening'
        BY <2>2 DEF Body, Closing, Opening
    <2>4. Follows(Body(tx), tx.pos, FALSE)
        BY <1>2, <1>4, <1>6
    <2>5. Follows(Body(tx), tx.pos, FALSE)'
        BY <1>1, <2>2, <2>3, <2>4 DEF Follows
    <2> QED BY <1>1, <2>2, <2>3, <2>5 DEF ReceiverInv
<1>7. CASE tx.state = "Data" /\ tx.pos < Len(Body(tx)) /\ ~ (NextByte(tx) \in Special /\ ~ tx.escape)
    <2>1. tx' = [tx EXCEPT !.escape = FALSE, !.pos = @ + 1]
        BY <1>1, <1>2, <1>7 DEF TxStep
    <2>2. /\ tx'.state = "Data" /\ ~ tx'.escape /\ tx'.pos = tx.pos + 1
          /\ tx'.data = tx.data
        BY <1>1, <1>7, <2>1 DEF Tx
    <2>3. Body(tx)' = Body(tx) /\ ~ Closing' /\ ~ Opening' /\ tx'.pos - 1 = tx.pos
        BY <1>2, <2>2 DEF Body, Closing, Opening
    <2>4. tx.escape = (Body(tx)[tx.pos + 1] \in Special)
        BY <1>2, <1>7 DEF NextByte
    <2>5. Follows(Body(tx), tx.pos, Body(tx)[tx.pos + 1] \in Special)
        BY <1>4, <1>7, <2>4
    <2>6. Follows(Body(tx), tx.pos - 1, Body(tx)[tx.pos] \in Special)'
        BY <1>1, <2>2, <2>3, <2>5 DEF Follows
    <2> QED BY <1>1, <2>2, <2>3, <2>6 DEF ReceiverInv
<1> QED BY <1>2, <1>3, <1>5, <1>6, <1>7

LEMMA ReceiverStep ==
    ASSUME TypeOK, SenderInv, ReceiverInv, Next
    PROVE  ReceiverInv'
<1>1. rx \in GoodRx /\ (reading => delivered = <<>>)
    BY DEF ReceiverInv
<1>2. CASE \E data \in Payloads : Send(data)
    <2>1. PICK data \in Payloads : Send(data)
        BY <1>2
    <2>2. tx \in Tx /\ buf = <<>> /\ buf' = <<>>
        BY <2>1 DEF Send, SenderInv, GoodTx
    <2>3. CASE tx' = tx
        BY <2>1, <2>2, <2>3 DEF Send, ReceiverInv, receiver, Closing, Between, Follows, Body
    <2>4. CASE tx' # tx
        <3>1. tx' = [tx EXCEPT !.data = data, !.pos = 0] /\ ~ TxBusy(tx)
            BY <2>1, <2>4 DEF Send, PutAccepts, PutFrame
        <3>2. tx.state = "Start"
            BY <3>1 DEF SenderInv, GoodTx, Tx
        <3>3. Closing /\ Closing'
            BY <2>2, <3>1, <3>2 DEF Closing, Tx
        <3> QED BY <2>1, <2>2, <3>3 DEF Send, ReceiverInv, receiver, Between
    <2> QED BY <2>3, <2>4
<1>3. CASE RunTx
    BY <1>3, ReceiverRunTx
<1>4. CASE SendDone
    <2>1. tx \in Tx /\ tx.state = "Start"
        BY <1>4 DEF SendDone, SenderInv, GoodTx, Tx
    <2>2. Closing /\ Closing'
        BY <1>4, <2>1 DEF SendDone, GetTxSentFrame, Closing, Tx
    <2> QED BY <1>4, <2>2 DEF SendDone, ReceiverInv, receiver, Between
<1>5. CASE WriteFails \/ WriteTimesOut \/ Lose
    BY <1>1, <1>5, AfterDamage DEF WriteFails, WriteTimesOut, Lose, Damage, receiver
<1>6. CASE Read
    BY <1>6 DEF Read, ReceiverInv, sender, Closing, Opening, Between, Follows, Body, SentBody
<1>7. CASE ReadTimesOut
    <2>1. rx' \in GoodRx /\ rx'.state = "Start"
        BY <1>1, <1>7, ReceiverCalls DEF ReadTimesOut
    <2> QED BY <1>7, <2>1 DEF ReadTimesOut, ReceiverInv, Between, Follows, Ready
<1>8. CASE ReadFails
    BY <1>8 DEF ReadFails, ReceiverInv, sender, Closing, Opening, Between, Follows, Body, SentBody
<1>9. CASE Pass
    BY <1>9, ReceiverPass
<1>10. CASE Alter \/ MakeUp
    <2>1. PICK byte \in Byte : ReadByte(byte) /\ Damage
        BY <1>10 DEF Alter, MakeUp
    <2>2. rx' \in GoodRx /\ (reading' => delivered' = <<>>)
        BY <2>1, ReadOutcome
    <2> QED BY <2>1, <2>2, AfterDamage DEF Damage
<1> QED BY <1>2, <1>3, <1>4, <1>5, <1>6, <1>7, <1>8, <1>9, <1>10 DEF Next

-------------------------------------------------------------------------------

LEMMA NextInv == IInv /\ [Next]_vars => IInv'
<1>1. ASSUME IInv, Next PROVE IInv'
    BY <1>1, TypeStep, SenderStep, WrittenStep, ReceiverStep DEF IInv
<1>2. ASSUME IInv, UNCHANGED vars PROVE IInv'
    <2>1. TypeOK'
        BY <1>2 DEF IInv, TypeOK, vars, sender, receiver
    <2>2. SenderInv' /\ WrittenInv'
        BY <1>2 DEF IInv, SenderInv, WrittenInv, vars, sender, InBuf, Closing, Opening,
                    SoFar, Body, FrameOf
    <2>3. ReceiverInv'
        BY <1>2 DEF IInv, ReceiverInv, vars, sender, receiver, Closing, Opening, Between,
                    Follows, Body, SentBody
    <2> QED BY <2>1, <2>2, <2>3 DEF IInv
<1> QED BY <1>1, <1>2

(* The inductive invariant: after every byte of send and read it is known  *)
(* what of the frame was written and, once in step, what is in the buffer. *)
THEOREM Inductive == Spec => []IInv
BY InitInv, NextInv, PTL DEF Spec

(* Types, and the bound of the receiver's buffer (HdlcLl::run_rx): a byte  *)
(* that does not fit is never stored, whatever comes in.                   *)
THEOREM TypeCorrect == Spec => []TypeOK
BY Inductive, PTL DEF IInv

LEMMA SentIsFramed ==
    ASSUME IInv, SendDone, arg # <<>>
    PROVE  written = FrameOf(arg)
<1>1. tx \in GoodTx(Payloads) /\ sending /\ buf = <<>> /\ tx.data = <<>>
    BY DEF IInv, SenderInv, SendDone, TxBusy
<1>2. Closing
    BY <1>1 DEF GoodTx, Tx, TxBusy, Closing
<1>3. written \o buf = FrameOf(arg)
    BY <1>1, <1>2 DEF IInv, WrittenInv
<1> QED BY <1>1, <1>3, ConcatEmptySeq DEF IInv, TypeOK

(* Light::send returns Ok only after write_fn took exactly the bytes that  *)
(* HdlcEncoder::encode writes for its argument: the byte-wise transmitter  *)
(* and the one-shot encoder agree on every payload that is not empty, in   *)
(* every setting but HdlcCrcDefault, for which encode takes no checksum.   *)
THEOREM OkWritten ==
    ASSUME ~ CrcDefault
    PROVE  Spec => OkMeansWritten
<1>1. IInv /\ [Next]_vars => [SendDone /\ arg # <<>> => written = Encode(arg)]_vars
    BY SentIsFramed DEF FrameOf, Encode, EncoderCrc
<1> QED BY <1>1, Inductive, PTL DEF Spec, OkMeansWritten

(* And HdlcEncoder::decode finds the payload in them and consumes them to  *)
(* the last byte: the one-shot decoder reads what the byte-wise            *)
(* transmitter wrote, with the same two exceptions.                        *)
THEOREM DecoderFindsPayload ==
    ASSUME ~ CrcDefault
    PROVE  Spec => DecoderReads
<1>1. IInv /\ [Next]_vars
          => [SendDone /\ arg # <<>>
                => Decode(written) = [consumed |-> Len(written), payload |-> <<arg>>]]_vars
    <2> SUFFICES ASSUME IInv, SendDone, arg # <<>>
                 PROVE  Decode(written) = [consumed |-> Len(written), payload |-> <<arg>>]
        OBVIOUS
    <2>1. written = Encode(arg)
        BY SentIsFramed DEF FrameOf, Encode, EncoderCrc
    <2>2. Sendable(arg)
        BY LightAssumption DEF IInv, TypeOK
    <2> QED BY <2>1, <2>2, DecodeReadsBack
<1> QED BY <1>1, Inductive, PTL DEF Spec, DecoderReads

(* Light::read returns the next whole frame that passes after the receiver *)
(* was reset or has seen a whole frame, whatever the line did before.      *)
THEOREM Resynchronises == Spec => Resync
<1>1. IInv /\ [Next]_vars
          => [Pass /\ Closing /\ whole /\ synced /\ Fits(Last(tx.sent))
                => delivered' = <<Last(tx.sent)>>]_vars
    <2> SUFFICES ASSUME IInv, Pass, Closing, whole, synced, Fits(Last(tx.sent))
                 PROVE  delivered' = <<Last(tx.sent)>>
        OBVIOUS
    <2>1. /\ buf # <<>> /\ ReadByte(Head(buf)) /\ rx \in GoodRx
          /\ Follows(SentBody, Len(SentBody), FALSE)
        BY DEF Pass, Written, IInv, ReceiverInv, Closing, Opening
    <2>2. Head(buf) = Flag /\ Flag \in Byte
        BY <2>1, InBufByte DEF IInv, InBuf
    <2>3. Sendable(Last(tx.sent)) /\ Last(tx.sent) # <<>>
        BY <2>1, InBufByte, LightAssumption DEF IInv
    <2>4. InStep(rx, SentBody, Len(SentBody), FALSE)
        BY <2>1 DEF Follows
    <2>5. RxByte(rx, Flag).frames = <<Last(tx.sent)>>
        BY <2>1, <2>3, <2>4, ClosingFlag DEF SentBody, Fits
    <2>6. <<Last(tx.sent)>> # <<>>
        OBVIOUS
    <2> QED BY <2>1, <2>2, <2>5, <2>6, ReadOutcome DEF IInv, GoodRx
<1> QED BY <1>1, Inductive, PTL DEF Spec, Resync

(* Light::read, when the receiver is in step, returns only frames that     *)
(* passed whole, at their closing flag and once each, if no cut frame has  *)
(* a matching checksum.                                                    *)
THEOREM InventsNothing ==
    ASSUME CutFails
    PROVE  Spec => NothingInvented
<1>1. IInv /\ [Next]_vars
          => [reading /\ ~ reading' /\ delivered' # <<>> /\ synced'
                => Closing /\ whole /\ delivered' = <<Last(tx.sent)>>]_vars
    <2> SUFFICES ASSUME IInv, Next, reading, ~ reading', delivered' # <<>>, synced'
                 PROVE  Closing /\ whole /\ delivered' = <<Last(tx.sent)>>
        BY DEF IInv, vars, receiver
    <2>1. Pass
        BY DEF IInv, ReceiverInv, Next, Send, RunTx, SendDone, WriteFails, WriteTimesOut,
               Read, ReadTimesOut, ReadFails, Lose, Alter, MakeUp, Damage, receiver
    <2>2. /\ buf # <<>> /\ ReadByte(Head(buf)) /\ Head(buf) = InBuf /\ InBuf \in Byte
          /\ rx \in GoodRx /\ delivered = <<>>
        BY <2>1, InBufByte DEF Pass, Written, IInv, ReceiverInv
    <2>3. /\ InBuf = Flag /\ rx.state = "Data" /\ rx.buf # <<>> /\ CrcMatches(rx.buf)
          /\ RxByte(rx, Flag).frames = delivered'
        BY <2>2, ReadOutcome DEF IInv
    <2>4. ~ TimedOut /\ (synced \/ (Closing /\ whole))
        BY <2>1 DEF TimedOut, Pass
    <2>5. Closing
        <3>1. Closing \/ Opening
            BY <2>2, <2>3, InBufByte DEF IInv
        <3>2. CASE Opening /\ ~ Closing
            <4>1. synced => Ready(rx)
                BY <2>2, <3>2 DEF IInv, ReceiverInv, Between
            <4> QED BY <2>3, <2>4, <3>2, <4>1 DEF Ready
        <3> QED BY <3>1, <3>2
    <2>6. Follows(SentBody, Len(SentBody), FALSE)
        BY <2>2, <2>5 DEF IInv, ReceiverInv, Closing, Opening
    <2>7. whole /\ InStep(rx, SentBody, Len(SentBody), FALSE)
        BY <2>3, <2>4, <2>6 DEF Follows
    <2>8. /\ Last(tx.sent) \in Payloads /\ Last(tx.sent) # <<>> /\ Sendable(Last(tx.sent))
        BY <2>2, <2>5, InBufByte, LightAssumption DEF IInv
    <2>9. Fits(Last(tx.sent))
        <3>1. CASE Len(SentBody) <= PhysMtu
            BY <3>1 DEF Fits, SentBody
        <3>2. CASE Len(SentBody) > PhysMtu
            <4>1. rx.buf = SubSeq(SentBody, 1, PhysMtu)
                BY <2>2, <2>7, <2>8, <3>2, ClosingFlag DEF SentBody
            <4> QED BY <2>3, <2>8, <4>1 DEF CutFails, SentBody
        <3>3. Len(SentBody) \in Nat
            BY <2>8, ConcatProperties DEF SentBody, Sendable
        <3> QED BY <3>1, <3>2, <3>3, MtuAssumption
    <2> QED BY <2>2, <2>3, <2>5, <2>7, <2>8, <2>9, ClosingFlag DEF SentBody, Fits
<1> QED BY <1>1, Inductive, PTL DEF Spec, NothingInvented

===============================================================================
