------------------------------ MODULE HdlcProofs -------------------------------
(***************************************************************************)
(* What TLC checks of Hdlc with two frames and no checksum, proved for     *)
(* every alphabet, checksum, buffer size and set of payloads, and for      *)
(* every number of failing writes.                                         *)
(***************************************************************************)
EXTENDS Hdlc, HdlcLlLemmas

(* The application queues no empty frame: one would take TX_ACCEPT.        *)
NoEmptyPayload == <<>> \notin Payloads

TxInv == tx \in GoodTx(Payloads)

(* Until a write fails on a closing flag: a notification waits only while  *)
(* run_tx runs, to be fetched at its end; a send that is driven has its    *)
(* frame in HdlcLl; otherwise TX_ACCEPT says that HdlcLl is free.          *)
AcceptInv ==
    ~ stale =>
        /\ tx.sent # <<>> => call = "run_tx" /\ ~ TxBusy(tx)
        /\ call = "send" => TxBusy(tx) /\ "TX_ACCEPT" \notin events
        /\ call # "send" /\ tx.sent = <<>> => ("TX_ACCEPT" \in events <=> ~ TxBusy(tx))

(* A send that is driven writes its own frame.                             *)
WrittenInv ==
    call = "send" /\ TxBusy(tx) =>
        tx.data = arg /\ (tx.state = "Data" => written = SoFar(tx))

IInv == TypeOK /\ TxInv

SInv == IInv /\ AcceptInv /\ WrittenInv

-------------------------------------------------------------------------------

LEMMA PayloadFrames == Frames(Payloads)
BY HdlcAssumption DEF Frames

(* What becomes of the transmitter in the calls.                           *)
LEMMA TxMoves ==
    ASSUME TxInv
    PROVE  /\ TxBusy(tx) => /\ TxStep(tx) \in GoodTx(Payloads) /\ TxOut(tx) \in Byte
                            /\ ResetTx(TxStep(tx)) \in GoodTx(Payloads)
                            /\ GetTxSentFrame(TxStep(tx)) \in GoodTx(Payloads)
           /\ ResetTx(tx) \in GoodTx(Payloads) /\ GetTxSentFrame(tx) \in GoodTx(Payloads)
           /\ \A data \in Payloads : PutAccepts(tx, data) =>
                  PutFrame(tx, data) \in GoodTx(Payloads)
                  /\ ResetTx(PutFrame(tx, data)) \in GoodTx(Payloads)
<1>1. tx \in GoodTx(Payloads)
    BY DEF TxInv
<1>2. TxBusy(tx) => TxStep(tx) \in GoodTx(Payloads) /\ TxOut(tx) \in Byte
    BY <1>1, PayloadFrames, TxStepGood, TxOutType
<1> QED BY <1>1, <1>2, PayloadFrames, TxCallsGood

LEMMA NoneSentGood ==
    ASSUME NEW t \in GoodTx(Payloads)
    PROVE  [t EXCEPT !.sent = <<>>] \in GoodTx(Payloads)
<1> DEFINE u == [t EXCEPT !.sent = <<>>]
<1>1. t \in Tx
    BY DEF GoodTx
<1>2. u \in Tx
    BY <1>1, NoBytes DEF Tx
<1>3. /\ u.state = t.state /\ u.data = t.data /\ u.pos = t.pos /\ u.escape = t.escape
      /\ u.sent = <<>>
    BY <1>1 DEF Tx
<1> HIDE DEF u
<1>4. Body(u) = Body(t) /\ NextByte(u) = NextByte(t) /\ (TxBusy(u) <=> TxBusy(t))
    BY <1>3 DEF TxBusy, Body, NextByte
<1>5. \A i \in DOMAIN u.sent : u.sent[i] \in Payloads \ {<<>>}
    BY <1>3
<1>6. u \in GoodTx(Payloads)
    BY <1>2, <1>3, <1>4, <1>5 DEF GoodTx
<1> QED BY <1>6 DEF u

LEMMA TxStepInv ==
    ASSUME TypeOK, TxInv, Next
    PROVE  TxInv'
<1>1. tx' \in GoodTx(Payloads) \/ \E t \in GoodTx(Payloads) : tx' = [t EXCEPT !.sent = <<>>]
    <2>1. CASE \E data \in Payloads : Send(data)
        BY <2>1, TxMoves DEF TxInv, Send, SendQueues, SendWaits, SendDrives, SendBusy, Accepted
    <2>2. CASE SendTurn \/ SendFails
        BY <2>2, TxMoves DEF TxInv, SendTurn, SendFails, AfterWrite, Cancel
    <2>3. CASE RunTx \/ RunTxTurn \/ RunTxFails
        BY <2>3, TxMoves DEF TxInv, RunTx, RunTxTurn, RunTxFails, NotifySent
    <2>4. CASE GetTxData
        BY <2>4, TxMoves DEF TxInv, GetTxData, NotifySent
    <2>5. CASE (\E byte \in Byte : RunRx(byte)) \/ Reset
        BY <2>5, TxMoves DEF TxInv, RunRx, Reset
    <2> QED BY <2>1, <2>2, <2>3, <2>4, <2>5 DEF Next
<1> QED BY <1>1, NoneSentGood DEF TxInv

LEMMA ReceiverType ==
    ASSUME TypeOK, NEW byte \in Byte
    PROVE  /\ [RxByte(rx, byte) EXCEPT !.frames = <<>>] \in Rx
           /\ [RxByte(rx, byte) EXCEPT !.frames = <<>>].frames = <<>>
           /\ Len([RxByte(rx, byte) EXCEPT !.frames = <<>>].buf) <= PhysMtu
<1> DEFINE r == RxByte(rx, byte)
           q == [r EXCEPT !.frames = <<>>]
<1>1. rx \in GoodRx
    BY DEF TypeOK, GoodRx
<1>2. CASE r \in GoodRx
    <2>1. r \in Rx /\ Len(r.buf) <= PhysMtu
        BY <1>2 DEF GoodRx
    <2> HIDE DEF r
    <2>2. q \in Rx /\ q.frames = <<>> /\ q.buf = r.buf
        BY <2>1, NoBytes DEF Rx
    <2> QED BY <2>1, <2>2 DEF r
<1>3. CASE r \notin GoodRx
    <2>1. r = [state |-> "Start", buf |-> <<>>, escape |-> rx.escape,
               frames |-> <<Stripped(rx.buf)>>]
        BY <1>1, <1>3, RxByteFrame
    <2>2. q = [state |-> "Start", buf |-> <<>>, escape |-> rx.escape, frames |-> <<>>]
        BY <2>1
    <2>3. rx.escape \in BOOLEAN
        BY <1>1 DEF GoodRx, Rx
    <2> HIDE DEF q
    <2>4. q \in Rx /\ q.frames = <<>> /\ q.buf = <<>>
        BY <2>2, <2>3, NoBytes DEF Rx
    <2> QED BY <2>4, MtuAssumption DEF q
<1> QED BY <1>2, <1>3

LEMMA TypeStep ==
    ASSUME TypeOK, TxInv, Next
    PROVE  TypeOK'
<1>1. tx' \in Tx
    BY TxStepInv DEF TxInv, GoodTx
<1>2. /\ <<>> \in Payloads \cup {<<>>}
      /\ \A e \in SUBSET Event :
            {e \cup {"TX_ACCEPT"}, e \cup {"TX_DATA_SENT", "TX_ACCEPT"},
             e \cup {"RX_DATA_READY"}, e \cup {"TX_ACCEPT", "TX_DATA_READY"},
             e \ {"TX_ACCEPT"}, (e \ {"TX_ACCEPT"}) \cup {"TX_DATA_READY"},
             (e \ {"TX_ACCEPT", "TX_DATA_SENT"}) \cup {"TX_DATA_READY"}, {"TX_ACCEPT"}}
                \subseteq SUBSET Event
    BY DEF Event
<1>3. ASSUME Written, TxBusy(tx)
      PROVE  written' \in Seq(Byte) /\ failures' \in 0 .. MaxFailures /\ stale' \in BOOLEAN
    <2>1. TxOut(tx) \in Byte
        BY <1>3, TxMoves
    <2>2. written' \in Seq(Byte)
        <3>1. <<TxOut(tx)>> \in Seq(Byte) /\ Append(written, TxOut(tx)) \in Seq(Byte)
            BY <2>1, AppendProperties DEF TypeOK
        <3> QED BY <1>3, <3>1 DEF Written
    <2> QED BY <1>3, <2>2 DEF Written, TypeOK
<1>4. ASSUME WriteFails
      PROVE  written' \in Seq(Byte) /\ failures' \in 0 .. MaxFailures /\ stale' \in BOOLEAN
    <2>1. failures' \in 0 .. MaxFailures
        BY <1>4, HdlcAssumption DEF WriteFails, TypeOK
    <2>2. stale' \in BOOLEAN
        BY <1>4 DEF WriteFails, TypeOK
    <2> QED BY <1>4, <2>1, <2>2 DEF WriteFails, TypeOK
<1>5. ASSUME NoWrite
      PROVE  written' \in Seq(Byte) /\ failures' \in 0 .. MaxFailures /\ stale' \in BOOLEAN
    BY <1>5 DEF NoWrite, TypeOK
<1>6. ASSUME NEW t, AfterWrite(t)
      PROVE  /\ events' \subseteq Event /\ call' \in {"none", "send", "run_tx"}
             /\ arg' \in Payloads \cup {<<>>}
             /\ result' \in {"None", "Ok", "Busy", "Timeout", "Failed"}
    BY <1>2, <1>6 DEF AfterWrite, Cancel, Return, TypeOK
<1>7. ASSUME NEW t, NotifySent(t) PROVE events' \subseteq Event
    BY <1>2, <1>7 DEF NotifySent, TypeOK
<1>8. CASE \E data \in Payloads : Send(data)
    <2>1. PICK data \in Payloads : Send(data)
        BY <1>8
    <2>2. CASE SendQueues(data)
        BY <1>1, <1>2, <2>2 DEF SendQueues, TypeOK
    <2>3. CASE SendWaits(data)
        <3>1. events' \subseteq Event /\ result' \in {"Ok", "Timeout"}
            BY <1>2, <2>3 DEF SendWaits, TypeOK
        <3> QED BY <1>1, <2>3, <3>1 DEF SendWaits, TypeOK
    <2>4. CASE SendDrives(data)
        BY <1>1, <1>2, <2>4 DEF SendDrives, TypeOK
    <2>5. CASE SendBusy(data)
        BY <1>1, <1>2, <2>5 DEF SendBusy, TypeOK
    <2> QED BY <2>1, <2>2, <2>3, <2>4, <2>5 DEF Send
<1>9. CASE SendTurn
    BY <1>1, <1>3, <1>5, <1>6, <1>9 DEF SendTurn, TypeOK
<1>10. CASE SendFails
    BY <1>1, <1>2, <1>4, <1>10 DEF SendFails, Cancel, Return, TypeOK
<1>11. CASE RunTx
    BY <1>1, <1>11 DEF RunTx, TypeOK
<1>12. CASE RunTxTurn
    BY <1>1, <1>3, <1>5, <1>7, <1>12 DEF RunTxTurn, TypeOK
<1>13. CASE RunTxFails
    BY <1>1, <1>4, <1>13 DEF RunTxFails, TypeOK
<1>14. CASE GetTxData
    BY <1>1, <1>3, <1>5, <1>7, <1>14 DEF GetTxData, TypeOK
<1>15. CASE \E byte \in Byte : RunRx(byte)
    <2>1. PICK byte \in Byte : RunRx(byte)
        BY <1>15
    <2>2. rx' \in Rx /\ rx'.frames = <<>> /\ Len(rx'.buf) <= PhysMtu
        BY <2>1, ReceiverType DEF RunRx
    <2>3. events' \subseteq Event
        BY <1>2, <2>1 DEF RunRx, TypeOK
    <2> QED BY <1>1, <2>1, <2>2, <2>3 DEF RunRx, TypeOK
<1>16. CASE Reset
    <2>1. ResetRx(rx) \in GoodRx
        BY ReceiverCalls DEF TypeOK, GoodRx
    <2> QED BY <1>1, <1>2, <1>16, <2>1 DEF Reset, TypeOK, GoodRx
<1> QED BY <1>8, <1>9, <1>10, <1>11, <1>12, <1>13, <1>14, <1>15, <1>16 DEF Next

LEMMA InitInv == Init => SInv
<1> SUFFICES ASSUME Init PROVE SInv
    OBVIOUS
<1>1. tx \in GoodTx(Payloads) /\ tx \in Tx
    BY PayloadFrames, TxCallsGood DEF Init, GoodTx
<1>2. rx \in GoodRx
    BY ReceiverCalls DEF Init
<1>3. TypeOK
    <2>1. <<>> \in Seq(Byte) /\ {"TX_ACCEPT"} \subseteq Event
        BY DEF Event
    <2>2. failures \in 0 .. MaxFailures
        BY HdlcAssumption DEF Init
    <2> QED BY <1>1, <1>2, <2>1, <2>2 DEF Init, TypeOK, GoodRx
<1>4. tx.sent = <<>> /\ tx.data = <<>>
    BY DEF Init, NewTx
<1>5. AcceptInv /\ WrittenInv
    BY <1>4 DEF Init, AcceptInv, WrittenInv, TxBusy
<1> QED BY <1>1, <1>3, <1>5 DEF SInv, IInv, TxInv

LEMMA AcceptStep ==
    ASSUME NoEmptyPayload, TypeOK, TxInv, AcceptInv, Next
    PROVE  AcceptInv'
<1> SUFFICES ASSUME ~ stale'
             PROVE  /\ tx'.sent # <<>> => call' = "run_tx" /\ ~ TxBusy(tx')
                    /\ call' = "send" => TxBusy(tx') /\ "TX_ACCEPT" \notin events'
                    /\ call' # "send" /\ tx'.sent = <<>> =>
                           ("TX_ACCEPT" \in events' <=> ~ TxBusy(tx'))
    BY DEF AcceptInv, TxBusy
<1>1. ~ stale
    BY DEF Next, Send, SendQueues, SendWaits, SendDrives, SendBusy, SendTurn, SendFails,
           RunTx, RunTxTurn, RunTxFails, GetTxData, RunRx, Reset, Written, WriteFails, NoWrite,
           TypeOK
<1>2. /\ tx \in GoodTx(Payloads) /\ tx \in Tx /\ tx.sent \in Seq(Seq(Byte))
      /\ tx.sent # <<>> => call = "run_tx" /\ ~ TxBusy(tx)
      /\ call = "send" => TxBusy(tx) /\ "TX_ACCEPT" \notin events
      /\ call # "send" /\ tx.sent = <<>> => ("TX_ACCEPT" \in events <=> ~ TxBusy(tx))
    BY <1>1 DEF TxInv, AcceptInv, GoodTx, Tx
(* A byte of a frame: the frame is still there, or it was the last byte.   *)
<1>3. ASSUME TxBusy(tx)
      PROVE  /\ tx.sent = <<>>
             /\ \/ TxStep(tx).sent = <<>> /\ TxBusy(TxStep(tx))
                \/ /\ TxStep(tx).sent # <<>> /\ ~ TxBusy(TxStep(tx))
                   /\ Len(TxStep(tx).sent) = 1 /\ TxStep(tx).sent \in Seq(Seq(Byte))
                   /\ TxStep(tx).sent # tx.sent
    <2>1. tx.sent = <<>> /\ tx.state \in {"Start", "Data"} /\ tx.data \in Seq(Byte)
        BY <1>2, <1>3 DEF Tx
    <2>2. \/ TxStep(tx).sent = tx.sent /\ TxStep(tx).data = tx.data
          \/ TxStep(tx).sent = Append(tx.sent, tx.data) /\ TxStep(tx).data = <<>>
        BY <1>2, <1>3, <2>1, PayloadFrames, TxStepWrites
    <2>3. /\ Append(tx.sent, tx.data) # <<>> /\ Len(Append(tx.sent, tx.data)) = 1
          /\ Append(tx.sent, tx.data) \in Seq(Seq(Byte))
        BY <1>2, <2>1, AppendProperties
    <2> QED BY <1>3, <2>1, <2>2, <2>3 DEF TxBusy
<1>4. /\ ResetTx(tx).sent = tx.sent /\ ~ TxBusy(ResetTx(tx))
      /\ TxBusy(tx) => /\ ResetTx(TxStep(tx)).sent = TxStep(tx).sent
                       /\ ~ TxBusy(ResetTx(TxStep(tx)))
    <2>1. ASSUME NEW t \in Tx PROVE ResetTx(t).sent = t.sent /\ ~ TxBusy(ResetTx(t))
        BY DEF ResetTx, TxBusy, Tx
    <2>2. TxBusy(tx) => TxStep(tx) \in Tx
        BY TxMoves DEF GoodTx
    <2> QED BY <1>2, <2>1, <2>2
<1>5. CASE \E data \in Payloads : Send(data)
    <2>1. PICK data \in Payloads : Send(data)
        BY <1>5
    <2>2. "TX_ACCEPT" \in events /\ call = "none" /\ ~ TxBusy(tx) /\ tx.sent = <<>>
        BY <1>2, <2>1 DEF Send, SendQueues, SendWaits, SendDrives, SendBusy, Accepted
    <2>3. PutFrame(tx, data) = [tx EXCEPT !.data = data, !.pos = 0] /\ data # <<>>
        BY DEF PutFrame, NoEmptyPayload
    <2>4. /\ PutFrame(tx, data).sent = <<>> /\ TxBusy(PutFrame(tx, data))
          /\ ResetTx(PutFrame(tx, data)).sent = <<>>
          /\ ~ TxBusy(ResetTx(PutFrame(tx, data)))
        BY <1>2, <2>2, <2>3 DEF TxBusy, ResetTx, Tx
    <2>5. CASE SendQueues(data)
        BY <2>2, <2>4, <2>5 DEF SendQueues
    <2>6. CASE SendWaits(data)
        BY <2>2, <2>4, <2>6 DEF SendWaits
    <2>7. CASE SendDrives(data)
        BY <2>2, <2>4, <2>7 DEF SendDrives
    <2>8. CASE SendBusy(data)
        BY <2>2, <2>8 DEF SendBusy, PutAccepts
    <2> QED BY <2>1, <2>5, <2>6, <2>7, <2>8 DEF Send
<1>6. CASE SendTurn
    <2>1. TxBusy(tx) /\ AfterWrite(TxStep(tx)) /\ call = "send" /\ "TX_ACCEPT" \notin events
        BY <1>2, <1>6 DEF SendTurn
    <2>2. CASE TxStep(tx).sent # <<>>
        <3>1. tx' = GetTxSentFrame(TxStep(tx)) /\ call' = "none" /\ "TX_ACCEPT" \in events'
            BY <2>1, <2>2 DEF AfterWrite, Return
        <3>2. TxStep(tx) \in Tx /\ ~ TxBusy(TxStep(tx))
            BY <1>3, <2>1, <2>2, TxMoves DEF GoodTx, TxInv
        <3>3. Tail(TxStep(tx).sent) = <<>>
            <4> DEFINE u == TxStep(tx).sent
            <4>1. u \in Seq(Seq(Byte)) /\ Len(u) = 1 /\ u # <<>>
                BY <1>3, <2>1, <2>2
            <4> HIDE DEF u
            <4>2. Tail(u) \in Seq(Seq(Byte)) /\ Len(Tail(u)) = 0
                BY <4>1, HeadTailProperties
            <4>3. Tail(u) = <<>>
                BY <4>2, EmptySeq
            <4> QED BY <4>3 DEF u
        <3>4. tx'.sent = <<>> /\ ~ TxBusy(tx')
            BY <2>2, <3>1, <3>2, <3>3 DEF GetTxSentFrame, TxBusy, Tx
        <3> QED BY <3>1, <3>4
    <2>3. CASE TxStep(tx).sent = <<>>
        <3>1. TxBusy(TxStep(tx))
            BY <1>3, <2>1, <2>3
        <3>2. CASE tx' = TxStep(tx) /\ UNCHANGED <<events, call, arg, result>>
            BY <2>1, <2>3, <3>1, <3>2
        <3>3. CASE Cancel(TxStep(tx), "Timeout")
            BY <1>4, <2>1, <2>3, <3>3 DEF Cancel, Return
        <3> QED BY <2>1, <2>3, <3>2, <3>3 DEF AfterWrite
    <2> QED BY <2>2, <2>3
<1>7. CASE SendFails
    <2>1. TxBusy(tx) /\ TxStep(tx).sent = tx.sent /\ Cancel(TxStep(tx), "Failed")
        BY <1>7 DEF SendFails, WriteFails
    <2> QED BY <1>3, <1>4, <2>1 DEF Cancel, Return
<1>8. CASE RunTx
    BY <1>2, <1>8 DEF RunTx
<1>9. ASSUME NotifySent(tx), ~ TxBusy(tx), call # "send"
      PROVE  tx'.sent = <<>> /\ ~ TxBusy(tx') /\ "TX_ACCEPT" \in events'
    <2>1. tx' = [tx EXCEPT !.sent = <<>>]
        BY <1>9 DEF NotifySent
    <2>2. tx'.sent = <<>> /\ tx'.data = tx.data
        BY <1>2, <2>1 DEF Tx
    <2> QED BY <1>2, <1>9, <2>2 DEF NotifySent, TxBusy
<1>10. CASE RunTxTurn
    <2>1. CASE TxBusy(tx)
        <3>1. tx' = TxStep(tx) /\ events' = events /\ call' = "run_tx" /\ call = "run_tx"
            BY <1>10, <2>1 DEF RunTxTurn
        <3> QED BY <1>2, <1>3, <2>1, <3>1
    <2>2. CASE ~ TxBusy(tx)
        BY <1>9, <1>10, <2>2 DEF RunTxTurn
    <2> QED BY <2>1, <2>2
<1>11. CASE RunTxFails
    <2>1. /\ TxBusy(tx) /\ TxStep(tx).sent = tx.sent /\ tx' = TxStep(tx) /\ call' = "none"
          /\ events' = events /\ call = "run_tx"
        BY <1>11 DEF RunTxFails, WriteFails
    <2> QED BY <1>2, <1>3, <2>1
<1>12. CASE GetTxData
    <2>1. CASE TxBusy(tx)
        <3>1. NotifySent(TxStep(tx)) /\ call' = "none" /\ call = "none"
            BY <1>12, <2>1 DEF GetTxData
        <3>2. tx' = [TxStep(tx) EXCEPT !.sent = <<>>] /\ TxStep(tx) \in Tx
            BY <2>1, <3>1, TxMoves DEF NotifySent, GoodTx
        <3>3. tx'.sent = <<>> /\ (TxBusy(tx') <=> TxBusy(TxStep(tx)))
            BY <3>2 DEF Tx, TxBusy
        <3> QED BY <1>2, <1>3, <2>1, <3>1, <3>3 DEF NotifySent
    <2>2. CASE ~ TxBusy(tx)
        BY <1>9, <1>12, <2>2 DEF GetTxData
    <2> QED BY <2>1, <2>2
<1>13. CASE \E byte \in Byte : RunRx(byte)
    <2>1. PICK byte \in Byte : RunRx(byte)
        BY <1>13
    <2>2. tx' = tx /\ call' = call /\ ("TX_ACCEPT" \in events' <=> "TX_ACCEPT" \in events)
        BY <2>1 DEF RunRx
    <2> QED BY <1>2, <2>2
<1>14. CASE Reset
    BY <1>2, <1>4, <1>14 DEF Reset
<1> QED BY <1>5, <1>6, <1>7, <1>8, <1>10, <1>11, <1>12, <1>13, <1>14 DEF Next

LEMMA WrittenStep ==
    ASSUME NoEmptyPayload, TypeOK, TxInv, WrittenInv, Next
    PROVE  WrittenInv'
<1> SUFFICES ASSUME call' = "send", TxBusy(tx)'
             PROVE  tx'.data = arg' /\ (tx'.state = "Data" => written' = SoFar(tx'))
    BY DEF WrittenInv, SoFar, Body
<1>1. tx \in GoodTx(Payloads) /\ tx \in Tx /\ tx.state \in {"Start", "Data"}
    BY DEF TxInv, GoodTx, Tx
<1>2. CASE \E data \in Payloads : SendDrives(data)
    <2>1. PICK data \in Payloads : SendDrives(data)
        BY <1>2
    <2>2. tx' = [tx EXCEPT !.data = data, !.pos = 0] /\ arg' = data /\ ~ TxBusy(tx)
        BY <2>1 DEF SendDrives, Accepted, PutAccepts, PutFrame, NoEmptyPayload
    <2>3. tx.state = "Start"
        BY <1>1, <2>2 DEF GoodTx
    <2> QED BY <1>1, <2>2, <2>3 DEF Tx
<1>3. CASE SendTurn
    <2>1. call = "send" /\ call' # "none"
        BY <1>3 DEF SendTurn
    <2>2. CASE TxBusy(tx)
        <3>1. Written /\ tx' = TxStep(tx) /\ arg' = arg
            BY <1>3, <2>1, <2>2 DEF SendTurn, AfterWrite, Cancel, Return
        <3>2. tx.data = arg /\ (tx.state = "Data" => written = SoFar(tx))
            BY <2>1, <2>2 DEF WrittenInv
        <3>3. TxOut(tx) \in Byte /\ written \in Seq(Byte)
            BY <2>2, TxMoves DEF TypeOK
        <3>4. CASE tx.state = "Start"
            <4>1. written' = <<TxOut(tx)>>
                BY <3>1, <3>4 DEF Written
            <4> QED BY <1>1, <2>2, <3>1, <3>2, <3>4, <4>1, PayloadFrames, TxStepWrites
        <3>5. CASE tx.state = "Data"
            <4>1. written' = SoFar(tx) \o <<TxOut(tx)>>
                <5>1. Append(written, TxOut(tx)) = written \o <<TxOut(tx)>>
                    BY <3>3
                <5> QED BY <3>1, <3>2, <3>5, <5>1 DEF Written
            <4> QED BY <1>1, <2>2, <3>1, <3>2, <3>5, <4>1, PayloadFrames, TxStepWrites
                    DEF TxBusy
        <3> QED BY <1>1, <3>4, <3>5
    <2>3. CASE ~ TxBusy(tx)
        BY <1>3, <2>1, <2>3 DEF SendTurn, AfterWrite, Cancel, Return, TxBusy
    <2> QED BY <2>2, <2>3
<1>4. CASE call # "send" /\ call' # "send"
    BY <1>4
<1>5. CASE ~ (\E data \in Payloads : SendDrives(data)) /\ ~ SendTurn
    BY <1>5 DEF Next, Send, SendQueues, SendWaits, SendBusy, Accepted, SendFails, Cancel, Return,
                RunTx, RunTxTurn, RunTxFails, GetTxData, RunRx, Reset
<1> QED BY <1>2, <1>3, <1>5

LEMMA TypeInductive ==
    /\ Init => IInv
    /\ IInv /\ [Next]_vars => IInv'
<1>1. Init => IInv
    BY InitInv DEF SInv
<1>2. ASSUME IInv, Next PROVE IInv'
    BY <1>2, TypeStep, TxStepInv DEF IInv
<1>3. ASSUME IInv, UNCHANGED vars PROVE IInv'
    BY <1>3 DEF IInv, TypeOK, TxInv, vars
<1> QED BY <1>1, <1>2, <1>3

LEMMA NextInv ==
    ASSUME NoEmptyPayload
    PROVE  SInv /\ [Next]_vars => SInv'
<1>1. ASSUME SInv, Next PROVE SInv'
    BY <1>1, TypeInductive, AcceptStep, WrittenStep DEF SInv, IInv
<1>2. ASSUME SInv, UNCHANGED vars PROVE SInv'
    <2>1. IInv'
        BY <1>2, TypeInductive DEF SInv
    <2>2. AcceptInv' /\ WrittenInv'
        BY <1>2 DEF SInv, AcceptInv, WrittenInv, vars, TxBusy, SoFar, Body
    <2> QED BY <2>1, <2>2 DEF SInv
<1> QED BY <1>1, <1>2

(* The inductive invariant: TX_ACCEPT, the state of HdlcLl and what        *)
(* send_fn has taken go together between any two calls of Hdlc, if no call *)
(* of send is given an empty payload.                                      *)
THEOREM Inductive ==
    ASSUME NoEmptyPayload
    PROVE  Spec => []SInv
BY InitInv, NextInv, PTL DEF Spec

(* Types, and the bound of the receiver's buffer (HdlcLl::run_rx), empty   *)
(* payloads included.                                                      *)
THEOREM TypeCorrect == Spec => []TypeOK
<1>1. IInv => TypeOK
    BY DEF IInv
<1> QED BY <1>1, TypeInductive, PTL DEF Spec

(* Between two calls of Hdlc TX_ACCEPT is set exactly when HdlcLl is free  *)
(* (send, run_tx, get_tx_data, reset), until a write fails on a closing    *)
(* flag.                                                                   *)
THEOREM AcceptIsIdle ==
    ASSUME NoEmptyPayload
    PROVE  Spec => []AcceptMeansIdle
<1>1. SInv => AcceptMeansIdle
    BY DEF SInv, AcceptInv, AcceptMeansIdle
<1> QED BY <1>1, Inductive, PTL

(* A send that Hdlc drives itself returns Ok only after send_fn took the   *)
(* whole frame of its argument, stuffed and with its checksum, until a     *)
(* write fails on a closing flag.                                          *)
THEOREM DrivenIsSent ==
    ASSUME NoEmptyPayload
    PROVE  Spec => DrivenMeansSentUnlessStale
<1>1. SInv /\ [Next]_vars
          => [call = "send" /\ call' = "none" /\ result' = "Ok" /\ ~ stale
                => written' = Framed(arg \o Crc(arg))]_vars
    <2> SUFFICES ASSUME SInv, Next, call = "send", call' = "none", result' = "Ok", ~ stale
                 PROVE  written' = Framed(arg \o Crc(arg))
        BY DEF SInv, IInv, TypeOK, vars
    <2>1. SendTurn
        BY DEF Next, Send, SendQueues, SendWaits, SendDrives, SendBusy, Accepted, SendFails,
               Cancel, Return, RunTx, RunTxTurn, RunTxFails, GetTxData, RunRx, Reset
    <2>2. TxBusy(tx) /\ tx.sent = <<>> /\ tx \in GoodTx(Payloads)
        BY DEF SInv, IInv, TxInv, AcceptInv
    <2>3. TxStep(tx).sent # <<>> /\ Written
        BY <2>1, <2>2 DEF SendTurn, AfterWrite, Cancel, Return
    <2>4. tx.data = arg /\ (tx.state = "Data" => written = SoFar(tx))
        BY <2>2 DEF SInv, WrittenInv
    <2>5. tx.state = "Data" /\ tx.pos = Len(Body(tx))
        <3>1. tx.state \in {"Start", "Data"}
            BY <2>2 DEF GoodTx, Tx
        <3>2. /\ tx.state = "Start" => TxStep(tx).sent = tx.sent
              /\ tx.state = "Data" /\ tx.pos # Len(Body(tx)) => TxStep(tx).sent = tx.sent
            BY <2>2, PayloadFrames, TxStepWrites
        <3> QED BY <2>2, <2>3, <3>1, <3>2
    <2>6. Framed(arg \o Crc(arg)) = SoFar(tx) \o <<TxOut(tx)>>
        BY <2>2, <2>4, <2>5, PayloadFrames, TxStepWrites DEF Body
    <2>7. written' = written \o <<TxOut(tx)>>
        <3>1. TxOut(tx) \in Byte /\ written \in Seq(Byte)
            BY <2>2, TxMoves DEF SInv, IInv, TypeOK
        <3>2. Append(written, TxOut(tx)) = written \o <<TxOut(tx)>>
            BY <3>1
        <3> QED BY <2>3, <2>5, <3>2 DEF Written
    <2> QED BY <2>4, <2>5, <2>6, <2>7
<1> QED BY <1>1, Inductive, PTL DEF Spec, DrivenMeansSentUnlessStale

===============================================================================
