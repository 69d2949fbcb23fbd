--------------------------------- MODULE Hdlc ---------------------------------
(***************************************************************************)
(* The HDLC endpoint with events: Hdlc of src/src/proto/hdlc/high_level.rs.*)
(* Its methods take &mut self, so a call runs to its end before the next   *)
(* one starts, and a wait for an event sees the bits as they are: nobody   *)
(* can set one meanwhile.  send and run_tx loop over the bytes of a frame; *)
(* a turn of their loops is a step and no other call is made in between.   *)
(*                                                                         *)
(* A send that would wait for TX_ACCEPT returns Busy and changes nothing;  *)
(* with the infinite timeout it would not return, which is left out.       *)
(* Apart from that the infinite timeout is a timeout that never expires.   *)
(***************************************************************************)
EXTENDS HdlcEncoder, FiniteSets

CONSTANTS
    Payloads,        \* what the application sends, not empty
    MaxFailures      \* how often send_fn fails

ASSUME HdlcAssumption ==
    /\ \A data \in Payloads \cup {<<>>} : Sendable(data)
    /\ MaxFailures \in Nat

Event == {"TX_ACCEPT", "TX_DATA_READY", "TX_DATA_SENT", "RX_DATA_READY"}

VARIABLES
    tx, rx,             \* the two halves of HdlcLl
    events,             \* the event bits that are set
    multithread_mode,
    call,               \* the loop that runs: "send", "run_tx" or "none"
    arg,                \* data of the send that runs
    result,             \* what the last send returned
    failures,           \* how often send_fn has failed
    written,            \* history: bytes handed over since the last opening flag
    stale               \* history: send_fn has failed on a closing flag

vars == <<tx, rx, events, multithread_mode, call, arg, result, failures, written, stale>>

Init ==
    /\ tx = NewTx /\ rx = NewRx
    /\ events = {"TX_ACCEPT"}
    /\ multithread_mode \in BOOLEAN
    /\ call = "none" /\ arg = <<>> /\ result = "None"
    /\ failures = 0 /\ written = <<>> /\ stale = FALSE

-------------------------------------------------------------------------------
(* Parts of the methods.                                                   *)

(* The loop over get_tx_sent_frame at the end of run_tx and get_tx_data,   *)
(* on a transmitter t.                                                     *)
(* Seeded fault: TX_ACCEPT is not set again.                               *)
NotifySent_NoAccept(t) ==
    /\ tx' = [t EXCEPT !.sent = <<>>]
    /\ events' = IF t.sent = <<>> THEN events ELSE events \cup {"TX_DATA_SENT"}

NotifySent(t) ==
    /\ tx' = [t EXCEPT !.sent = <<>>]
    /\ events' = IF t.sent = <<>> THEN events
                 ELSE events \cup {"TX_DATA_SENT", "TX_ACCEPT"}

(* A send that is driven to its end.                                       *)
Return(r) == call' = "none" /\ arg' = <<>> /\ result' = r

(* A send that failed or timed out takes its frame back from t.            *)
(* Seeded fault: TX_ACCEPT is not set again.                               *)
Cancel_NoAccept(t, r) == tx' = ResetTx(t) /\ Return(r) /\ UNCHANGED events

Cancel(t, r) ==
    tx' = ResetTx(t) /\ events' = events \cup {"TX_ACCEPT"} /\ Return(r)

(* send_fn takes the next byte, or fails on it; then the byte is gone.     *)
Written ==
    /\ written' = IF tx.state = "Start" THEN <<TxOut(tx)>> ELSE Append(written, TxOut(tx))
    /\ UNCHANGED <<failures, stale>>

WriteFails ==
    /\ failures < MaxFailures /\ failures' = failures + 1
    /\ stale' = (stale \/ TxStep(tx).sent # tx.sent)
    /\ UNCHANGED written

NoWrite == UNCHANGED <<written, failures, stale>>

-------------------------------------------------------------------------------
(* send.  The frame is only queued with timeout 0 or without a send_fn.    *)

Accepted(data) ==
    /\ call = "none" /\ "TX_ACCEPT" \in events
    /\ PutAccepts(tx, data)

SendQueues(data) ==
    /\ Accepted(data)
    /\ tx' = PutFrame(tx, data)
    /\ events' = (events \ {"TX_ACCEPT"}) \cup {"TX_DATA_READY"}
    /\ result' = "Ok"
    /\ UNCHANGED <<rx, multithread_mode, call, arg, failures, written, stale>>

(* In multithread mode: TX_DATA_SENT is there already or will not come.    *)
SendWaits(data) ==
    /\ multithread_mode /\ Accepted(data)
    /\ IF "TX_DATA_SENT" \in events
       THEN /\ tx' = PutFrame(tx, data) /\ result' = "Ok"
            /\ events' = (events \ {"TX_ACCEPT", "TX_DATA_SENT"}) \cup {"TX_DATA_READY"}
       ELSE /\ tx' = ResetTx(PutFrame(tx, data)) /\ result' = "Timeout"
            /\ events' = events \cup {"TX_ACCEPT", "TX_DATA_READY"}
    /\ UNCHANGED <<rx, multithread_mode, call, arg, failures, written, stale>>

SendDrives(data) ==
    /\ ~ multithread_mode /\ Accepted(data)
    /\ tx' = PutFrame(tx, data)
    /\ events' = (events \ {"TX_ACCEPT"}) \cup {"TX_DATA_READY"}
    /\ call' = "send" /\ arg' = data
    /\ UNCHANGED <<rx, multithread_mode, result, failures, written, stale>>

(* put_frame refuses although TX_ACCEPT was set.                           *)
SendBusy(data) ==
    /\ call = "none" /\ "TX_ACCEPT" \in events
    /\ ~ PutAccepts(tx, data)
    /\ events' = events \ {"TX_ACCEPT"} /\ result' = "Busy"
    /\ UNCHANGED <<tx, rx, multithread_mode, call, arg, failures, written, stale>>

(* A turn in which send_fn took the byte, or there was none to write: a    *)
(* notification ends the call, whichever frame it is for; then the clock.  *)
AfterWrite(t) ==
    \/ /\ t.sent # <<>>
       /\ tx' = GetTxSentFrame(t)
       /\ events' = events \cup {"TX_DATA_SENT", "TX_ACCEPT"}
       /\ Return("Ok")
    \/ /\ t.sent = <<>>
       /\ tx' = t /\ UNCHANGED <<events, call, arg, result>>
    \/ /\ t.sent = <<>>
       /\ Cancel(t, "Timeout")

SendTurn ==
    /\ call = "send"
    /\ IF TxBusy(tx)
       THEN Written /\ AfterWrite(TxStep(tx))
       ELSE AfterWrite(tx) /\ NoWrite
    /\ UNCHANGED <<rx, multithread_mode>>

SendFails ==
    /\ call = "send" /\ TxBusy(tx)
    /\ WriteFails
    /\ Cancel(TxStep(tx), "Failed")
    /\ UNCHANGED <<rx, multithread_mode>>

-------------------------------------------------------------------------------
(* run_tx: to the end of what there is to write, or to a failing write.    *)

RunTx ==
    /\ call = "none" /\ call' = "run_tx"
    /\ UNCHANGED <<tx, rx, events, multithread_mode, arg, result, failures, written, stale>>

RunTxTurn ==
    /\ call = "run_tx"
    /\ IF TxBusy(tx)
       THEN Written /\ tx' = TxStep(tx) /\ UNCHANGED <<events, call>>
       ELSE NotifySent(tx) /\ call' = "none" /\ NoWrite
    /\ UNCHANGED <<rx, multithread_mode, arg, result>>

RunTxFails ==
    /\ call = "run_tx" /\ TxBusy(tx)
    /\ WriteFails
    /\ tx' = TxStep(tx) /\ call' = "none"
    /\ UNCHANGED <<rx, events, multithread_mode, arg, result>>

(* get_tx_data with room for one byte; more room gives the same bytes.     *)
GetTxData ==
    /\ call = "none"
    /\ IF TxBusy(tx)
       THEN Written /\ NotifySent(TxStep(tx))
       ELSE NotifySent(tx) /\ NoWrite
    /\ UNCHANGED <<rx, multithread_mode, call, arg, result>>

(* run_rx of one byte, and the loop over get_rx_frame.                     *)
RunRx(byte) ==
    /\ call = "none"
    /\ LET r == RxByte(rx, byte) IN
       /\ rx' = [r EXCEPT !.frames = <<>>]
       /\ events' = IF r.frames = <<>> THEN events ELSE events \cup {"RX_DATA_READY"}
    /\ UNCHANGED <<tx, multithread_mode, call, arg, result, failures, written, stale>>

Reset ==
    /\ call = "none"
    /\ tx' = ResetTx(tx) /\ rx' = ResetRx(rx)
    /\ events' = {"TX_ACCEPT"}
    /\ UNCHANGED <<multithread_mode, call, arg, result, failures, written, stale>>

Send(data) == SendQueues(data) \/ SendWaits(data) \/ SendDrives(data) \/ SendBusy(data)

Next ==
    \/ \E data \in Payloads : Send(data)
    \/ SendTurn \/ SendFails
    \/ RunTx \/ RunTxTurn \/ RunTxFails \/ GetTxData
    \/ \E byte \in Byte : RunRx(byte)
    \/ Reset

Spec == Init /\ [][Next]_vars

(* The loops run, and the application goes on calling run_tx or            *)
(* get_tx_data, as the main loop of a program around Hdlc does.            *)
FairSpec ==
    /\ Spec
    /\ WF_vars(SendTurn) /\ WF_vars(RunTxTurn)
    /\ SF_vars(RunTx)

-------------------------------------------------------------------------------
(* Types; between two turns no frame waits in the receiver.                *)
TypeOK ==
    /\ tx \in Tx /\ rx \in Rx
    /\ rx.frames = <<>> /\ Len(rx.buf) <= PhysMtu
    /\ events \subseteq Event
    /\ multithread_mode \in BOOLEAN
    /\ call \in {"none", "send", "run_tx"}
    /\ arg \in Payloads \cup {<<>>}
    /\ result \in {"None", "Ok", "Busy", "Timeout", "Failed"}
    /\ failures \in 0 .. MaxFailures
    /\ written \in Seq(Byte) /\ stale \in BOOLEAN

(* Between calls TX_ACCEPT tells exactly whether HdlcLl is free: a send    *)
(* that is let in finds room, and a free HdlcLl lets the next send in, so  *)
(* no sequence of sends, timeouts, failed writes and resets shuts the      *)
(* transmitter (send, run_tx, get_tx_data, reset).  Not so once a write    *)
(* has failed on a closing flag, because reset leaves the notification of  *)
(* that frame in HdlcLl; and not so for an empty payload, which takes      *)
(* TX_ACCEPT and queues nothing.                                           *)
AcceptMeansIdle ==
    call = "none" /\ ~ stale => ("TX_ACCEPT" \in events <=> ~ TxBusy(tx))

(* "Otherwise, drives TX itself until sent or timeout" (comment of send):  *)
(* a driven send returns Ok only when send_fn has taken all of its frame.  *)
DrivenMeansSent ==
    [][call = "send" /\ call' = "none" /\ result' = "Ok"
        => written' = Framed(arg \o Crc(arg))]_vars

(* The same, but for the notification that a failed closing flag leaves.   *)
DrivenMeansSentUnlessStale ==
    [][call = "send" /\ call' = "none" /\ result' = "Ok" /\ ~ stale
        => written' = Framed(arg \o Crc(arg))]_vars

(* As long as the transmitter is polled it keeps coming free, so no sender *)
(* is refused for ever, whatever has failed (send, run_tx).                *)
KeepsAccepting == []<>("TX_ACCEPT" \in events)

===============================================================================
