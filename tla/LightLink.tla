------------------------------- MODULE LightLink -------------------------------
(***************************************************************************)
(* Two Light endpoints on a line: one calls send, the other read (Light of *)
(* src/src/proto/light.rs).  An endpoint's HdlcLl has a sending and a      *)
(* receiving half that share nothing, so the sender is a Tx and the        *)
(* receiver an Rx.                                                         *)
(*                                                                         *)
(* Both calls are loops that move one byte per turn, and a turn is a step. *)
(* A byte passes when write_fn and read_fn meet: a buffer on the line      *)
(* would delay bytes, it would not change their order.  write_fn answers 0 *)
(* while it waits, read_fn answers 0 while nothing comes.  The line may    *)
(* lose a byte, alter it, or make one up.  The clock is a choice: any turn *)
(* may be the one that finds the timeout expired.                          *)
(***************************************************************************)
EXTENDS HdlcEncoder

CONSTANTS
    Payloads,      \* what the application sends
    MaxFailures,   \* how often write_fn fails
    MaxStale       \* bound: notifications that nobody fetched

ASSUME LightAssumption ==
    /\ \A data \in Payloads \cup {<<>>} : Sendable(data)
    /\ MaxFailures \in Nat /\ MaxStale \in Nat \ {0}

VARIABLES
    tx, rx,        \* the two halves of HdlcLl
    sending,       \* send is running
    arg,           \* its argument data
    buf,           \* its buf[..remaining]
    reading,       \* read is running
    delivered,     \* the frame the last read returned, or nothing
    failures,      \* how often write_fn has failed
    written,       \* history: bytes write_fn took since the last opening flag
    whole,         \* history: the frame on the line has passed undamaged so far
    synced         \* history: since the last damage a whole frame has passed,
                   \* or the receiver was reset

sender == <<tx, sending, arg, buf, failures, written>>
receiver == <<rx, reading, delivered>>
vars == <<sender, receiver, whole, synced>>

Init ==
    /\ tx = NewTx /\ sending = FALSE /\ arg = <<>> /\ buf = <<>>
    /\ rx = NewRx /\ reading = FALSE /\ delivered = <<>>
    /\ failures = 0 /\ written = <<>>
    /\ whole = FALSE /\ synced = TRUE

-------------------------------------------------------------------------------
(* The calls.  A send that finds a frame in HdlcLl returns Busy at once.   *)

Send(data) ==
    /\ ~ sending
    /\ PutAccepts(tx, data)
    /\ sending' = TRUE /\ arg' = data /\ tx' = PutFrame(tx, data)
    /\ UNCHANGED <<buf, failures, written, receiver, whole, synced>>

Read ==
    /\ ~ reading
    /\ reading' = TRUE /\ delivered' = <<>>
    /\ UNCHANGED <<rx, sender, whole, synced>>

-------------------------------------------------------------------------------
(* send: run_tx with a buffer of one byte.                                 *)
RunTx ==
    /\ sending /\ buf = <<>> /\ TxBusy(tx)
    /\ buf' = <<TxOut(tx)>> /\ tx' = TxStep(tx)
    /\ written' = IF tx.state = "Start" THEN <<>> ELSE written
    /\ UNCHANGED <<sending, arg, failures, receiver, whole, synced>>

(* send: run_tx has nothing more, the call returns Ok.                     *)
SendDone ==
    /\ sending /\ buf = <<>> /\ ~ TxBusy(tx)
    /\ sending' = FALSE /\ arg' = <<>> /\ written' = <<>>
    /\ tx' = GetTxSentFrame(tx)
    /\ UNCHANGED <<buf, failures, receiver, whole, synced>>

(* send: write_fn fails.  The byte is gone and the frame stays in HdlcLl.  *)
WriteFails ==
    /\ buf # <<>> /\ failures < MaxFailures
    /\ failures' = failures + 1
    /\ buf' = <<>> /\ sending' = FALSE /\ arg' = <<>>
    /\ whole' = FALSE /\ synced' = FALSE
    /\ UNCHANGED <<tx, written, receiver>>

(* send: the clock, read after each call of write_fn.  A closing flag that *)
(* was written has left a notification, and there it stays.                *)
Abandon ==
    /\ Len(tx.sent) < MaxStale
    /\ tx' = ResetTx(tx) /\ sending' = FALSE /\ arg' = <<>>

(* send: write_fn has taken nothing so far, and the time is up.            *)
WriteTimesOut ==
    /\ buf # <<>> /\ buf' = <<>>
    /\ Abandon
    /\ whole' = FALSE /\ synced' = FALSE
    /\ UNCHANGED <<failures, written, receiver>>

(* send: write_fn takes the byte.                                          *)
Written ==
    /\ buf # <<>> /\ buf' = <<>>
    /\ written' = Append(written, Head(buf))
    /\ UNCHANGED failures
    /\ Abandon \/ UNCHANGED <<tx, sending, arg>>

(* The byte in buf is the opening, the closing flag; the sender stops      *)
(* inside a frame.                                                         *)
Opening == tx.state = "Data" /\ tx.pos = 0 /\ ~ tx.escape
Closing == tx.state = "Start"
CutShort == ~ Closing /\ sending /\ ~ sending'

-------------------------------------------------------------------------------
(* read: the rest of a turn after run_rx.                                  *)
AfterRead(r) ==
    \/ /\ r.frames # <<>>
       /\ rx' = GetRxFrame(r) /\ reading' = FALSE /\ delivered' = <<Head(r.frames)>>
    \/ /\ r.frames = <<>>
       /\ rx' = r /\ UNCHANGED <<reading, delivered>>
    \/ /\ r.frames = <<>>
       /\ rx' = ResetRx(r) /\ reading' = FALSE /\ UNCHANGED delivered

(* read: one byte comes in.  WrongCrc is ignored, DataTooLarge cannot be.  *)
ReadByte(byte) == reading /\ AfterRead(RxByte(rx, byte))

TimedOut == reading /\ ~ reading' /\ delivered' = <<>>

(* read: nothing comes in until the time is up, or read_fn fails.          *)
ReadTimesOut ==
    /\ reading /\ reading' = FALSE
    /\ rx' = ResetRx(rx)
    /\ whole' = FALSE /\ synced' = TRUE
    /\ UNCHANGED <<delivered, sender>>

ReadFails ==
    /\ reading /\ reading' = FALSE
    /\ UNCHANGED <<rx, delivered, sender, whole, synced>>

-------------------------------------------------------------------------------
(* The line.                                                               *)

Damage == whole' = FALSE /\ synced' = FALSE

Pass ==
    /\ Written /\ ReadByte(Head(buf))
    /\ whole' = ((whole \/ Opening) /\ ~ TimedOut /\ ~ CutShort)
    /\ synced' = (~ CutShort /\ (synced \/ TimedOut \/ (Closing /\ whole)))

Lose == Damage /\ Written /\ UNCHANGED receiver

Alter == Damage /\ Written /\ \E byte \in Byte \ {Head(buf)} : ReadByte(byte)

MakeUp == Damage /\ (\E byte \in Byte : ReadByte(byte)) /\ UNCHANGED sender

Next ==
    \/ \E data \in Payloads : Send(data)
    \/ RunTx \/ SendDone \/ WriteFails \/ WriteTimesOut
    \/ Read \/ ReadTimesOut \/ ReadFails
    \/ Pass \/ Lose \/ Alter \/ MakeUp

Spec == Init /\ [][Next]_vars

-------------------------------------------------------------------------------
(* Types; the receiver keeps no more bytes than its buffer has room for,   *)
(* and a frame waits in HdlcLl only during run_rx.                         *)
TypeOK ==
    /\ tx \in Tx /\ rx \in Rx
    /\ Len(rx.buf) <= PhysMtu /\ rx.frames = <<>>
    /\ sending \in BOOLEAN /\ reading \in BOOLEAN
    /\ arg \in Payloads \cup {<<>>}
    /\ buf \in Seq(Byte) /\ Len(buf) <= 1
    /\ delivered \in Seq(Seq(Byte)) /\ Len(delivered) <= 1
    /\ failures \in 0 .. MaxFailures
    /\ written \in Seq(Byte)
    /\ whole \in BOOLEAN /\ synced \in BOOLEAN

Fits(data) == Len(data \o Crc(data)) <= PhysMtu

(* Resynchronisation.  However the line has mangled the bytes before, and  *)
(* wherever read and send have given up: once a whole frame has passed, or *)
(* the receiver was reset, the next frame that passes whole is returned as *)
(* it was sent.  Escapes, flags and leftovers of a bad frame do not        *)
(* matter (run_rx, run_tx).                                                *)
Resync ==
    [][Pass /\ Closing /\ whole /\ synced /\ Fits(Last(tx.sent))
        => delivered' = <<Last(tx.sent)>>]_vars

(* A receiver in step returns nothing but whole frames, and each of them   *)
(* when its closing flag comes: no half of a frame, no frame longer than   *)
(* its buffer cut to fit, none twice (run_rx, Light::read).                *)
NothingInvented ==
    [][reading /\ ~ reading' /\ delivered' # <<>> /\ synced'
        => Closing /\ whole /\ delivered' = <<Last(tx.sent)>>]_vars

(* send returns Ok only after write_fn took every byte of the frame, and   *)
(* these bytes are what HdlcEncoder::encode writes for the payload         *)
(* (test_interop_old_encoder_new_decoder).  A frame that an earlier call   *)
(* left in HdlcLl does not count as this one's.                            *)
OkMeansWritten == [][SendDone /\ arg # <<>> => written = Encode(arg)]_vars

(* HdlcEncoder::decode reads what run_tx wrote, to the last byte, and finds *)
(* the payload (test_interop_new_encoder_old_decoder).                     *)
DecoderReads ==
    [][SendDone /\ arg # <<>>
        => Decode(written) = [consumed |-> Len(written), payload |-> <<arg>>]]_vars

===============================================================================
