------------------------------- MODULE FdStation -------------------------------
(***************************************************************************)
(* One TinyFd endpoint against an arbitrary world: the application calls   *)
(* its methods in any order and any frame of Line may arrive at any        *)
(* moment, whatever the real peer would send.  What holds here holds for   *)
(* every peer, conforming or not.                                          *)
(***************************************************************************)
EXTENDS TinyFd

CONSTANTS
    LocalAddr,    \* the endpoint's own address, PrimaryAddr for a primary
    Line,         \* the frames that may arrive
    SmallBuffer   \* get_tx_data may be given too little room for a frame

ASSUME LocalAddrAssumption == LocalAddr \in Address
ASSUME LineAssumption == Line \subseteq Frame
ASSUME SmallBufferAssumption == SmallBuffer \in BOOLEAN

VARIABLE st

Init == st = NewStation(LocalAddr)

SendPacketTo(p, data) ==
    /\ CanSendPacket(st, p)
    /\ st' = SendPacket(st, p, data)

DisconnectFirst ==
    /\ CanDisconnect(st)
    /\ st' = Disconnect(st)

ReceiveFrame(frame) == st' = OnFrameReceived(st, frame)

(* get_tx_data with a buffer that holds the whole frame, or only a part.   *)
GetTxData == st' = FinishTx(PrepareTx(st))

GetTxDataPart ==
    /\ SmallBuffer
    /\ PrepareTx(st).tx # NoFrame
    /\ st' = PrepareTx(st)

TimePasses(p, timer) ==
    /\ TimerRuns(st.peers[p], timer)
    /\ st' = Elapse(st, p, timer)

Next ==
    \/ \E p \in Peers(LocalAddr), data \in Payload : SendPacketTo(p, data)
    \/ DisconnectFirst
    \/ \E frame \in Line : ReceiveFrame(frame)
    \/ GetTxData
    \/ GetTxDataPart
    \/ \E p \in Peers(LocalAddr), timer \in {"i", "frame"} : TimePasses(p, timer)

Spec == Init /\ [][Next]_st

-------------------------------------------------------------------------------

(* The endpoint keeps its shape: sequence numbers stay below SeqMod,       *)
(* retries never wraps below zero (check_timeouts decrements a u8), queues *)
(* only hold well-formed frames.                                           *)
TypeOK == st \in Station(LocalAddr)

(* The event a sender waits for is never set while the I-frame queue is    *)
(* full, although it is set in four places and cleared in one: a caller    *)
(* that is let through finds a slot.                                       *)
FreeSlotEvent ==
    "QUEUE_HAS_FREE_SLOTS" \in st.events => HasFreeSlots(st.i_queue)

(* Outside a session nothing of the last one is left in the sequence       *)
(* numbers: every way out of a session resets them, and neither a late     *)
(* frame nor a timeout nor a packet queued meanwhile moves them.  last_ns  *)
(* alone may have moved, send_packet does not wait for a session.          *)
ColdControl ==
    \A p \in Peers(LocalAddr) :
        ~ InSession(st.peers[p]) =>
            /\ st.peers[p].control = [ResetControl EXCEPT
                                         !.last_ns = st.peers[p].control.last_ns]
            /\ ~ st.peers[p].sent_reject

(* No call ever overwrites a queued frame: a slot gets a new frame only    *)
(* after it has been free.                                                 *)
KeepsFrames(q, r) ==
    \A i \in DOMAIN q.frames :
        q.frames[i] # NoFrame => r.frames[i] \in {q.frames[i], NoFrame}

NoOverwrite ==
    [][KeepsFrames(st.i_queue, st'.i_queue) /\ KeepsFrames(st.s_queue, st'.s_queue)]_st

(* The frames queued for one peer.                                         *)
QueuedFor(s, p) ==
    {i \in Occupied(s.i_queue) : s.i_queue.frames[i].addr = PeerToAddressField(s, p)}

(* The peers of a primary share both queues, yet whatever frame arrives    *)
(* from one of them, the others keep their connection, their sequence      *)
(* numbers and their queued frames.                                        *)
PeerIsolation ==
    \A frame \in Line :
        LET after == OnFrameReceived(st, frame)
        IN  \A p \in Peers(LocalAddr) \ AddressFieldToPeer(st, frame.addr) :
                /\ after.peers[p] = st.peers[p]
                /\ \A i \in QueuedFor(st, p) :
                       after.i_queue.frames[i] = st.i_queue.frames[i]

(* The end of a session takes the queued frames of that peer with it.      *)
SessionEndPurges ==
    [][\A p \in Peers(LocalAddr) :
         InSession(st.peers[p]) /\ st'.peers[p].state = "Disconnected"
             => QueuedFor(st', p) = {}]_st

===============================================================================
