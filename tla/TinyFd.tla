-------------------------------- MODULE TinyFd --------------------------------
(***************************************************************************)
(* One endpoint of the full-duplex protocol: TinyFd of                     *)
(* src/src/proto/fd/protocol.rs with its peers (peers.rs), its two frame   *)
(* queues (FrameQueue) and its sequence numbers (IQueueControl).           *)
(*                                                                         *)
(* Every method takes &mut self and runs to its end before another can     *)
(* start, so it is an operator from the endpoint before the call to the    *)
(* endpoint after it.  The modules that own endpoints (FdStation, FdLink)  *)
(* turn these operators into actions.                                      *)
(*                                                                         *)
(* Frames are records, not bytes: the two header bytes become type, addr,  *)
(* ns and nr; the payload is a member of Payload.  The P/F and C/R bits    *)
(* are left out, the code ignores them on reception.  An address is the    *)
(* station number, the 6 bits above C/R and E.                             *)
(***************************************************************************)
EXTENDS IQueueControl, FrameQueue

CONSTANTS
    Window,        \* window_frames: slots of the I-frame queue, 1 to 7
    SQueueSize,    \* U_QUEUE_MAX_SIZE: slots of the S/U-frame queue, 4
    Retries,       \* retries of TinyFdConfig
    PeersCount,    \* peers_count of TinyFdConfig, used by a primary only
    Mode,          \* "Abm" or "Nrm"
    Payload,       \* what the application sends
    NoData         \* the payload of a frame that carries none

ASSUME WindowAssumption == Window \in Nat /\ 1 <= Window /\ Window < SeqMod
ASSUME SQueueAssumption == SQueueSize \in Nat \ {0}
ASSUME RetriesAssumption == Retries \in Nat
ASSUME PeersAssumption == PeersCount \in Nat \ {0}
ASSUME ModeAssumption == Mode \in {"Abm", "Nrm"}

FdState == {"Idle", "Disconnected", "Connecting", "Connected", "Disconnecting"}

UType == {"SABM", "SNRM", "UA", "DISC", "DM"}

SType == {"RR", "RNR", "REJ", "SREJ"}

Event == {"TX_DATA_AVAILABLE", "QUEUE_HAS_FREE_SLOTS"}

Address == Nat

(* local_addr of a primary: FD_PRIMARY_ADDR.                               *)
PrimaryAddr == 0

Frame == [type : UType \cup SType \cup {"I"}, addr : Address,
          ns : SeqNum, nr : SeqNum, data : Payload \cup {NoData}]

(* The frames an endpoint queues: I-frames in one queue, all others in the *)
(* other.                                                                  *)
DataFrame == [type : {"I"}, addr : Address, ns : SeqNum, nr : SeqNum, data : Payload]

ServiceFrame ==
    [type : UType \cup SType, addr : Address, ns : SeqNum, nr : SeqNum, data : {NoData}]

SentFrame == DataFrame \cup ServiceFrame

ASSUME NoFrameAssumption == NoFrame \notin SentFrame

UFrame(type, addr) ==
    [type |-> type, addr |-> addr, ns |-> 0, nr |-> 0, data |-> NoData]

SFrame(type, addr, nr) == [UFrame(type, addr) EXCEPT !.nr = nr]

IFrame(addr, ns, nr, data) ==
    [type |-> "I", addr |-> addr, ns |-> ns, nr |-> nr, data |-> data]

(***************************************************************************)
(* Peers.  i_elapsed and frame_elapsed say whether retry_timeout has gone  *)
(* by since last_sent_i_ts and last_sent_frame_ts: a fresh Instant::now()  *)
(* makes them FALSE, the passing of time makes them TRUE (see Elapse).     *)
(***************************************************************************)
PeerInfo == [state : FdState, control : Control, sent_reject : BOOLEAN,
             retries : 0 .. Retries, i_elapsed : BOOLEAN, frame_elapsed : BOOLEAN]

NewPeer == [state |-> "Disconnected", control |-> ResetControl,
            sent_reject |-> FALSE, retries |-> 0,
            i_elapsed |-> TRUE, frame_elapsed |-> TRUE]

ResetConnection(peer) ==
    [peer EXCEPT !.control = ResetControl, !.sent_reject = FALSE,
                 !.frame_elapsed = FALSE]

(* A primary keeps PeersCount secondaries, a secondary just its primary.   *)
NumPeers(local) == IF local = PrimaryAddr THEN PeersCount ELSE 1

Peers(local) == 0 .. NumPeers(local) - 1

(* The address field always names the secondary.                           *)
PeerToAddressField(st, p) ==
    IF st.local_addr = PrimaryAddr THEN p + 1 ELSE st.local_addr

(* Seeded fault: a secondary obeys whatever is addressed to a secondary.   *)
AddressFieldToPeer_AnySecondary(st, addr) ==
    IF st.local_addr = PrimaryAddr
    THEN {p \in Peers(st.local_addr) : p + 1 = addr}
    ELSE {0}

(* The peers a received address field stands for: one, or none and the     *)
(* frame is ignored.                                                       *)
AddressFieldToPeer(st, addr) ==
    IF st.local_addr = PrimaryAddr
    THEN {p \in Peers(st.local_addr) : p + 1 = addr}
    ELSE {p \in {0} : addr \in {st.local_addr, PrimaryAddr}}

(***************************************************************************)
(* The endpoint.  tx is the frame HdlcLl is putting on the wire.           *)
(***************************************************************************)
Station(local) ==
    [local_addr : {local},
     peers      : [Peers(local) -> PeerInfo],
     i_queue    : FrameQueueOf(Window, DataFrame),
     s_queue    : FrameQueueOf(SQueueSize, ServiceFrame),
     events     : SUBSET Event,
     tx         : SentFrame \cup {NoFrame}]

NewStation(local) ==
    [local_addr |-> local,
     peers      |-> [p \in Peers(local) |-> NewPeer],
     i_queue    |-> EmptyQueue(Window),
     s_queue    |-> EmptyQueue(SQueueSize),
     events     |-> {"QUEUE_HAS_FREE_SLOTS"},
     tx         |-> NoFrame]

(* put_u_s_frame; all callers but disconnect ignore that the queue is full.*)
PutSUFrame(st, frame) ==
    IF HasFreeSlots(st.s_queue)
    THEN [st EXCEPT !.s_queue = Allocate(@, SQueueSize, frame),
                    !.events = @ \cup {"TX_DATA_AVAILABLE"}]
    ELSE st

PutUFrame(st, p, type) == PutSUFrame(st, UFrame(type, PeerToAddressField(st, p)))

PutSFrame(st, p, type, nr) ==
    PutSUFrame(st, SFrame(type, PeerToAddressField(st, p), nr))

OfferFreeSlots(st) ==
    IF HasFreeSlots(st.i_queue)
    THEN [st EXCEPT !.events = @ \cup {"QUEUE_HAS_FREE_SLOTS"}]
    ELSE st

(* Seeded fault: a sender that found the queue full is not called back.    *)
SwitchToConnected_NoFreeSlots(st, p) ==
    IF st.peers[p].state = "Connected"
    THEN st
    ELSE [st EXCEPT !.peers[p] = [ResetConnection(@) EXCEPT
                                      !.state = "Connected",
                                      !.retries = Retries,
                                      !.i_elapsed = FALSE],
                    !.events = @ \cup {"TX_DATA_AVAILABLE"}]

SwitchToConnected(st, p) ==
    IF st.peers[p].state = "Connected"
    THEN st
    ELSE OfferFreeSlots(
           [st EXCEPT !.peers[p] = [ResetConnection(@) EXCEPT
                                        !.state = "Connected",
                                        !.retries = Retries,
                                        !.i_elapsed = FALSE],
                      !.events = @ \cup {"TX_DATA_AVAILABLE"}])

(* Seeded faults: the sequence numbers, or the queued frames, survive the  *)
(* session.                                                                *)
SwitchToDisconnected_KeepsControl(st, p) ==
    [st EXCEPT !.peers[p].state = "Disconnected",
               !.peers[p].frame_elapsed = FALSE,
               !.i_queue = ResetFor(@, PeerToAddressField(st, p))]

SwitchToDisconnected_KeepsQueue(st, p) ==
    [st EXCEPT !.peers[p] = [ResetConnection(@) EXCEPT !.state = "Disconnected"]]

SwitchToDisconnected(st, p) ==
    IF st.peers[p].state = "Disconnected"
    THEN st
    ELSE [st EXCEPT !.peers[p] = [ResetConnection(@) EXCEPT !.state = "Disconnected"],
                    !.i_queue = ResetFor(@, PeerToAddressField(st, p))]

(***************************************************************************)
(* Calls of the application.                                               *)
(***************************************************************************)

(* disconnect fails with Busy, and changes nothing, when the DISC does not *)
(* fit into the queue.                                                     *)
CanDisconnect(st) == HasFreeSlots(st.s_queue)

Disconnect(st) ==
    [PutUFrame(st, 0, "DISC") EXCEPT !.peers[0].state = "Disconnecting"]

(* send_packet returns Timeout without the event and Busy when the window  *)
(* is full; it does not ask whether the peer is connected.                 *)
CanSendPacket(st, p) ==
    /\ "QUEUE_HAS_FREE_SLOTS" \in st.events
    /\ ~ TxFull(st.peers[p].control)
    /\ HasFreeSlots(st.i_queue)

(* The N(R) stored with the frame is never read, transmission replaces it. *)
PutIFrame(st, p, data) ==
    [st EXCEPT !.i_queue = Allocate(@, Window,
                               IFrame(PeerToAddressField(st, p),
                                      st.peers[p].control.last_ns, 0, data)),
               !.peers[p].control = MoveToNextNs(@)]

(* Seeded fault: the event stays set when the last slot has been taken.    *)
SendPacket_KeepsEvent(st, p, data) ==
    [PutIFrame(st, p, data) EXCEPT !.events = @ \cup {"TX_DATA_AVAILABLE"}]

SendPacket(st, p, data) ==
    LET queued == PutIFrame(st, p, data)
        signal == queued.events \cup {"TX_DATA_AVAILABLE"}
    IN  [queued EXCEPT !.events = IF HasFreeSlots(queued.i_queue)
                                  THEN signal
                                  ELSE signal \ {"QUEUE_HAS_FREE_SLOTS"}]

(***************************************************************************)
(* Reception of one frame.                                                 *)
(***************************************************************************)

(* Seeded fault: a SABM is obeyed but not answered.                        *)
OnUFrameReceived_SilentSabm(st, p, frame) ==
    CASE \/ frame.type \in {"SABM", "SNRM"}
         \/ frame.type = "UA" /\ st.peers[p].state = "Connecting" ->
             SwitchToConnected(st, p)
      [] frame.type = "UA" /\ st.peers[p].state = "Disconnecting" ->
             SwitchToDisconnected(st, p)
      [] frame.type = "DISC" ->
             SwitchToDisconnected(PutUFrame(st, p, "UA"), p)
      [] frame.type = "DM" -> SwitchToDisconnected(st, p)
      [] OTHER -> st

OnUFrameReceived(st, p, frame) ==
    CASE frame.type \in {"SABM", "SNRM"} ->
             SwitchToConnected(PutUFrame(st, p, "UA"), p)
      [] frame.type = "UA" /\ st.peers[p].state = "Connecting" ->
             SwitchToConnected(st, p)
      [] frame.type = "UA" /\ st.peers[p].state = "Disconnecting" ->
             SwitchToDisconnected(st, p)
      [] frame.type = "DISC" ->
             SwitchToDisconnected(PutUFrame(st, p, "UA"), p)
      [] frame.type = "DM" -> SwitchToDisconnected(st, p)
      [] OTHER -> st

(* Seeded fault: confirmed frames stay in their slots.                     *)
ConfirmAndFree_KeepsFrames(st, p, nr) ==
    [st EXCEPT !.peers[p].control = ConfirmSentFrames(@, nr)]

ConfirmAndFree(st, p, nr) ==
    OfferFreeSlots(
        [st EXCEPT !.i_queue = FreeByNs(@, PeerToAddressField(st, p),
                                        Confirmed(st.peers[p].control, nr)),
                   !.peers[p].control = ConfirmSentFrames(@, nr)])

RejectIFrame(st, p) ==
    IF st.peers[p].sent_reject
    THEN st
    ELSE PutSFrame([st EXCEPT !.peers[p].sent_reject = TRUE],
                   p, "REJ", st.peers[p].control.next_nr)

(* Seeded fault: the RR confirms one frame more than was received.         *)
AcceptIFrame_AcksNext(st, p) ==
    LET control == MoveToNextFrameToReceive(st.peers[p].control)
    IN  PutSFrame([st EXCEPT !.peers[p].control = control,
                             !.peers[p].sent_reject = FALSE],
                  p, "RR", Succ(control.next_nr))

AcceptIFrame(st, p) ==
    LET control == MoveToNextFrameToReceive(st.peers[p].control)
    IN  PutSFrame([st EXCEPT !.peers[p].control = control,
                             !.peers[p].sent_reject = FALSE],
                  p, "RR", control.next_nr)

OnIFrameReceived(st, p, frame) ==
    LET confirmed == ConfirmAndFree(st, p, frame.nr)
    IN  IF frame.ns = confirmed.peers[p].control.next_nr
        THEN AcceptIFrame(confirmed, p)
        ELSE RejectIFrame(confirmed, p)

OnSFrameReceived(st, p, frame) ==
    LET confirmed == ConfirmAndFree(st, p, frame.nr)
    IN  CASE frame.type = "RR" -> [confirmed EXCEPT !.peers[p].retries = Retries]
          [] frame.type \in {"REJ", "SREJ"} ->
                 [confirmed EXCEPT
                     !.peers[p].control = RetransmitFrame(@, frame.nr),
                     !.events = @ \cup {"TX_DATA_AVAILABLE"}]
          [] OTHER -> confirmed

(* States in which I- and S-frames are looked at; in any other the answer  *)
(* is a DM.                                                                *)
InSession(peer) == peer.state \in {"Connected", "Disconnecting"}

ReceiveFromPeer(st, p, frame) ==
    IF frame.type \in UType THEN OnUFrameReceived(st, p, frame)
    ELSE IF ~ InSession(st.peers[p]) THEN PutUFrame(st, p, "DM")
    ELSE IF frame.type = "I" THEN OnIFrameReceived(st, p, frame)
    ELSE OnSFrameReceived(st, p, frame)

OnFrameReceived(st, frame) ==
    IF AddressFieldToPeer(st, frame.addr) = {}
    THEN st
    ELSE ReceiveFromPeer(st, Lowest(AddressFieldToPeer(st, frame.addr)), frame)

(* Seeded fault: a repeated or early frame is delivered too.               *)
Delivers_AnyNumber(st, frame) ==
    /\ frame.type = "I"
    /\ \E p \in AddressFieldToPeer(st, frame.addr) : InSession(st.peers[p])

(* Whether the frame makes the endpoint call on_read_cb with its payload.  *)
Delivers(st, frame) ==
    /\ frame.type = "I"
    /\ \E p \in AddressFieldToPeer(st, frame.addr) :
           InSession(st.peers[p]) /\ frame.ns = st.peers[p].control.next_nr

(***************************************************************************)
(* get_tx_data: timeouts first, then at most one frame goes to HdlcLl.     *)
(***************************************************************************)

SendSabm(st, p) == [PutUFrame(st, p, "SABM") EXCEPT !.peers[p].frame_elapsed = FALSE]

(* Seeded faults: retries is decremented without looking; the last retry   *)
(* leaves the peer waiting for an answer.                                  *)
RetryConnect_NoLimit(st, p) ==
    SendSabm([st EXCEPT !.peers[p].retries = @ - 1], p)

RetryConnect_GivesUp(st, p) ==
    IF st.peers[p].retries = 0
    THEN st
    ELSE SendSabm([st EXCEPT !.peers[p].retries = @ - 1], p)

RetryConnect(st, p) ==
    IF st.peers[p].retries = 0
    THEN [st EXCEPT !.peers[p].state = "Disconnected"]
    ELSE SendSabm([st EXCEPT !.peers[p].retries = @ - 1], p)

(* Seeded fault: the timeout does not go back to the unconfirmed frame.    *)
RetryIFrames_NoRewind(st, p) ==
    IF st.peers[p].retries = 0
    THEN SwitchToDisconnected(st, p)
    ELSE [st EXCEPT !.peers[p].retries = @ - 1,
                    !.peers[p].i_elapsed = FALSE]

RetryIFrames(st, p) ==
    LET peer == st.peers[p]
        control == RetransmitFrame(peer.control, peer.control.confirm_ns)
    IN  IF peer.retries = 0
        THEN SwitchToDisconnected(st, p)
        ELSE [st EXCEPT
                 !.peers[p] = [peer EXCEPT !.retries = peer.retries - 1,
                                           !.control = control,
                                           !.i_elapsed = FALSE],
                 !.events = @ \cup {"TX_DATA_AVAILABLE"}]

CheckPeer(st, p) ==
    LET peer == st.peers[p]
    IN  CASE /\ peer.state \in {"Disconnected", "Idle"}
             /\ Mode = "Abm"
             /\ peer.frame_elapsed ->
                 [SendSabm(st, p) EXCEPT !.peers[p].state = "Connecting"]
          [] peer.state = "Connecting" /\ peer.frame_elapsed -> RetryConnect(st, p)
          [] /\ peer.state = "Connected"
             /\ HasUnconfirmedFrames(peer.control)
             /\ peer.i_elapsed -> RetryIFrames(st, p)
          [] OTHER -> st

(* The loop over all peers: checked[n] is the endpoint after n of them.    *)
CheckTimeouts(st) ==
    LET checked[n \in 0 .. NumPeers(st.local_addr)] ==
            IF n = 0 THEN st ELSE CheckPeer(checked[n - 1], n - 1)
    IN  checked[NumPeers(st.local_addr)]

(* Seeded fault: the search stops at the first peer that is connected.     *)
ReadyPeers_FirstConnected(st) ==
    LET first == Lowest({p \in Peers(st.local_addr) : st.peers[p].state = "Connected"})
    IN  {p \in Peers(st.local_addr) :
            /\ st.peers[p].state = "Connected" /\ p = first
            /\ ~ AllFramesAreSent(st.peers[p].control)
            /\ Matching(st.i_queue, PeerToAddressField(st, p),
                        st.peers[p].control.next_ns) # {}}

(* The peers that have an I-frame to transmit now.                         *)
ReadyPeers(st) ==
    {p \in Peers(st.local_addr) :
        /\ st.peers[p].state = "Connected"
        /\ ~ AllFramesAreSent(st.peers[p].control)
        /\ Matching(st.i_queue, PeerToAddressField(st, p),
                    st.peers[p].control.next_ns) # {}}

TransmitService(st) ==
    LET i == Lowest(Occupied(st.s_queue))
    IN  [st EXCEPT !.tx = st.s_queue.frames[i], !.s_queue = Free(@, i)]

(* The frame keeps its N(S) and gets the current N(R).                     *)
TransmitIFrame(st, p) ==
    LET control == st.peers[p].control
        i == GetNext(st.i_queue, PeerToAddressField(st, p), control.next_ns)
    IN  [st EXCEPT !.tx = [st.i_queue.frames[i] EXCEPT !.nr = control.next_nr],
                   !.peers[p] = [@ EXCEPT !.control = AdvanceNextNs(control),
                                          !.i_elapsed = FALSE,
                                          !.frame_elapsed = FALSE,
                                          !.retries = Retries]]

GenerateTxFrames(st) ==
    IF st.tx # NoFrame THEN st
    ELSE IF Occupied(st.s_queue) # {} THEN TransmitService(st)
    ELSE IF ReadyPeers(st) # {} THEN TransmitIFrame(st, Lowest(ReadyPeers(st)))
    ELSE st

(* get_tx_data up to run_tx; run_tx then puts st.tx, or a part of it, on   *)
(* the wire.                                                               *)
PrepareTx(st) == GenerateTxFrames(CheckTimeouts(st))

FinishTx(st) == [st EXCEPT !.tx = NoFrame]

(***************************************************************************)
(* The passing of time.  A timer no state of the peer looks at may stay    *)
(* as it is: entering a state that looks at it resets it first.            *)
(***************************************************************************)
TimerRuns(peer, timer) ==
    \/ timer = "i" /\ peer.state = "Connected" /\ ~ peer.i_elapsed
    \/ /\ timer = "frame" /\ Mode = "Abm"
       /\ peer.state \in {"Idle", "Disconnected", "Connecting"}
       /\ ~ peer.frame_elapsed

Elapse(st, p, timer) ==
    IF timer = "i"
    THEN [st EXCEPT !.peers[p].i_elapsed = TRUE]
    ELSE [st EXCEPT !.peers[p].frame_elapsed = TRUE]

==============================================================================
