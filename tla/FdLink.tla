-------------------------------- MODULE FdLink --------------------------------
(***************************************************************************)
(* Two TinyFd endpoints, a primary and a secondary, joined by a serial     *)
(* line.  Each direction of the line is a FIFO of frames; a frame that is  *)
(* damaged is dropped by HdlcLl (WrongCrc) and so is simply lost.          *)
(*                                                                         *)
(* The driver loops are those of the examples: one thread feeds received   *)
(* bytes to on_rx_data, another writes what get_tx_data returns, the       *)
(* application calls send_packet and disconnect.                           *)
(***************************************************************************)
EXTENDS TinyFd, Sequences, FiniteSets

CONSTANTS
    ChanCap,            \* frames one direction of the line can hold
    MaxSend,            \* packets each application sends: [Node -> Nat]
    MaxLoss,            \* frames the line loses
    MaxSetupLoss,       \* those of them lost while an end is not connected
    MaxDisconnect,      \* calls of disconnect
    SendsWhenConnected, \* applications send only after the connect event
    Alternates,         \* an endpoint transmits what it has queued before
                        \* it reads the next frame (exchange() of the tests)
    SlowTimer           \* retry_timeout is longer than a round trip

Primary == "primary"
Secondary == "secondary"
Node == {Primary, Secondary}
Peer(n) == IF n = Primary THEN Secondary ELSE Primary

(* addr of TinyFdConfig at each end.                                       *)
LocalAddr(n) == IF n = Primary THEN PrimaryAddr ELSE 1

ASSUME ChanCapAssumption == ChanCap \in Nat \ {0}
ASSUME BudgetAssumption ==
    /\ MaxSend \in [Node -> Nat]
    /\ MaxLoss \in Nat /\ MaxSetupLoss \in Nat
    /\ MaxDisconnect \in Nat
ASSUME DisciplineAssumption ==
    SendsWhenConnected \in BOOLEAN /\ Alternates \in BOOLEAN /\ SlowTimer \in BOOLEAN
ASSUME PointToPoint == PeersCount = 1
ASSUME PayloadAssumption == \A n \in Node : 1 .. MaxSend[n] \subseteq Payload

VARIABLES
    st,           \* the two endpoints
    line,         \* line[n]: the frames on their way to n, oldest first
    accepted,     \* accepted[n]: packets send_packet of n has accepted
    delivered,    \* delivered[n]: payloads given to on_read_cb of n, in order
    dropped,      \* dropped[n]: packets of n given up with a disconnect event
    budget        \* what is left of MaxLoss, MaxSetupLoss and MaxDisconnect

vars == <<st, line, accepted, delivered, dropped, budget>>

Init ==
    /\ st = [n \in Node |-> NewStation(LocalAddr(n))]
    /\ line = [n \in Node |-> <<>>]
    /\ accepted = [n \in Node |-> 0]
    /\ delivered = [n \in Node |-> <<>>]
    /\ dropped = [n \in Node |-> {}]
    /\ budget = [loss |-> MaxLoss, setup |-> MaxSetupLoss,
                  disconnect |-> MaxDisconnect]

State(n) == st[n].peers[0].state

LinkUp == \A n \in Node : State(n) = "Connected"

ControlOf(n) == st[n].peers[0].control

(* The payloads an endpoint holds in its I-frame queue.                    *)
Queued(s) == {s.i_queue.frames[i].data : i \in Occupied(s.i_queue)}

(* The packets that leave the queue because the session of the endpoint    *)
(* ends, as on_connect_event_cb reports.                                   *)
Purged(n, after) ==
    IF after.peers[0].state = "Disconnected" THEN Queued(st[n]) \ Queued(after) ELSE {}

Becomes(n, after) ==
    /\ st' = [st EXCEPT ![n] = after]
    /\ dropped' = [dropped EXCEPT ![n] = @ \cup Purged(n, after)]

(* The payload of a packet is its number.                                  *)
SendPacketOf(n) ==
    /\ accepted[n] < MaxSend[n]
    /\ SendsWhenConnected => State(n) = "Connected"
    /\ CanSendPacket(st[n], 0)
    /\ accepted' = [accepted EXCEPT ![n] = @ + 1]
    /\ st' = [st EXCEPT ![n] = SendPacket(@, 0, accepted[n] + 1)]
    /\ UNCHANGED <<line, delivered, dropped, budget>>

DisconnectOf(n) ==
    /\ budget.disconnect > 0
    /\ CanDisconnect(st[n])
    /\ st' = [st EXCEPT ![n] = Disconnect(@)]
    /\ budget' = [budget EXCEPT !.disconnect = @ - 1]
    /\ UNCHANGED <<line, accepted, delivered, dropped>>

(* Nothing of n waits for its transmitter but I-frames.                    *)
ServiceDone(n) == st[n].tx = NoFrame /\ Occupied(st[n].s_queue) = {}

(* n takes the oldest frame off the line.                                  *)
TakeFrame(n) ==
    /\ line[n] # <<>>
    /\ Alternates => ServiceDone(n)
    /\ line' = [line EXCEPT ![n] = Tail(@)]

(* on_rx_data with the bytes of that frame.                                *)
Receive(n) ==
    /\ TakeFrame(n)
    /\ \E after \in {OnFrameReceived(st[n], Head(line[n]))} : Becomes(n, after)
    /\ delivered' = [delivered EXCEPT ![n] =
                        IF Delivers(st[n], Head(line[n]))
                        THEN Append(@, Head(line[n]).data)
                        ELSE @]
    /\ UNCHANGED <<accepted, budget>>

(* get_tx_data, its output written to the line.                            *)
Transmit(n) ==
    /\ Len(line[Peer(n)]) < ChanCap
    /\ \E checked \in {CheckTimeouts(st[n])} : \E ready \in {GenerateTxFrames(checked)} :
          /\ Becomes(n, FinishTx(ready))
          /\ line' = IF ready.tx = NoFrame
                     THEN line
                     ELSE [line EXCEPT ![Peer(n)] = Append(@, ready.tx)]
    /\ UNCHANGED <<accepted, delivered, budget>>

(* A damaged frame.  Losing the oldest is as good as losing any: nobody    *)
(* sees a frame before it is the oldest.                                   *)
Lose(n) ==
    /\ budget.loss > 0
    /\ line[n] # <<>>
    /\ line' = [line EXCEPT ![n] = Tail(@)]
    /\ \/ /\ LinkUp
          /\ budget' = [budget EXCEPT !.loss = @ - 1]
       \/ /\ ~ LinkUp
          /\ budget.setup > 0
          /\ budget' = [budget EXCEPT !.loss = @ - 1, !.setup = @ - 1]
    /\ UNCHANGED <<st, accepted, delivered, dropped>>

(* Nothing is on the line or about to be put there.                        *)
LineQuiet ==
    \A n \in Node : line[n] = <<>> /\ ServiceDone(n) /\ ReadyPeers(st[n]) = {}

TimeElapses(n, timer) ==
    /\ SlowTimer => LineQuiet
    /\ TimerRuns(st[n].peers[0], timer)
    /\ st' = [st EXCEPT ![n] = Elapse(@, 0, timer)]
    /\ UNCHANGED <<line, accepted, delivered, dropped, budget>>

Next ==
    \E n \in Node :
        \/ SendPacketOf(n)
        \/ DisconnectOf(n)
        \/ Receive(n)
        \/ Transmit(n)
        \/ Lose(n)
        \/ \E timer \in {"i", "frame"} : TimeElapses(n, timer)

Spec == Init /\ [][Next]_vars

(* The driver threads keep polling, and time passes.  The reader is said   *)
(* to be fair in its part of Receive that tells whether there is one; a    *)
(* frame that is lost is taken off the line too, but not for ever.         *)
Fairness ==
    \A n \in Node :
        /\ WF_line(TakeFrame(n))
        /\ WF_vars(Transmit(n))
        /\ WF_vars(\E timer \in {"i", "frame"} : TimeElapses(n, timer))

FairSpec == Spec /\ Fairness

-------------------------------------------------------------------------------

TypeOK ==
    /\ \A n \in Node : st[n] \in Station(LocalAddr(n))
    /\ line \in [Node -> Seq(SentFrame)]
    /\ accepted \in [Node -> Nat]
    /\ delivered \in [Node -> Seq(Payload)]
    /\ dropped \in [Node -> SUBSET Payload]

(* The numbers between confirm_ns and last_ns: sent or waiting, not yet    *)
(* confirmed.                                                              *)
Unconfirmed(c) == Confirmed(c, c.last_ns)

(* confirm_sent_frames does not check its argument.  It need not, as long  *)
(* as every N(R) that arrives confirms only what is unconfirmed: an N(R)   *)
(* outside walks confirm_ns round the circle and frees frames that the     *)
(* other side never got.                                                   *)
NrInWindow ==
    \A n \in Node :
        (line[n] # <<>> /\ InSession(st[n].peers[0]) /\ Head(line[n]).type \notin UType)
            => Head(line[n]).nr \in Unconfirmed(ControlOf(n)) \cup {ControlOf(n).last_ns}

(* The I-frame queue and the sequence numbers are two records of the same  *)
(* thing, kept apart: during a connection every unconfirmed number has     *)
(* exactly one frame in the queue and nothing else is there.               *)
QueueIsWindow ==
    \A n \in Node : State(n) = "Connected" =>
        LET q == st[n].i_queue
        IN  /\ {q.frames[i].ns : i \in Occupied(q)} = Unconfirmed(ControlOf(n))
            /\ Cardinality(Occupied(q)) = Cardinality(Unconfirmed(ControlOf(n)))

(* The link, seen by the two applications, is a reliable stream in each    *)
(* direction: packets are delivered at most once and in order, a passed    *)
(* over or forgotten packet was given up with a disconnect event.          *)
Received(n) == {delivered[n][i] : i \in DOMAIN delivered[n]}

FromPrimary == INSTANCE ReliableStream WITH
    accepted <- accepted[Primary], delivered <- delivered[Secondary],
    pending <- Queued(st[Primary]), dropped <- dropped[Primary]

FromSecondary == INSTANCE ReliableStream WITH
    accepted <- accepted[Secondary], delivered <- delivered[Primary],
    pending <- Queued(st[Secondary]), dropped <- dropped[Secondary]

PrimaryStream == FromPrimary!Spec

SecondaryStream == FromSecondary!Spec

(* No packet the primary accepted vanishes while the connection lasts: it  *)
(* is delivered, still queued, or was given up with a disconnect event.    *)
NothingLost == FromPrimary!NoSilentLoss

(* Again and again every packet accepted so far has reached the other      *)
(* application or was given up with a disconnect event: none hangs forever.*)
Settled == \A n \in Node : 1 .. accepted[n] \subseteq Received(Peer(n)) \cup dropped[n]

EventualDelivery == []<>Settled

(* A sender does not wait for ever: again and again it has had its packets *)
(* accepted or is free to send the next, connected or not.                 *)
SenderGetsIn ==
    \A n \in Node : []<>(accepted[n] = MaxSend[n] \/ CanSendPacket(st[n], 0))

(* Both ends see the connection in the end, and it stays.                  *)
EventuallyConnected == <>[]LinkUp

===============================================================================
