--------------------------------- MODULE FdBus ---------------------------------
(***************************************************************************)
(* A primary and PeersCount secondaries on one multi-drop line.  The       *)
(* endpoint of FdStation is the primary: all it does here, it does there   *)
(* among arbitrary peers.  The secondaries are endpoints of the same kind, *)
(* each at the address it is known by.                                     *)
(*                                                                         *)
(* A secondary may be unplugged, which silences it and loses what is on    *)
(* its way to it, and a new one be plugged in at its address.  The last    *)
(* one, Steady, never is: it is the last the primary looks at whenever it  *)
(* chooses an I-frame to send, and what happens to it is the question.     *)
(***************************************************************************)
EXTENDS FdStation, Sequences

CONSTANTS
    ChanCap,        \* frames on their way to one endpoint
    MaxSend,        \* packets each application sends to each: [Flow -> Nat]
    MaxUnplug       \* secondaries unplugged, all in all

ASSUME PrimaryAssumption == LocalAddr = PrimaryAddr

Secondary == 1 .. PeersCount
Node == {PrimaryAddr} \cup Secondary
Steady == PeersCount

(* A flow goes from one application to another: primary to secondary or    *)
(* back.                                                                   *)
Flow == ({PrimaryAddr} \X Secondary) \cup (Secondary \X {PrimaryAddr})

Packet(f, k) == [flow |-> f, number |-> k]

ASSUME BusBudgetAssumption ==
    /\ ChanCap \in Nat \ {0} /\ MaxUnplug \in Nat
    /\ MaxSend \in [Flow -> Nat]
ASSUME PacketAssumption ==
    \A f \in Flow : \A k \in 1 .. MaxSend[f] : Packet(f, k) \in Payload

VARIABLES
    secondary,   \* the endpoints at the addresses of Secondary
    unplugged,   \* the addresses where none listens or speaks
    line,        \* line[n]: the frames on their way to n, oldest first
    accepted,    \* accepted[f]: packets send_packet has accepted
    delivered,   \* delivered[f]: payloads on_read_cb got, in order, f[1]
                 \* being the user_address it was called with
    dropped,     \* dropped[f]: packets given up with a disconnect event
    unplugs      \* what is left of MaxUnplug

busVars == <<st, secondary, unplugged, line, accepted, delivered, dropped, unplugs>>

BusInit ==
    /\ Init
    /\ secondary = [n \in Secondary |-> NewStation(n)]
    /\ unplugged = {}
    /\ line = [n \in Node |-> <<>>]
    /\ accepted = [f \in Flow |-> 0]
    /\ delivered = [f \in Flow |-> <<>>]
    /\ dropped = [f \in Flow |-> {}]
    /\ unplugs = MaxUnplug

End(n) == IF n = PrimaryAddr THEN st ELSE secondary[n]

(* The number under which n keeps the application at m.                    *)
PeerOf(n, m) == IF n = PrimaryAddr THEN m - 1 ELSE 0

State(n, m) == End(n).peers[PeerOf(n, m)].state

(* The packets of flow f that endpoint s holds in its I-frame queue.       *)
Held(s, f) ==
    {k \in 1 .. MaxSend[f] :
        \E i \in Occupied(s.i_queue) : s.i_queue.frames[i].data = Packet(f, k)}

(* The packets that leave the queue because the session ends, as           *)
(* on_connect_event_cb reports.                                            *)
Purged(f, after) ==
    IF after.peers[PeerOf(f[1], f[2])].state = "Disconnected"
    THEN Held(End(f[1]), f) \ Held(after, f)
    ELSE {}

(* n's endpoint is now one of the set, which holds just the outcome of the *)
(* call: the quantifier names it.                                          *)
Becomes(n, outcome) ==
    \E after \in outcome :
        /\ st' = IF n = PrimaryAddr THEN after ELSE st
        /\ secondary' = IF n = PrimaryAddr THEN secondary ELSE [secondary EXCEPT ![n] = after]
        /\ dropped' = [f \in Flow |->
                          IF f[1] = n THEN dropped[f] \cup Purged(f, after) ELSE dropped[f]]

(* An application sends after the connect event only.                      *)
SendPacketOn(f) ==
    LET n == f[1]
        p == PeerOf(f[1], f[2])
    IN  /\ n \notin unplugged
        /\ accepted[f] < MaxSend[f]
        /\ State(f[1], f[2]) = "Connected"
        /\ CanSendPacket(End(n), p)
        /\ accepted' = [accepted EXCEPT ![f] = @ + 1]
        /\ Becomes(n, {SendPacket(End(n), p, Packet(f, accepted[f] + 1))})
        /\ UNCHANGED <<unplugged, line, delivered, unplugs>>

(* Nothing of n waits for its transmitter but I-frames.                    *)
ServiceDone(n) == End(n).tx = NoFrame /\ Occupied(End(n).s_queue) = {}

(* n takes the oldest frame off the line: its driver writes what is queued *)
(* before it reads on.                                                     *)
TakeFrame(n) ==
    /\ line[n] # <<>>
    /\ ServiceDone(n)
    /\ line' = [line EXCEPT ![n] = Tail(@)]

(* on_rx_data with the bytes of that frame.                                *)
Receive(n) ==
    /\ TakeFrame(n)
    /\ \E before \in {End(n)}, frame \in {Head(line[n])} :
          LET Reader(f) == /\ f[2] = n
                           /\ PeerOf(n, f[1]) \in AddressFieldToPeer(before, frame.addr)
          IN  /\ Becomes(n, {OnFrameReceived(before, frame)})
              /\ delivered' = [f \in Flow |->
                                  IF Reader(f) /\ Delivers(before, frame)
                                  THEN Append(delivered[f], frame.data)
                                  ELSE delivered[f]]
    /\ UNCHANGED <<unplugged, accepted, unplugs>>

(* Everyone but the sender hears a frame; a secondary obeys the address of *)
(* another one no more than if it had not.                                 *)
Hears(n, m, frame) ==
    m # n /\ m \notin unplugged /\ AddressFieldToPeer(End(m), frame.addr) # {}

(* get_tx_data, its output written to the line.                            *)
Transmit(n) ==
    /\ n \notin unplugged
    /\ \A m \in Node \ {n} : Len(line[m]) < ChanCap
    /\ \E before \in {End(n)} : \E checked \in {CheckTimeouts(before)} :
       \E ready \in {GenerateTxFrames(checked)} :
          /\ Becomes(n, {FinishTx(ready)})
          /\ line' = [m \in Node |->
                         IF ready.tx # NoFrame /\ Hears(n, m, ready.tx)
                         THEN Append(line[m], ready.tx)
                         ELSE line[m]]
    /\ UNCHANGED <<unplugged, accepted, delivered, unplugs>>

(* Nothing is on the line or about to be put there.                        *)
LineQuiet ==
    \A n \in Node \ unplugged :
        line[n] = <<>> /\ ServiceDone(n) /\ ReadyPeers(End(n)) = {}

(* Elapse for every timer of s that runs.                                  *)
AllElapse(s) ==
    LET later(peer) ==
            [peer EXCEPT !.i_elapsed = peer.i_elapsed \/ TimerRuns(peer, "i"),
                         !.frame_elapsed = peer.frame_elapsed \/ TimerRuns(peer, "frame")]
    IN  [s EXCEPT !.peers = [p \in DOMAIN s.peers |-> later(s.peers[p])]]

(* retry_timeout is longer than a round trip: it goes by at n, for all of  *)
(* its peers, while the line is quiet.                                     *)
TimeElapses(n) ==
    /\ n \notin unplugged
    /\ LineQuiet
    /\ \E p \in Peers(n), timer \in {"i", "frame"} : TimerRuns(End(n).peers[p], timer)
    /\ Becomes(n, {AllElapse(End(n))})
    /\ UNCHANGED <<unplugged, line, accepted, delivered, unplugs>>

Unplug(n) ==
    /\ n \notin unplugged \cup {Steady}
    /\ unplugs > 0
    /\ unplugged' = unplugged \cup {n}
    /\ line' = [line EXCEPT ![n] = <<>>]
    /\ unplugs' = unplugs - 1
    /\ UNCHANGED <<st, secondary, accepted, delivered, dropped>>

(* The packets the old endpoint held died with it.                         *)
Plug(n) ==
    /\ n \in unplugged
    /\ unplugged' = unplugged \ {n}
    /\ secondary' = [secondary EXCEPT ![n] = NewStation(n)]
    /\ dropped' = [dropped EXCEPT ![<<n, PrimaryAddr>>] =
                      @ \cup Held(secondary[n], <<n, PrimaryAddr>>)]
    /\ UNCHANGED <<st, line, accepted, delivered, unplugs>>

BusNext ==
    \/ \E f \in Flow : SendPacketOn(f)
    \/ \E n \in Node :
          \/ Receive(n)
          \/ Transmit(n)
          \/ TimeElapses(n)
    \/ \E n \in Secondary : Unplug(n) \/ Plug(n)

BusSpec == BusInit /\ [][BusNext]_busVars

(* The loop of each program that is there goes on, and time with it.  The  *)
(* reader is said to be fair in its part of Receive that tells whether     *)
(* there is one; Unplug empties the line too, but not for ever.            *)
BusFairness ==
    \A n \in Node :
        /\ WF_line(TakeFrame(n))
        /\ WF_busVars(Transmit(n) \/ TimeElapses(n))

FairBusSpec == BusSpec /\ BusFairness

-------------------------------------------------------------------------------

BusTypeOK ==
    /\ TypeOK
    /\ \A n \in Secondary : secondary[n] \in Station(n)
    /\ unplugged \in SUBSET (Secondary \ {Steady})
    /\ line \in [Node -> Seq(SentFrame)]
    /\ accepted \in [Flow -> Nat]
    /\ delivered \in [Flow -> Seq(Payload)]
    /\ dropped \in [Flow -> SUBSET Nat]

(* The packets for Steady are a reliable stream, whatever the secondaries  *)
(* before it go through: a payload of another flow counts as number 0,     *)
(* which no stream may deliver.                                            *)
ToSteady == <<PrimaryAddr, Steady>>

Numbers(f) ==
    [i \in DOMAIN delivered[f] |->
        IF delivered[f][i].flow = f THEN delivered[f][i].number ELSE 0]

Down == INSTANCE ReliableStream WITH
    accepted <- accepted[ToSteady], delivered <- Numbers(ToSteady),
    pending <- Held(st, ToSteady), dropped <- dropped[ToSteady]

SteadyStream == Down!Spec

Arrived(f) == {Numbers(f)[i] : i \in DOMAIN Numbers(f)}

EveryoneConnected ==
    \A n \in Secondary \ unplugged :
        State(n, PrimaryAddr) = "Connected" /\ State(PrimaryAddr, n) = "Connected"

(* The primary looks for an I-frame from its first peer on, each time, and *)
(* repeats for ever what a peer that is gone does not confirm; its queue   *)
(* is one for all.  Again and again the last peer has got all that was     *)
(* sent to it, and every secondary that is there, a late one too, is       *)
(* connected to the primary at both ends.                                  *)
BusSettles ==
    []<>(1 .. accepted[ToSteady] \subseteq Arrived(ToSteady) /\ EveryoneConnected)

(* A secondary can be unplugged and another plugged in at its address: in  *)
(* the end every one that is there has got what the primary accepted for   *)
(* it, unless the primary's application was told that it is lost.          *)
HotPlug ==
    []<>(\A n \in Secondary \ unplugged :
            LET f == <<PrimaryAddr, n>>
            IN  1 .. accepted[f] \subseteq Arrived(f) \cup dropped[f])

===============================================================================
