------------------------------ MODULE FdBusProofs ------------------------------
(***************************************************************************)
(* The bus keeps its shape and its peers apart, for any number of          *)
(* secondaries, window, modulus, number of retries and frames on the line. *)
(* Every endpoint of the bus is good in the sense of TinyFdLemmas, and     *)
(* what it puts on the line is a frame an endpoint may receive.            *)
(***************************************************************************)
EXTENDS FdBus, FdStationProofs

LineInv ==
    /\ unplugged \in SUBSET (Secondary \ {Steady})
    /\ line \in [Node -> Seq(SentFrame)]

FlowInv ==
    /\ accepted \in [Flow -> Nat]
    /\ delivered \in [Flow -> Seq(Payload)]
    /\ dropped \in [Flow -> SUBSET Nat]

SecondaryInv ==
    /\ DOMAIN secondary = Secondary
    /\ secondary = [n \in Secondary |-> secondary[n]]
    /\ \A n \in Secondary : secondary[n] \in Good(n)

EndInv == IInv /\ SecondaryInv

BusInv == EndInv /\ LineInv /\ FlowInv

-------------------------------------------------------------------------------

LEMMA NodeType ==
    /\ PrimaryAddr \in Address /\ PrimaryAddr \notin Secondary
    /\ Secondary \subseteq Address
    /\ Node \subseteq Address
    /\ LocalAddr = PrimaryAddr
BY PrimaryAssumption, PeersAssumption DEF PrimaryAddr, Secondary, Node, Address

LEMMA FlowType ==
    ASSUME NEW f \in Flow
    PROVE  f[1] \in Node /\ f[2] \in Node /\ PeerOf(f[1], f[2]) \in Peers(f[1])
BY PeersAssumption DEF Flow, Node, Secondary, PeerOf, Peers, NumPeers, PrimaryAddr

LEMMA SentIsFrame == SentFrame \subseteq Frame
BY DEF SentFrame, DataFrame, ServiceFrame, Frame, UType, SType

(* The endpoint at an address is good for that address.                    *)
LEMMA EndIsGood ==
    ASSUME EndInv, NEW n \in Node
    PROVE  n \in Address /\ End(n) \in Good(n)
BY NodeType DEF EndInv, IInv, SecondaryInv, End, Node

(* A call whose outcome is good leaves every endpoint good, and reports    *)
(* packets only.                                                           *)
LEMMA BecomesGood ==
    ASSUME EndInv, NEW n \in Node, NEW after \in Good(n), Becomes(n, {after})
    PROVE  EndInv'
<1>1. CASE n = PrimaryAddr
    BY <1>1, NodeType DEF Becomes, EndInv, IInv, SecondaryInv
<1>2. CASE n # PrimaryAddr
    <2>1. n \in Secondary
        BY <1>2 DEF Node
    <2>2. st' = st /\ secondary' = [secondary EXCEPT ![n] = after]
        BY <1>2 DEF Becomes
    <2>3. \A m \in Secondary : secondary'[m] = IF m = n THEN after ELSE secondary[m]
        BY <2>1, <2>2 DEF EndInv, SecondaryInv
    <2>4. SecondaryInv'
        BY <2>1, <2>2, <2>3 DEF EndInv, SecondaryInv
    <2> QED BY <2>2, <2>4 DEF EndInv, IInv
<1> QED BY <1>1, <1>2

LEMMA BecomesDrops ==
    ASSUME NEW n, NEW after, Becomes(n, {after}), dropped \in [Flow -> SUBSET Nat]
    PROVE  dropped' \in [Flow -> SUBSET Nat]
<1>1. \A f \in Flow : Purged(f, after) \subseteq Nat
    BY BusBudgetAssumption DEF Purged, Held
<1> QED BY <1>1 DEF Becomes

LEMMA InitBusInv == BusInit => BusInv
<1> SUFFICES ASSUME BusInit PROVE BusInv
    OBVIOUS
<1>1. IInv
    BY InitGood DEF BusInit
<1>2. SecondaryInv
    BY NodeType, NewStationGood DEF BusInit, SecondaryInv
<1>3. LineInv /\ FlowInv
    BY DEF BusInit, LineInv, FlowInv
<1> QED BY <1>1, <1>2, <1>3 DEF BusInv, EndInv

-------------------------------------------------------------------------------

LEMMA SendStep ==
    ASSUME BusInv, NEW f \in Flow, SendPacketOn(f)
    PROVE  BusInv'
<1> DEFINE n == f[1]
           p == PeerOf(f[1], f[2])
           data == Packet(f, accepted[f] + 1)
           after == SendPacket(End(n), p, data)
<1>1. n \in Node /\ p \in Peers(n)
    BY FlowType
<1>2. accepted[f] \in Nat /\ accepted[f] + 1 \in 1 .. MaxSend[f]
    <2>1. accepted[f] \in Nat /\ MaxSend[f] \in Nat
        BY BusBudgetAssumption DEF BusInv, FlowInv
    <2>2. accepted[f] < MaxSend[f]
        BY DEF SendPacketOn
    <2> QED BY <2>1, <2>2
<1>3. data \in Payload
    BY <1>2, PacketAssumption
<1>4. n \in Address /\ End(n) \in Good(n)
    BY <1>1, EndIsGood DEF BusInv
<1>5. Becomes(n, {after})
    BY DEF SendPacketOn
<1> HIDE DEF p, data
<1>6. after \in Good(n)
    BY <1>1, <1>3, <1>4, SendPacketGood
<1> HIDE DEF n, after
<1>7. EndInv'
    BY <1>1, <1>5, <1>6, BecomesGood DEF BusInv
<1>8. LineInv'
    BY DEF SendPacketOn, BusInv, LineInv
<1>9. FlowInv'
    <2>1. dropped' \in [Flow -> SUBSET Nat]
        BY <1>5, BecomesDrops DEF BusInv, FlowInv
    <2>2. accepted' \in [Flow -> Nat] /\ delivered' = delivered
        BY <1>2 DEF SendPacketOn, BusInv, FlowInv
    <2> QED BY <2>1, <2>2 DEF BusInv, FlowInv
<1> QED BY <1>7, <1>8, <1>9 DEF BusInv

(* Only an I-frame is delivered, and an I-frame carries a payload.         *)
LEMMA ReceiveStep ==
    ASSUME BusInv, NEW n \in Node, Receive(n)
    PROVE  BusInv'
<1> DEFINE frame == Head(line[n])
           after == OnFrameReceived(End(n), frame)
<1>1. /\ line[n] \in Seq(SentFrame) /\ line[n] # <<>>
      /\ line' = [line EXCEPT ![n] = Tail(line[n])]
    BY DEF BusInv, LineInv, Receive, TakeFrame
<1>2. frame \in SentFrame /\ Tail(line[n]) \in Seq(SentFrame)
    BY <1>1
<1>3. n \in Address /\ End(n) \in Good(n)
    BY EndIsGood DEF BusInv
<1>4. Becomes(n, {after})
    BY DEF Receive
<1>5. after \in Good(n)
    BY <1>2, <1>3, SentIsFrame, OnFrameReceivedGood
<1>6. \A f \in Flow : delivered'[f] \in
          {delivered[f]} \cup (IF Delivers(End(n), frame) THEN {Append(delivered[f], frame.data)} ELSE {})
    BY DEF Receive
<1>7. \E Reader : delivered' =
          [f \in Flow |-> IF Reader[f] /\ Delivers(End(n), frame)
                          THEN Append(delivered[f], frame.data) ELSE delivered[f]]
    <2> WITNESS [f \in Flow |-> f[2] = n /\ PeerOf(n, f[1]) \in AddressFieldToPeer(End(n), frame.addr)]
    <2> QED BY DEF Receive
<1> HIDE DEF after
<1>8. EndInv'
    BY <1>4, <1>5, BecomesGood DEF BusInv
<1>9. LineInv'
    BY <1>1, <1>2 DEF Receive, BusInv, LineInv
<1>10. Delivers(End(n), frame) => frame.data \in Payload
    BY <1>2 DEF Delivers, SentFrame, DataFrame, ServiceFrame, UType, SType
<1> HIDE DEF frame
<1>11. FlowInv'
    <2>1. dropped' \in [Flow -> SUBSET Nat]
        BY <1>4, BecomesDrops DEF BusInv, FlowInv
    <2>2. accepted' = accepted
        BY DEF Receive
    <2>3. delivered' \in [Flow -> Seq(Payload)]
        BY <1>7, <1>10 DEF BusInv, FlowInv
    <2> QED BY <2>1, <2>2, <2>3 DEF BusInv, FlowInv
<1> QED BY <1>8, <1>9, <1>11 DEF BusInv

LEMMA TransmitStep ==
    ASSUME BusInv, NEW n \in Node, Transmit(n)
    PROVE  BusInv'
<1> DEFINE ready == GenerateTxFrames(CheckTimeouts(End(n)))
           after == FinishTx(ready)
<1>1. n \in Address /\ End(n) \in Good(n)
    BY EndIsGood DEF BusInv
<1>2. Becomes(n, {after})
    BY DEF Transmit
<1>3. ready \in Good(n)
    BY <1>1, CheckTimeoutsGood, GenerateTxFramesGood
<1>4. line' = [m \in Node |-> IF ready.tx # NoFrame /\ Hears(n, m, ready.tx)
                              THEN Append(line[m], ready.tx) ELSE line[m]]
    BY DEF Transmit
<1> HIDE DEF ready
<1>5. after \in Good(n)
    BY <1>1, <1>3, FinishTxGood
<1> HIDE DEF after
<1>6. EndInv'
    BY <1>2, <1>5, BecomesGood DEF BusInv
<1>7. ready.tx # NoFrame => ready.tx \in SentFrame
    BY <1>3 DEF Good, Station
<1>8. LineInv'
    BY <1>4, <1>7 DEF Transmit, BusInv, LineInv
<1>9. FlowInv'
    BY <1>2, BecomesDrops DEF Transmit, BusInv, FlowInv
<1> QED BY <1>6, <1>8, <1>9 DEF BusInv

(* All timers of an endpoint at once.                                      *)
LEMMA AllElapseGood ==
    ASSUME NEW local \in Address, NEW s \in Good(local)
    PROVE  AllElapse(s) \in Good(local)
<1> DEFINE t == AllElapse(s)
           later(p) == [s.peers[p] EXCEPT
                           !.i_elapsed = s.peers[p].i_elapsed \/ TimerRuns(s.peers[p], "i"),
                           !.frame_elapsed = s.peers[p].frame_elapsed
                                                 \/ TimerRuns(s.peers[p], "frame")]
<1>1. t = [s EXCEPT !.peers = [p \in Peers(local) |-> later(p)]]
    <2>1. DOMAIN s.peers = Peers(local)
        BY DEF Good, Station
    <2> QED BY <2>1 DEF AllElapse
<1>2. \A p \in Peers(local) : later(p) \in PeerInfo /\ Cold(later(p))
    <2> TAKE p \in Peers(local)
    <2>1. s.peers[p] \in PeerInfo /\ Cold(s.peers[p])
        BY DEF Good, Station
    <2>2. /\ TimerRuns(s.peers[p], "i") \in BOOLEAN
          /\ TimerRuns(s.peers[p], "frame") \in BOOLEAN
        BY <2>1, ModeAssumption DEF TimerRuns, PeerInfo
    <2>3. later(p) \in PeerInfo
        BY <2>1, <2>2 DEF PeerInfo
    <2>4. /\ later(p).state = s.peers[p].state
          /\ later(p).control = s.peers[p].control
          /\ later(p).sent_reject = s.peers[p].sent_reject
        BY <2>1 DEF PeerInfo
    <2> HIDE DEF later
    <2> QED BY <2>1, <2>3, <2>4 DEF Cold, InSession
<1> HIDE DEF later, t
<1>3. t \in Station(local)
    BY <1>1, <1>2 DEF Good, Station
<1>4. Slotted(t)
    BY <1>1 DEF Good, Station, Slotted
<1>5. \A p \in Peers(local) : t.peers[p] = later(p)
    BY <1>1 DEF Good, Station
<1> QED BY <1>2, <1>3, <1>4, <1>5 DEF Good, t

LEMMA TimeStep ==
    ASSUME BusInv, NEW n \in Node, TimeElapses(n)
    PROVE  BusInv'
<1> DEFINE after == AllElapse(End(n))
<1>1. after \in Good(n)
    BY EndIsGood, AllElapseGood DEF BusInv
<1>2. Becomes(n, {after})
    BY DEF TimeElapses
<1> HIDE DEF after
<1>3. EndInv'
    BY <1>1, <1>2, BecomesGood DEF BusInv
<1>4. LineInv' /\ FlowInv'
    BY <1>2, BecomesDrops DEF TimeElapses, BusInv, LineInv, FlowInv
<1> QED BY <1>3, <1>4 DEF BusInv

LEMMA UnplugStep ==
    ASSUME BusInv, NEW n \in Secondary, Unplug(n)
    PROVE  BusInv'
<1>1. EndInv' /\ FlowInv'
    BY DEF Unplug, BusInv, EndInv, IInv, SecondaryInv, FlowInv
<1>2. LineInv'
    BY DEF Unplug, BusInv, LineInv, Node
<1> QED BY <1>1, <1>2 DEF BusInv

LEMMA PlugStep ==
    ASSUME BusInv, NEW n \in Secondary, Plug(n)
    PROVE  BusInv'
<1>1. NewStation(n) \in Good(n)
    BY NodeType, NewStationGood
<1>2. SecondaryInv'
    BY <1>1 DEF Plug, BusInv, EndInv, SecondaryInv
<1>3. LineInv'
    BY DEF Plug, BusInv, LineInv
<1>4. FlowInv'
    <2> DEFINE f == <<n, PrimaryAddr>>
    <2>1. f \in Flow
        BY DEF Flow
    <2>2. Held(secondary[n], f) \subseteq Nat
        BY <2>1, BusBudgetAssumption DEF Held
    <2> HIDE DEF f
    <2>3. dropped' = [dropped EXCEPT ![f] = @ \cup Held(secondary[n], f)]
        BY DEF Plug, f
    <2> QED BY <2>1, <2>2, <2>3 DEF Plug, BusInv, FlowInv
<1>5. IInv'
    BY DEF Plug, BusInv, EndInv, IInv
<1> QED BY <1>2, <1>3, <1>4, <1>5 DEF BusInv, EndInv

LEMMA NextBusInv == BusInv /\ [BusNext]_busVars => BusInv'
<1> SUFFICES ASSUME BusInv, [BusNext]_busVars PROVE BusInv'
    OBVIOUS
<1>1. CASE UNCHANGED busVars
    BY <1>1 DEF busVars, BusInv, EndInv, IInv, SecondaryInv, LineInv, FlowInv
<1> QED BY <1>1, SendStep, ReceiveStep, TransmitStep, TimeStep, UnplugStep, PlugStep
    DEF BusNext

-------------------------------------------------------------------------------

(* Every endpoint of the bus stays good, whoever is unplugged and plugged  *)
(* in and whatever is on the line then.                                    *)
THEOREM BusStaysGood == BusSpec => []BusInv
BY InitBusInv, NextBusInv, PTL DEF BusSpec

(* A bus keeps its shape: what is delivered is a payload and never the     *)
(* rest of a service frame, what is on the line is a frame its receivers   *)
(* know.                                                                   *)
THEOREM BusTypeCorrect == BusSpec => []BusTypeOK
<1>1. BusInv => BusTypeOK
    BY DEF BusInv, EndInv, IInv, SecondaryInv, LineInv, FlowInv, BusTypeOK, TypeOK, Good
<1> QED BY <1>1, BusStaysGood, PTL

(* On the bus, too, a frame from one secondary leaves the sessions of the  *)
(* others alone.                                                           *)
THEOREM BusPeersAreIsolated == BusSpec => []PeerIsolation
<1>1. BusInv => PeerIsolation
    BY GoodIsIsolated DEF BusInv, EndInv
<1> QED BY <1>1, BusStaysGood, PTL

===============================================================================
