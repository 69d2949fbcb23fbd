----------------------------- MODULE TinyFdLemmas -----------------------------
(***************************************************************************)
(* What the operators of FrameQueue and IQueueControl return and preserve, *)
(* for queues of any size and any number of sequence numbers; and that     *)
(* every method of TinyFd turns a good endpoint into a good endpoint, for  *)
(* any window, queue size, number of peers, modulus and mode.              *)
(***************************************************************************)
EXTENDS TinyFd, FiniteSets, FiniteSetTheorems, TLAPS

(* Induction up to n without an operator parameter: a set that holds 0 and *)
(* with every i < n also i + 1 holds n.  Otherwise u |-> u - 1 maps the    *)
(* numbers it lacks one-to-one into all of them but n.                     *)
LEMMA SetInduction ==
    ASSUME NEW n \in Nat, NEW T,
           0 \in T, \A i \in 0 .. n : i \in T /\ i # n => i + 1 \in T
    PROVE  n \in T
<1> SUFFICES ASSUME n \notin T PROVE FALSE
    OBVIOUS
<1> DEFINE U == (0 .. n) \ T
           f == [u \in U |-> u - 1]
<1>1. IsFiniteSet(U)
    <2>1. IsFiniteSet(0 .. n)
        BY FS_Interval
    <2>2. U \in SUBSET (0 .. n)
        OBVIOUS
    <2> QED BY <2>1, <2>2, FS_Subset
<1>2. n \in U
    OBVIOUS
<1>3. f \in [U -> U \ {n}]
    OBVIOUS
<1>4. /\ IsFiniteSet(U \ {n})
      /\ Cardinality(U \ {n}) = Cardinality(U) - 1
      /\ Cardinality(U) \in Nat
    <2> HIDE DEF U
    <2> QED BY <1>1, <1>2, FS_RemoveElement, FS_CardinalityType
<1>5. \E x, y \in U : x # y /\ f[x] = f[y]
    <2> HIDE DEF U, f
    <2> QED BY <1>1, <1>3, <1>4, FS_PigeonHole
<1> QED BY <1>5

(* A nonempty set of naturals has a least member.                          *)
LEMMA LeastMember ==
    ASSUME NEW S \in SUBSET Nat, S # {}
    PROVE  \E i \in S : \A j \in S : i <= j
<1> SUFFICES ASSUME \A i \in S : \E j \in S : j < i PROVE FALSE
    OBVIOUS
<1>1. PICK n \in S : TRUE
    OBVIOUS
<1> DEFINE T == {m \in Nat : \A i \in 0 .. m : i \notin S}
<1>2. 0 \in T
    OBVIOUS
<1>3. \A i \in 0 .. n : i \in T /\ i # n => i + 1 \in T
    <2> SUFFICES ASSUME NEW i \in 0 .. n, i \in T PROVE i + 1 \notin S
        OBVIOUS
    <2> QED OBVIOUS
<1>4. n \in T
    <2> HIDE DEF T
    <2> QED BY <1>2, <1>3, SetInduction
<1> QED BY <1>1, <1>4

(* Lowest picks a member.                                                  *)
LEMMA LowestMember ==
    ASSUME NEW S \in SUBSET Nat, S # {}
    PROVE  Lowest(S) \in S /\ \A j \in S : Lowest(S) <= j
BY LeastMember DEF Lowest

-------------------------------------------------------------------------------

LEMMA EmptyQueueType ==
    ASSUME NEW n \in Nat \ {0}, NEW F
    PROVE  /\ EmptyQueue(n) \in FrameQueueOf(n, F)
           /\ HasFreeSlots(EmptyQueue(n))
<1>1. 0 \in Slots(n)
    BY DEF Slots
<1>2. EmptyQueue(n) \in FrameQueueOf(n, F)
    BY <1>1 DEF EmptyQueue, FrameQueueOf
<1>3. 0 \in FreeSlots(EmptyQueue(n))
    BY <1>1 DEF EmptyQueue, FreeSlots
<1> QED BY <1>2, <1>3 DEF HasFreeSlots

(* allocate finds a free slot if there is one.                             *)
LEMMA AllocationSlotIsFree ==
    ASSUME NEW n \in Nat \ {0}, NEW F, NEW q \in FrameQueueOf(n, F),
           HasFreeSlots(q)
    PROVE  AllocationSlot(q, n) \in FreeSlots(q) /\ AllocationSlot(q, n) \in Slots(n)
<1> DEFINE turns == {Turn(q, n, i) : i \in FreeSlots(q)}
<1>1. FreeSlots(q) \subseteq Slots(n) /\ q.lookup \in Slots(n)
    BY DEF FreeSlots, FrameQueueOf
<1>2. \A i \in Slots(n) : Turn(q, n, i) \in Nat
    BY <1>1 DEF Turn, Slots
<1>3. turns \in SUBSET Nat /\ turns # {}
    BY <1>1, <1>2 DEF HasFreeSlots
<1>4. \E t \in turns : \A u \in turns : t <= u
    <2> HIDE DEF turns
    <2> QED BY <1>3, LeastMember
<1>5. \E i \in FreeSlots(q) : \A j \in FreeSlots(q) : Turn(q, n, i) <= Turn(q, n, j)
    BY <1>4
<1> QED BY <1>1, <1>5 DEF AllocationSlot

LEMMA AllocateType ==
    ASSUME NEW n \in Nat \ {0}, NEW F, NEW q \in FrameQueueOf(n, F), NEW frame \in F
    PROVE  Allocate(q, n, frame) \in FrameQueueOf(n, F)
<1>1. CASE ~ HasFreeSlots(q)
    BY <1>1 DEF Allocate
<1>2. CASE HasFreeSlots(q)
    <2> DEFINE i == AllocationSlot(q, n)
    <2>1. i \in Slots(n)
        BY <1>2, AllocationSlotIsFree
    <2>2. (i + 1) % n \in Slots(n)
        BY <2>1 DEF Slots
    <2>3. [q.frames EXCEPT ![i] = frame] \in [Slots(n) -> F \cup {NoFrame}]
        BY DEF FrameQueueOf
    <2> QED BY <1>2, <2>2, <2>3 DEF Allocate, FrameQueueOf
<1> QED BY <1>1, <1>2

(* allocate only writes to a slot that is free.                            *)
LEMMA AllocateKeeps ==
    ASSUME NEW n \in Nat \ {0}, NEW F, NEW q \in FrameQueueOf(n, F), NEW frame,
           NEW i \in DOMAIN q.frames, q.frames[i] # NoFrame
    PROVE  Allocate(q, n, frame).frames[i] = q.frames[i]
<1>1. CASE ~ HasFreeSlots(q)
    BY <1>1 DEF Allocate
<1>2. CASE HasFreeSlots(q)
    <2>1. AllocationSlot(q, n) # i
        BY <1>2, AllocationSlotIsFree DEF FreeSlots
    <2> QED BY <1>2, <2>1 DEF Allocate, FrameQueueOf
<1> QED BY <1>1, <1>2

(* Nothing but allocate takes a slot.                                      *)
LEMMA FreeType ==
    ASSUME NEW n, NEW F, NEW q \in FrameQueueOf(n, F), NEW i
    PROVE  Free(q, i) \in FrameQueueOf(n, F)
BY DEF Free, FrameQueueOf

LEMMA ResetForType ==
    ASSUME NEW n, NEW F, NEW q \in FrameQueueOf(n, F), NEW addr
    PROVE  /\ ResetFor(q, addr) \in FrameQueueOf(n, F)
           /\ HasFreeSlots(q) => HasFreeSlots(ResetFor(q, addr))
           /\ \A i \in Occupied(ResetFor(q, addr)) : 
                  i \in Occupied(q) /\ q.frames[i].addr # addr
                    /\ ResetFor(q, addr).frames[i] = q.frames[i]
BY DEF ResetFor, FrameQueueOf, HasFreeSlots, FreeSlots, Occupied

LEMMA FreeByNsType ==
    ASSUME NEW n, NEW F, NEW q \in FrameQueueOf(n, F), NEW addr, NEW seqs
    PROVE  /\ FreeByNs(q, addr, seqs) \in FrameQueueOf(n, F)
           /\ HasFreeSlots(q) => HasFreeSlots(FreeByNs(q, addr, seqs))
BY DEF FreeByNs, FrameQueueOf, HasFreeSlots, FreeSlots

(* free_by_ns leaves the frames for other addresses alone.                 *)
LEMMA FreeByNsAddress ==
    ASSUME NEW n \in Nat, NEW F, NEW q \in FrameQueueOf(n, F), NEW addr, NEW seqs,
           NEW i \in Occupied(q), q.frames[i].addr # addr
    PROVE  FreeByNs(q, addr, seqs).frames[i] = q.frames[i]
<1>1. \A ns \in seqs : Matching(q, addr, ns) # {} =>
                           Lowest(Matching(q, addr, ns)) \in Matching(q, addr, ns)
    <2>1. \A ns \in seqs : Matching(q, addr, ns) \in SUBSET Nat
        BY DEF Matching, Occupied, FrameQueueOf, Slots
    <2> QED BY <2>1, LowestMember
<1>2. \A ns \in seqs : i \notin Matching(q, addr, ns)
    BY DEF Matching
<1> QED BY <1>1, <1>2 DEF FreeByNs, Occupied

-------------------------------------------------------------------------------

LEMMA SuccType ==
    ASSUME NEW n \in SeqNum
    PROVE  Succ(n) \in SeqNum
BY SeqModAssumption DEF Succ, SeqNum

LEMMA ResetControlType == ResetControl \in Control
BY SeqModAssumption DEF ResetControl, Control, SeqNum

LEMMA ControlType ==
    ASSUME NEW c \in Control, NEW nr \in SeqNum
    PROVE  /\ ConfirmSentFrames(c, nr) \in Control
           /\ RetransmitFrame(c, nr) \in Control
           /\ MoveToNextFrameToReceive(c) \in Control
           /\ MoveToNextNs(c) \in Control
           /\ AdvanceNextNs(c) \in Control
BY SuccType DEF Control, ConfirmSentFrames, RetransmitFrame, MoveToNextFrameToReceive,
    MoveToNextNs, AdvanceNextNs

-------------------------------------------------------------------------------

(* A sender let in by the event finds a slot.                              *)
Slotted(s) == "QUEUE_HAS_FREE_SLOTS" \in s.events => HasFreeSlots(s.i_queue)

(* Outside a session only last_ns may have moved.                          *)
Cold(peer) ==
    ~ InSession(peer) =>
        /\ peer.control = [ResetControl EXCEPT !.last_ns = peer.control.last_ns]
        /\ ~ peer.sent_reject

(* The inductive invariant of an endpoint.                                 *)
Good(local) ==
    {s \in Station(local) : Slotted(s) /\ \A p \in Peers(local) : Cold(s.peers[p])}

-------------------------------------------------------------------------------

LEMMA PeersType ==
    ASSUME NEW local \in Address
    PROVE  /\ NumPeers(local) \in Nat \ {0}
           /\ Peers(local) \in SUBSET Nat
           /\ 0 \in Peers(local)
BY PeersAssumption DEF NumPeers, Peers

LEMMA WindowType == Window \in Nat \ {0} /\ SQueueSize \in Nat \ {0} /\ Retries \in Nat
BY WindowAssumption, SQueueAssumption, RetriesAssumption

(* The three ways in which a method changes an endpoint.                   *)
LEMMA ChangePeer ==
    ASSUME NEW local \in Address, NEW s \in Good(local), NEW p \in Peers(local),
           NEW peer \in PeerInfo, Cold(peer)
    PROVE  [s EXCEPT !.peers[p] = peer] \in Good(local)
<1> DEFINE t == [s EXCEPT !.peers[p] = peer]
<1>1. t \in Station(local)
    BY DEF Good, Station
<1>2. Slotted(t)
    BY DEF Good, Station, Slotted
<1>3. \A i \in Peers(local) : Cold(t.peers[i])
    <2>1. \A i \in Peers(local) : t.peers[i] = IF i = p THEN peer ELSE s.peers[i]
        BY DEF Good, Station
    <2> QED BY <2>1 DEF Good
<1> QED BY <1>1, <1>2, <1>3 DEF Good

LEMMA ChangeIQueue ==
    ASSUME NEW local \in Address, NEW s \in Good(local),
           NEW q \in FrameQueueOf(Window, DataFrame),
           HasFreeSlots(s.i_queue) => HasFreeSlots(q)
    PROVE  [s EXCEPT !.i_queue = q] \in Good(local)
BY DEF Good, Station, Slotted

LEMMA ChangeSQueue ==
    ASSUME NEW local \in Address, NEW s \in Good(local),
           NEW q \in FrameQueueOf(SQueueSize, ServiceFrame)
    PROVE  [s EXCEPT !.s_queue = q] \in Good(local)
BY DEF Good, Station, Slotted

LEMMA SignalData ==
    ASSUME NEW local \in Address, NEW s \in Good(local)
    PROVE  [s EXCEPT !.events = @ \cup {"TX_DATA_AVAILABLE"}] \in Good(local)
BY DEF Good, Station, Slotted, Event

LEMMA OfferFreeSlotsGood ==
    ASSUME NEW local \in Address, NEW s \in Good(local)
    PROVE  OfferFreeSlots(s) \in Good(local) /\ OfferFreeSlots(s).peers = s.peers
           /\ OfferFreeSlots(s).i_queue = s.i_queue
BY DEF OfferFreeSlots, Good, Station, Slotted, Event

LEMMA FrameTypes ==
    ASSUME NEW addr \in Address, NEW ns \in SeqNum, NEW nr \in SeqNum
    PROVE  /\ \A type \in UType : UFrame(type, addr) \in ServiceFrame
           /\ \A type \in SType : SFrame(type, addr, nr) \in ServiceFrame
           /\ \A data \in Payload : IFrame(addr, ns, nr, data) \in DataFrame
BY SeqModAssumption DEF UFrame, SFrame, IFrame, ServiceFrame, DataFrame, SeqNum

LEMMA AddressType ==
    ASSUME NEW local \in Address, NEW s \in Station(local), NEW p \in Peers(local)
    PROVE  PeerToAddressField(s, p) \in Address
BY PeersType DEF PeerToAddressField, Station, Address

LEMMA PutSUFrameGood ==
    ASSUME NEW local \in Address, NEW s \in Good(local), NEW frame \in ServiceFrame
    PROVE  /\ PutSUFrame(s, frame) \in Good(local)
           /\ PutSUFrame(s, frame).peers = s.peers
           /\ PutSUFrame(s, frame).i_queue = s.i_queue
<1> DEFINE q == Allocate(s.s_queue, SQueueSize, frame)
           t == [s EXCEPT !.s_queue = q]
<1>1. q \in FrameQueueOf(SQueueSize, ServiceFrame)
    BY AllocateType, WindowType DEF Good, Station
<1>2. t \in Good(local)
    BY <1>1, ChangeSQueue
<1>3. [t EXCEPT !.events = @ \cup {"TX_DATA_AVAILABLE"}] \in Good(local)
    BY <1>2, SignalData
<1>4. PutSUFrame(s, frame) \in {s, [t EXCEPT !.events = @ \cup {"TX_DATA_AVAILABLE"}]}
    BY DEF PutSUFrame, Good, Station
<1>5. t.peers = s.peers /\ t.i_queue = s.i_queue
    BY DEF Good, Station
<1> QED BY <1>2, <1>3, <1>4, <1>5 DEF Good, Station

LEMMA PutUFrameGood ==
    ASSUME NEW local \in Address, NEW s \in Good(local), NEW p \in Peers(local),
           NEW type \in UType
    PROVE  /\ PutUFrame(s, p, type) \in Good(local)
           /\ PutUFrame(s, p, type).peers = s.peers
           /\ PutUFrame(s, p, type).i_queue = s.i_queue
<1>1. PeerToAddressField(s, p) \in Address
    BY AddressType DEF Good
<1>2. UFrame(type, PeerToAddressField(s, p)) \in ServiceFrame
    BY <1>1, FrameTypes, SeqModAssumption DEF SeqNum
<1> QED BY <1>2, PutSUFrameGood DEF PutUFrame

LEMMA PutSFrameGood ==
    ASSUME NEW local \in Address, NEW s \in Good(local), NEW p \in Peers(local),
           NEW type \in SType, NEW nr \in SeqNum
    PROVE  PutSFrame(s, p, type, nr) \in Good(local)
<1>1. PeerToAddressField(s, p) \in Address
    BY AddressType DEF Good
<1>2. SFrame(type, PeerToAddressField(s, p), nr) \in ServiceFrame
    BY <1>1, FrameTypes
<1> QED BY <1>2, PutSUFrameGood DEF PutSFrame

-------------------------------------------------------------------------------

LEMMA ResetConnectionType ==
    ASSUME NEW peer \in PeerInfo
    PROVE  /\ ResetConnection(peer) \in PeerInfo
           /\ ResetConnection(peer).control = ResetControl
           /\ ~ ResetConnection(peer).sent_reject
BY ResetControlType DEF ResetConnection, PeerInfo

(* With the numbers of a reset, and nothing rejected, a peer is cold in    *)
(* every state.                                                            *)
LEMMA ResetIsCold ==
    ASSUME NEW peer, peer.control = ResetControl, ~ peer.sent_reject
    PROVE  Cold(peer)
BY DEF Cold, ResetControl

LEMMA SwitchToConnectedGood ==
    ASSUME NEW local \in Address, NEW s \in Good(local), NEW p \in Peers(local)
    PROVE  SwitchToConnected(s, p) \in Good(local)
<1> DEFINE peer == [ResetConnection(s.peers[p]) EXCEPT
                        !.state = "Connected", !.retries = Retries, !.i_elapsed = FALSE]
           t == [s EXCEPT !.peers[p] = peer]
           u == [t EXCEPT !.events = @ \cup {"TX_DATA_AVAILABLE"}]
<1>1. s.peers[p] \in PeerInfo
    BY DEF Good, Station
<1>2. peer \in PeerInfo /\ Cold(peer)
    <2>1. peer \in PeerInfo
        <3>1. ResetConnection(s.peers[p]) \in PeerInfo
            BY <1>1, ResetConnectionType
        <3>2. Retries \in 0 .. Retries /\ "Connected" \in FdState
            BY WindowType DEF FdState
        <3> QED BY <3>1, <3>2 DEF PeerInfo
    <2>2. InSession(peer)
        BY <1>1, ResetConnectionType DEF PeerInfo, InSession
    <2> QED BY <2>1, <2>2 DEF Cold
<1>3. u \in Good(local)
    <2>1. t \in Good(local)
        BY <1>2, ChangePeer
    <2> QED BY <2>1, SignalData
<1>4. SwitchToConnected(s, p) = IF s.peers[p].state = "Connected" THEN s ELSE OfferFreeSlots(u)
    BY DEF SwitchToConnected, Good, Station
<1> QED BY <1>3, <1>4, OfferFreeSlotsGood

LEMMA SwitchToDisconnectedGood ==
    ASSUME NEW local \in Address, NEW s \in Good(local), NEW p \in Peers(local)
    PROVE  SwitchToDisconnected(s, p) \in Good(local)
<1> DEFINE peer == [ResetConnection(s.peers[p]) EXCEPT !.state = "Disconnected"]
           t == [s EXCEPT !.peers[p] = peer]
           q == ResetFor(s.i_queue, PeerToAddressField(s, p))
           u == [t EXCEPT !.i_queue = q]
<1>1. s.peers[p] \in PeerInfo /\ s.i_queue \in FrameQueueOf(Window, DataFrame)
    BY DEF Good, Station
<1>2. peer \in PeerInfo /\ Cold(peer)
    <2>1. /\ peer \in PeerInfo
          /\ peer.control = ResetControl
          /\ ~ peer.sent_reject
        BY <1>1, ResetConnectionType DEF PeerInfo, FdState
    <2> QED BY <2>1, ResetIsCold
<1>3. t \in Good(local) /\ t.i_queue = s.i_queue
    <2>1. t \in Good(local)
        BY <1>2, ChangePeer
    <2> QED BY <2>1 DEF Good, Station
<1>4. u \in Good(local)
    <2>1. /\ q \in FrameQueueOf(Window, DataFrame)
          /\ HasFreeSlots(s.i_queue) => HasFreeSlots(q)
        BY <1>1, ResetForType
    <2> QED BY <1>3, <2>1, ChangeIQueue
<1>5. SwitchToDisconnected(s, p) \in {s, u}
    BY DEF SwitchToDisconnected, Good, Station
<1> QED BY <1>4, <1>5

-------------------------------------------------------------------------------

LEMMA NewStationGood ==
    ASSUME NEW local \in Address
    PROVE  NewStation(local) \in Good(local)
<1>1. NewPeer \in PeerInfo /\ Cold(NewPeer)
    <2>1. NewPeer \in PeerInfo
        BY ResetControlType, WindowType DEF NewPeer, PeerInfo, FdState
    <2>2. NewPeer.control = ResetControl /\ ~ NewPeer.sent_reject
        BY DEF NewPeer
    <2> QED BY <2>1, <2>2, ResetIsCold
<1>2. /\ EmptyQueue(Window) \in FrameQueueOf(Window, DataFrame)
      /\ EmptyQueue(SQueueSize) \in FrameQueueOf(SQueueSize, ServiceFrame)
      /\ HasFreeSlots(EmptyQueue(Window))
    BY EmptyQueueType, WindowType
<1> QED BY <1>1, <1>2 DEF NewStation, Good, Station, Slotted, Event

LEMMA DisconnectGood ==
    ASSUME NEW local \in Address, NEW s \in Good(local)
    PROVE  Disconnect(s) \in Good(local)
<1> DEFINE t == PutUFrame(s, 0, "DISC")
           peer == [t.peers[0] EXCEPT !.state = "Disconnecting"]
<1>1. t \in Good(local)
    BY PutUFrameGood, PeersType DEF UType
<1>2. t.peers[0] \in PeerInfo
    BY <1>1, PeersType DEF Good, Station
<1>3. peer \in PeerInfo /\ Cold(peer)
    <2>1. peer \in PeerInfo /\ InSession(peer)
        BY <1>2 DEF PeerInfo, FdState, InSession
    <2> QED BY <2>1 DEF Cold
<1>4. [t EXCEPT !.peers[0] = peer] \in Good(local)
    <2> HIDE DEF t, peer
    <2> QED BY <1>1, <1>3, PeersType, ChangePeer
<1>5. Disconnect(s) = [t EXCEPT !.peers[0] = peer]
    BY <1>1 DEF Disconnect, Good, Station
<1> QED BY <1>4, <1>5

(* Only send_packet takes slots of the I-frame queue; it clears the event  *)
(* with the last one.                                                      *)
LEMMA SendPacketGood ==
    ASSUME NEW local \in Address, NEW s \in Good(local), NEW p \in Peers(local),
           NEW data \in Payload
    PROVE  SendPacket(s, p, data) \in Good(local)
<1> DEFINE c == s.peers[p].control
           frame == IFrame(PeerToAddressField(s, p), c.last_ns, 0, data)
           q == Allocate(s.i_queue, Window, frame)
           peer == [s.peers[p] EXCEPT !.control = MoveToNextNs(c)]
           t == PutIFrame(s, p, data)
<1>1. s.peers[p] \in PeerInfo /\ c \in Control
    BY DEF Good, Station, PeerInfo
<1>2. frame \in DataFrame
    <2>1. c.last_ns \in SeqNum /\ 0 \in SeqNum
        BY <1>1, SeqModAssumption DEF Control, SeqNum
    <2>2. PeerToAddressField(s, p) \in Address
        BY AddressType DEF Good
    <2> QED BY <2>1, <2>2, FrameTypes
<1>3. q \in FrameQueueOf(Window, DataFrame)
    BY <1>2, AllocateType, WindowType DEF Good, Station
<1>4. peer \in PeerInfo /\ Cold(peer)
    <2>1. peer \in PeerInfo
        <3>1. 0 \in SeqNum
            BY SeqModAssumption DEF SeqNum
        <3>2. MoveToNextNs(c) \in Control
            BY <1>1, <3>1, ControlType
        <3> QED BY <1>1, <3>2 DEF PeerInfo
    <2>2. Cold(s.peers[p])
        BY DEF Good
    <2>3. /\ peer.state = s.peers[p].state
          /\ peer.sent_reject = s.peers[p].sent_reject
          /\ peer.control = [c EXCEPT !.last_ns = Succ(c.last_ns)]
        BY <1>1 DEF PeerInfo, MoveToNextNs
    <2>4. c = [ResetControl EXCEPT !.last_ns = c.last_ns] =>
              peer.control = [ResetControl EXCEPT !.last_ns = peer.control.last_ns]
        BY <2>3, <1>1 DEF ResetControl, Control
    <2> HIDE DEF peer
    <2> QED BY <2>1, <2>2, <2>3, <2>4 DEF Cold, InSession
<1>5. /\ t = [s EXCEPT !.peers[p] = peer, !.i_queue = q]
      /\ t \in Station(local)
      /\ \A i \in Peers(local) : Cold(t.peers[i])
    <2>1. t = [[s EXCEPT !.peers[p] = peer] EXCEPT !.i_queue = q]
        BY DEF PutIFrame, Good, Station
    <2>2. [s EXCEPT !.peers[p] = peer] \in Good(local)
        BY <1>4, ChangePeer
    <2> HIDE DEF q, peer
    <2> QED BY <2>1, <2>2, <1>3 DEF Good, Station
<1>6. SendPacket(s, p, data) =
          [t EXCEPT !.events =
              IF HasFreeSlots(t.i_queue)
              THEN t.events \cup {"TX_DATA_AVAILABLE"}
              ELSE (t.events \cup {"TX_DATA_AVAILABLE"}) \ {"QUEUE_HAS_FREE_SLOTS"}]
    BY DEF SendPacket
<1> HIDE DEF t
<1>7. SendPacket(s, p, data) \in Station(local)
    <2> DEFINE e == IF HasFreeSlots(t.i_queue)
                    THEN t.events \cup {"TX_DATA_AVAILABLE"}
                    ELSE (t.events \cup {"TX_DATA_AVAILABLE"}) \ {"QUEUE_HAS_FREE_SLOTS"}
    <2>1. e \in SUBSET Event
        BY <1>5 DEF Station, Event
    <2> HIDE DEF e
    <2>2. [t EXCEPT !.events = e] \in Station(local)
        BY <1>5, <2>1 DEF Station
    <2> QED BY <1>6, <2>2 DEF e
<1>8. Slotted(SendPacket(s, p, data))
    BY <1>5, <1>6 DEF Station, Slotted
<1>9. SendPacket(s, p, data).peers = t.peers
    BY <1>5, <1>6 DEF Station
<1> QED BY <1>5, <1>7, <1>8, <1>9 DEF Good

-------------------------------------------------------------------------------

LEMMA OnUFrameReceivedGood ==
    ASSUME NEW local \in Address, NEW s \in Good(local), NEW p \in Peers(local),
           NEW frame \in Frame
    PROVE  OnUFrameReceived(s, p, frame) \in Good(local)
<1>1. PutUFrame(s, p, "UA") \in Good(local)
    BY PutUFrameGood DEF UType
<1>2. /\ SwitchToConnected(s, p) \in Good(local)
      /\ SwitchToDisconnected(s, p) \in Good(local)
      /\ SwitchToConnected(PutUFrame(s, p, "UA"), p) \in Good(local)
      /\ SwitchToDisconnected(PutUFrame(s, p, "UA"), p) \in Good(local)
    BY <1>1, SwitchToConnectedGood, SwitchToDisconnectedGood
<1> QED BY <1>2 DEF OnUFrameReceived

LEMMA ConfirmAndFreeGood ==
    ASSUME NEW local \in Address, NEW s \in Good(local), NEW p \in Peers(local),
           NEW nr \in SeqNum, InSession(s.peers[p])
    PROVE  /\ ConfirmAndFree(s, p, nr) \in Good(local)
           /\ InSession(ConfirmAndFree(s, p, nr).peers[p])
<1> DEFINE c == ConfirmSentFrames(s.peers[p].control, nr)
           q == FreeByNs(s.i_queue, PeerToAddressField(s, p),
                         Confirmed(s.peers[p].control, nr))
           peer == [s.peers[p] EXCEPT !.control = c]
           t == [s EXCEPT !.i_queue = q]
           u == [t EXCEPT !.peers[p] = peer]
<1>1. s.peers[p] \in PeerInfo /\ s.peers[p].control \in Control
    BY DEF Good, Station, PeerInfo
<1>2. peer \in PeerInfo /\ InSession(peer) /\ Cold(peer)
    <2>1. peer \in PeerInfo
        BY <1>1, ControlType DEF PeerInfo
    <2>2. InSession(peer)
        BY <1>1 DEF PeerInfo, InSession
    <2> QED BY <2>1, <2>2 DEF Cold
<1>3. /\ q \in FrameQueueOf(Window, DataFrame)
      /\ HasFreeSlots(s.i_queue) => HasFreeSlots(q)
    BY FreeByNsType DEF Good, Station
<1>4. t \in Good(local)
    BY <1>3, ChangeIQueue
<1>5. u \in Good(local)
    <2> HIDE DEF t, peer
    <2> QED BY <1>2, <1>4, ChangePeer
<1>6. ConfirmAndFree(s, p, nr) = OfferFreeSlots(u)
    BY DEF ConfirmAndFree, Good, Station
<1>7. u.peers[p] = peer
    BY DEF Good, Station
<1> HIDE DEF u, peer
<1> QED BY <1>2, <1>5, <1>6, <1>7, OfferFreeSlotsGood

LEMMA RejectIFrameGood ==
    ASSUME NEW local \in Address, NEW s \in Good(local), NEW p \in Peers(local),
           InSession(s.peers[p])
    PROVE  RejectIFrame(s, p) \in Good(local)
<1> DEFINE peer == [s.peers[p] EXCEPT !.sent_reject = TRUE]
           t == [s EXCEPT !.peers[p] = peer]
<1>1. s.peers[p] \in PeerInfo /\ s.peers[p].control.next_nr \in SeqNum
    BY DEF Good, Station, PeerInfo, Control
<1>2. peer \in PeerInfo /\ Cold(peer)
    <2>1. peer \in PeerInfo /\ InSession(peer)
        BY <1>1 DEF PeerInfo, InSession
    <2> QED BY <2>1 DEF Cold
<1>3. t \in Good(local)
    BY <1>2, ChangePeer
<1>4. PutSFrame(t, p, "REJ", s.peers[p].control.next_nr) \in Good(local)
    <2> HIDE DEF t
    <2> QED BY <1>1, <1>3, PutSFrameGood DEF SType
<1>5. RejectIFrame(s, p) \in {s, PutSFrame(t, p, "REJ", s.peers[p].control.next_nr)}
    BY DEF RejectIFrame, Good, Station
<1> QED BY <1>4, <1>5

LEMMA AcceptIFrameGood ==
    ASSUME NEW local \in Address, NEW s \in Good(local), NEW p \in Peers(local),
           InSession(s.peers[p])
    PROVE  AcceptIFrame(s, p) \in Good(local)
<1> DEFINE c == MoveToNextFrameToReceive(s.peers[p].control)
           peer == [s.peers[p] EXCEPT !.control = c, !.sent_reject = FALSE]
           t == [s EXCEPT !.peers[p] = peer]
<1>1. s.peers[p] \in PeerInfo /\ s.peers[p].control \in Control
    BY DEF Good, Station, PeerInfo
<1>2. c \in Control /\ c.next_nr \in SeqNum
    <2>1. c \in Control
        BY <1>1, ControlType, SeqModAssumption DEF SeqNum
    <2> QED BY <2>1 DEF Control
<1>3. peer \in PeerInfo /\ Cold(peer)
    <2> HIDE DEF c
    <2>1. peer \in PeerInfo /\ InSession(peer)
        BY <1>1, <1>2 DEF PeerInfo, InSession
    <2> QED BY <2>1 DEF Cold
<1>4. t \in Good(local)
    BY <1>3, ChangePeer
<1>5. PutSFrame(t, p, "RR", c.next_nr) \in Good(local)
    <2> HIDE DEF t, c
    <2> QED BY <1>2, <1>4, PutSFrameGood DEF SType
<1>6. AcceptIFrame(s, p) = PutSFrame(t, p, "RR", c.next_nr)
    BY DEF AcceptIFrame, Good, Station
<1> QED BY <1>5, <1>6

LEMMA OnIFrameReceivedGood ==
    ASSUME NEW local \in Address, NEW s \in Good(local), NEW p \in Peers(local),
           NEW frame \in Frame, InSession(s.peers[p])
    PROVE  OnIFrameReceived(s, p, frame) \in Good(local)
<1> DEFINE t == ConfirmAndFree(s, p, frame.nr)
<1>1. t \in Good(local) /\ InSession(t.peers[p])
    BY ConfirmAndFreeGood DEF Frame
<1>2. AcceptIFrame(t, p) \in Good(local) /\ RejectIFrame(t, p) \in Good(local)
    <2> HIDE DEF t
    <2> QED BY <1>1, AcceptIFrameGood, RejectIFrameGood
<1> QED BY <1>2 DEF OnIFrameReceived

LEMMA OnSFrameReceivedGood ==
    ASSUME NEW local \in Address, NEW s \in Good(local), NEW p \in Peers(local),
           NEW frame \in Frame, InSession(s.peers[p])
    PROVE  OnSFrameReceived(s, p, frame) \in Good(local)
<1> DEFINE t == ConfirmAndFree(s, p, frame.nr)
           confirmed == [t.peers[p] EXCEPT !.retries = Retries]
           rewound == [t.peers[p] EXCEPT
                          !.control = RetransmitFrame(t.peers[p].control, frame.nr)]
           u == [t EXCEPT !.peers[p] = rewound]
<1>1. t \in Good(local) /\ InSession(t.peers[p])
    BY ConfirmAndFreeGood DEF Frame
<1>2. frame.nr \in SeqNum
    BY DEF Frame
<1> HIDE DEF t
<1>3. t.peers[p] \in PeerInfo /\ t.peers[p].control \in Control
    BY <1>1 DEF Good, Station, PeerInfo
<1>4. [t EXCEPT !.peers[p] = confirmed] \in Good(local)
    <2>1. confirmed \in PeerInfo /\ InSession(confirmed)
        BY <1>1, <1>3, WindowType DEF PeerInfo, InSession
    <2>2. Cold(confirmed)
        BY <2>1 DEF Cold
    <2> QED BY <1>1, <2>1, <2>2, ChangePeer
<1>5. [u EXCEPT !.events = @ \cup {"TX_DATA_AVAILABLE"}] \in Good(local)
    <2>1. rewound \in PeerInfo /\ InSession(rewound)
        BY <1>1, <1>2, <1>3, ControlType DEF PeerInfo, InSession
    <2>2. Cold(rewound)
        BY <2>1 DEF Cold
    <2>3. u \in Good(local)
        BY <1>1, <2>1, <2>2, ChangePeer
    <2> QED BY <2>3, SignalData
<1>6. OnSFrameReceived(s, p, frame) \in
          {t, [t EXCEPT !.peers[p] = confirmed],
           [u EXCEPT !.events = @ \cup {"TX_DATA_AVAILABLE"}]}
    BY <1>1 DEF OnSFrameReceived, t, Good, Station
<1> QED BY <1>1, <1>4, <1>5, <1>6

LEMMA ReceiveFromPeerGood ==
    ASSUME NEW local \in Address, NEW s \in Good(local), NEW p \in Peers(local),
           NEW frame \in Frame
    PROVE  ReceiveFromPeer(s, p, frame) \in Good(local)
BY OnUFrameReceivedGood, OnIFrameReceivedGood, OnSFrameReceivedGood, PutUFrameGood
    DEF ReceiveFromPeer, UType

LEMMA AddressFieldToPeerType ==
    ASSUME NEW local \in Address, NEW s \in Good(local), NEW addr
    PROVE  AddressFieldToPeer(s, addr) \subseteq Peers(local)
BY PeersType DEF AddressFieldToPeer, Good, Station

LEMMA OnFrameReceivedGood ==
    ASSUME NEW local \in Address, NEW s \in Good(local), NEW frame \in Frame
    PROVE  OnFrameReceived(s, frame) \in Good(local)
<1> DEFINE S == AddressFieldToPeer(s, frame.addr)
<1>1. CASE S = {}
    BY <1>1 DEF OnFrameReceived
<1>2. CASE S # {}
    <2>1. S \subseteq Peers(local) /\ S \in SUBSET Nat
        BY AddressFieldToPeerType, PeersType
    <2>2. Lowest(S) \in Peers(local)
        <3> HIDE DEF S
        <3> QED BY <1>2, <2>1, LowestMember
    <2>3. OnFrameReceived(s, frame) = ReceiveFromPeer(s, Lowest(S), frame)
        BY <1>2 DEF OnFrameReceived
    <2> QED BY <2>2, <2>3, ReceiveFromPeerGood
<1> QED BY <1>1, <1>2

-------------------------------------------------------------------------------

(* A peer that keeps its numbers stays cold unless it leaves a session.    *)
LEMMA ColdKept ==
    ASSUME NEW old, NEW peer, Cold(old),
           peer.control = old.control, peer.sent_reject = old.sent_reject,
           InSession(old) => InSession(peer)
    PROVE  Cold(peer)
BY DEF Cold

LEMMA SendSabmGood ==
    ASSUME NEW local \in Address, NEW s \in Good(local), NEW p \in Peers(local)
    PROVE  /\ SendSabm(s, p) \in Good(local)
           /\ SendSabm(s, p).peers[p] = [s.peers[p] EXCEPT !.frame_elapsed = FALSE]
<1> DEFINE t == PutUFrame(s, p, "SABM")
           peer == [s.peers[p] EXCEPT !.frame_elapsed = FALSE]
<1>1. t \in Good(local) /\ t.peers = s.peers
    BY PutUFrameGood DEF UType
<1>2. s.peers[p] \in PeerInfo /\ Cold(s.peers[p])
    BY DEF Good, Station
<1>3. peer \in PeerInfo /\ Cold(peer)
    <2>1. peer \in PeerInfo
        BY <1>2 DEF PeerInfo
    <2>2. /\ peer.control = s.peers[p].control
          /\ peer.sent_reject = s.peers[p].sent_reject
          /\ peer.state = s.peers[p].state
        BY <1>2 DEF PeerInfo
    <2> HIDE DEF peer
    <2> QED BY <1>2, <2>1, <2>2, ColdKept DEF InSession
<1>4. SendSabm(s, p) = [t EXCEPT !.peers[p] = peer]
    BY <1>1 DEF SendSabm, Good, Station
<1> HIDE DEF t, peer
<1>5. [t EXCEPT !.peers[p] = peer] \in Good(local)
    BY <1>1, <1>3, ChangePeer
<1>6. [t EXCEPT !.peers[p] = peer].peers[p] = peer
    BY <1>1 DEF Good, Station
<1> QED BY <1>4, <1>5, <1>6 DEF peer

LEMMA RetryConnectGood ==
    ASSUME NEW local \in Address, NEW s \in Good(local), NEW p \in Peers(local),
           ~ InSession(s.peers[p])
    PROVE  RetryConnect(s, p) \in Good(local)
<1> DEFINE down == [s.peers[p] EXCEPT !.state = "Disconnected"]
           less == [s.peers[p] EXCEPT !.retries = s.peers[p].retries - 1]
<1>1. s.peers[p] \in PeerInfo /\ Cold(s.peers[p])
    BY DEF Good, Station
<1>2. [s EXCEPT !.peers[p] = down] \in Good(local)
    <2>1. down \in PeerInfo
        BY <1>1 DEF PeerInfo, FdState
    <2>2. /\ down.control = s.peers[p].control
          /\ down.sent_reject = s.peers[p].sent_reject
        BY <1>1 DEF PeerInfo
    <2> HIDE DEF down
    <2> QED BY <1>1, <2>1, <2>2, ColdKept, ChangePeer
<1>3. CASE s.peers[p].retries = 0
    <2>1. RetryConnect(s, p) = [s EXCEPT !.peers[p] = down]
        BY <1>3 DEF RetryConnect, Good, Station
    <2> QED BY <1>2, <2>1
<1>4. CASE s.peers[p].retries # 0
    <2>1. less \in PeerInfo
        <3>1. s.peers[p].retries - 1 \in 0 .. Retries
            BY <1>1, <1>4, WindowType DEF PeerInfo
        <3> QED BY <1>1, <3>1 DEF PeerInfo
    <2>2. /\ less.control = s.peers[p].control
          /\ less.sent_reject = s.peers[p].sent_reject
          /\ less.state = s.peers[p].state
        BY <1>1 DEF PeerInfo
    <2>3. RetryConnect(s, p) = SendSabm([s EXCEPT !.peers[p] = less], p)
        BY <1>4 DEF RetryConnect, Good, Station
    <2>4. Cold(less)
        <3> HIDE DEF less
        <3> QED BY <1>1, <2>2, ColdKept DEF InSession
    <2> DEFINE t == [s EXCEPT !.peers[p] = less]
    <2>5. t \in Good(local)
        <3> HIDE DEF less
        <3> QED BY <2>1, <2>4, ChangePeer
    <2>6. SendSabm(t, p) \in Good(local)
        <3> HIDE DEF t
        <3> QED BY <2>5, SendSabmGood
    <2> QED BY <2>3, <2>6
<1> QED BY <1>3, <1>4

LEMMA RetryIFramesGood ==
    ASSUME NEW local \in Address, NEW s \in Good(local), NEW p \in Peers(local),
           InSession(s.peers[p])
    PROVE  RetryIFrames(s, p) \in Good(local)
<1> DEFINE c == s.peers[p].control
           peer == [s.peers[p] EXCEPT !.retries = s.peers[p].retries - 1,
                                      !.control = RetransmitFrame(c, c.confirm_ns),
                                      !.i_elapsed = FALSE]
           t == [s EXCEPT !.peers[p] = peer]
<1>1. s.peers[p] \in PeerInfo /\ c \in Control
    BY DEF Good, Station, PeerInfo
<1>2. CASE s.peers[p].retries = 0
    BY <1>2, SwitchToDisconnectedGood DEF RetryIFrames
<1>3. CASE s.peers[p].retries # 0
    <2>1. RetransmitFrame(c, c.confirm_ns) \in Control
        BY <1>1, ControlType DEF Control
    <2>2. s.peers[p].retries - 1 \in 0 .. Retries
        BY <1>1, <1>3, WindowType DEF PeerInfo
    <2>3. peer \in PeerInfo /\ peer.state = s.peers[p].state
        BY <1>1, <2>1, <2>2 DEF PeerInfo
    <2>4. RetryIFrames(s, p) = [t EXCEPT !.events = @ \cup {"TX_DATA_AVAILABLE"}]
        <3>1. RetryIFrames(s, p) = [s EXCEPT !.peers[p] = peer,
                                             !.events = @ \cup {"TX_DATA_AVAILABLE"}]
            BY <1>3 DEF RetryIFrames
        <3> HIDE DEF peer
        <3> QED BY <3>1 DEF Good, Station
    <2>5. t \in Good(local)
        <3> HIDE DEF peer
        <3>1. Cold(peer)
            BY <2>3 DEF Cold, InSession
        <3> QED BY <2>3, <3>1, ChangePeer
    <2> HIDE DEF t
    <2> QED BY <2>4, <2>5, SignalData
<1> QED BY <1>2, <1>3

LEMMA CheckPeerGood ==
    ASSUME NEW local \in Address, NEW s \in Good(local), NEW p \in Peers(local)
    PROVE  CheckPeer(s, p) \in Good(local)
<1> DEFINE t == SendSabm(s, p)
           peer == [t.peers[p] EXCEPT !.state = "Connecting"]
<1>1. CASE s.peers[p].state \in {"Disconnected", "Idle"}
    <2>1. t \in Good(local) /\ t.peers[p] = [s.peers[p] EXCEPT !.frame_elapsed = FALSE]
        BY SendSabmGood
    <2>2. ~ InSession(t.peers[p])
        BY <1>1, <2>1 DEF InSession, Good, Station, PeerInfo
    <2>3. CheckPeer(s, p) \in {s, [t EXCEPT !.peers[p] = peer]}
        BY <1>1, <2>1 DEF CheckPeer, Good, Station
    <2> HIDE DEF t
    <2>4. t.peers[p] \in PeerInfo /\ Cold(t.peers[p])
        BY <2>1 DEF Good, Station
    <2>5. /\ peer \in PeerInfo
          /\ peer.control = t.peers[p].control
          /\ peer.sent_reject = t.peers[p].sent_reject
        BY <2>4 DEF PeerInfo, FdState
    <2>6. [t EXCEPT !.peers[p] = peer] \in Good(local)
        <3> HIDE DEF peer
        <3> QED BY <2>1, <2>2, <2>4, <2>5, ColdKept, ChangePeer
    <2> QED BY <2>3, <2>6
<1>2. CASE s.peers[p].state = "Connecting"
    <2>1. ~ InSession(s.peers[p])
        BY <1>2 DEF InSession
    <2>2. RetryConnect(s, p) \in Good(local)
        BY <2>1, RetryConnectGood
    <2>3. CheckPeer(s, p) \in {s, RetryConnect(s, p)}
        BY <1>2 DEF CheckPeer
    <2> QED BY <2>2, <2>3
<1>3. CASE s.peers[p].state = "Connected"
    <2>1. InSession(s.peers[p])
        BY <1>3 DEF InSession
    <2>2. RetryIFrames(s, p) \in Good(local)
        BY <2>1, RetryIFramesGood
    <2>3. CheckPeer(s, p) \in {s, RetryIFrames(s, p)}
        BY <1>3 DEF CheckPeer
    <2> QED BY <2>2, <2>3
<1>4. CASE s.peers[p].state \notin {"Disconnected", "Idle", "Connecting", "Connected"}
    BY <1>4 DEF CheckPeer
<1> QED BY <1>1, <1>2, <1>3, <1>4

(* The loop over the peers is well defined: there is a function that       *)
(* satisfies its recursive definition.                                     *)
LEMMA LoopExists ==
    ASSUME NEW local \in Address, NEW s \in Good(local)
    PROVE  \E g : g = [n \in 0 .. NumPeers(local) |->
                          IF n = 0 THEN s ELSE CheckPeer(g[n - 1], n - 1)]
<1> DEFINE N == NumPeers(local)
           Prefix(m, g) == /\ g[0] = s
                           /\ \A i \in 1 .. m : g[i] = CheckPeer(g[i - 1], i - 1)
           T == {m \in 0 .. N : \E g \in [0 .. m -> Good(local)] : Prefix(m, g)}
<1>1. N \in Nat
    BY PeersType
<1>2. 0 \in T
    <2> DEFINE start == [i \in 0 .. 0 |-> s]
    <2>1. start \in [0 .. 0 -> Good(local)]
        OBVIOUS
    <2>2. start[0] = s /\ 1 .. 0 = {}
        OBVIOUS
    <2>3. 0 \in 0 .. N
        BY <1>1
    <2> HIDE DEF start, N
    <2> QED BY <2>1, <2>2, <2>3
<1>3. \A m \in 0 .. N : m \in T /\ m # N => m + 1 \in T
    <2> SUFFICES ASSUME NEW m \in 0 .. N, m \in T, m # N PROVE m + 1 \in T
        OBVIOUS
    <2>1. PICK g \in [0 .. m -> Good(local)] : Prefix(m, g)
        OBVIOUS
    <2> DEFINE h == [i \in 0 .. m + 1 |-> IF i = m + 1 THEN CheckPeer(g[m], m) ELSE g[i]]
    <2>2. m \in Peers(local) /\ m \in Nat
        BY <1>1 DEF Peers
    <2>3. CheckPeer(g[m], m) \in Good(local)
        BY <2>2, CheckPeerGood
    <2>4. h \in [0 .. m + 1 -> Good(local)]
        BY <2>2, <2>3
    <2>5. h[0] = s
        BY <2>1, <2>2
    <2>6. ASSUME NEW i \in 1 .. m + 1 PROVE h[i] = CheckPeer(h[i - 1], i - 1)
        <3>1. CASE i = m + 1
            BY <2>2, <3>1
        <3>2. CASE i # m + 1
            BY <2>1, <2>2, <3>2
        <3> QED BY <3>1, <3>2
    <2>7. m + 1 \in 0 .. N
        BY <1>1
    <2> HIDE DEF h
    <2> QED BY <2>4, <2>5, <2>6, <2>7
<1>4. N \in T
    <2> HIDE DEF T, N
    <2> QED BY <1>1, <1>2, <1>3, SetInduction
<1>5. PICK g \in [0 .. N -> Good(local)] : Prefix(N, g)
    BY <1>4
<1>6. g = [n \in 0 .. N |-> IF n = 0 THEN s ELSE CheckPeer(g[n - 1], n - 1)]
    BY <1>1, <1>5
<1> QED BY <1>6

(* So check_timeouts is what that function gives for all peers.            *)
LEMMA CheckTimeoutsLoop ==
    ASSUME NEW local \in Address, NEW s \in Good(local)
    PROVE  \E g : /\ g = [n \in 0 .. NumPeers(local) |->
                            IF n = 0 THEN s ELSE CheckPeer(g[n - 1], n - 1)]
                 /\ CheckTimeouts(s) = g[NumPeers(local)]
<1> DEFINE f == CHOOSE g : g = [n \in 0 .. NumPeers(local) |->
                                  IF n = 0 THEN s ELSE CheckPeer(g[n - 1], n - 1)]
<1>1. f = [n \in 0 .. NumPeers(local) |-> IF n = 0 THEN s ELSE CheckPeer(f[n - 1], n - 1)]
    BY LoopExists
<1>2. CheckTimeouts(s) = f[NumPeers(local)]
    BY DEF CheckTimeouts, Good, Station
<1> HIDE DEF f
<1> QED BY <1>1, <1>2

LEMMA CheckTimeoutsGood ==
    ASSUME NEW local \in Address, NEW s \in Good(local)
    PROVE  CheckTimeouts(s) \in Good(local)
<1> DEFINE N == NumPeers(local)
<1>1. N \in Nat
    BY PeersType
<1>2. PICK f : /\ f = [n \in 0 .. N |-> IF n = 0 THEN s ELSE CheckPeer(f[n - 1], n - 1)]
               /\ CheckTimeouts(s) = f[N]
    BY CheckTimeoutsLoop
<1> DEFINE T == {m \in 0 .. N : f[m] \in Good(local)}
<1>3. 0 \in T
    BY <1>1, <1>2
<1>4. \A m \in 0 .. N : m \in T /\ m # N => m + 1 \in T
    <2> SUFFICES ASSUME NEW m \in 0 .. N, m \in T, m # N PROVE m + 1 \in T
        OBVIOUS
    <2>1. m \in Peers(local) /\ m + 1 \in 0 .. N
        BY <1>1 DEF Peers
    <2>2. f[m + 1] = CheckPeer(f[m], m)
        BY <1>1, <1>2, <2>1
    <2> QED BY <2>1, <2>2, CheckPeerGood
<1>5. N \in T
    <2> HIDE DEF T, N
    <2> QED BY <1>1, <1>3, <1>4, SetInduction
<1> QED BY <1>2, <1>5

-------------------------------------------------------------------------------

LEMMA OccupiedType ==
    ASSUME NEW n \in Nat, NEW F, NEW q \in FrameQueueOf(n, F), NEW i \in Occupied(q)
    PROVE  Occupied(q) \in SUBSET Nat /\ q.frames[i] \in F
BY DEF Occupied, FrameQueueOf, Slots

LEMMA TransmitServiceGood ==
    ASSUME NEW local \in Address, NEW s \in Good(local), Occupied(s.s_queue) # {}
    PROVE  TransmitService(s) \in Good(local)
<1> DEFINE i == Lowest(Occupied(s.s_queue))
           t == [s EXCEPT !.s_queue = Free(s.s_queue, i)]
<1>1. s.s_queue \in FrameQueueOf(SQueueSize, ServiceFrame)
    BY DEF Good, Station
<1>2. i \in Occupied(s.s_queue)
    <2>1. Occupied(s.s_queue) \in SUBSET Nat
        BY <1>1, OccupiedType, WindowType
    <2> QED BY <2>1, LowestMember
<1>3. s.s_queue.frames[i] \in ServiceFrame
    BY <1>1, <1>2, OccupiedType, WindowType
<1>4. t \in Good(local)
    BY <1>1, FreeType, ChangeSQueue
<1>5. TransmitService(s) = [t EXCEPT !.tx = s.s_queue.frames[i]]
    BY DEF TransmitService, Good, Station
<1> HIDE DEF t, i
<1> QED BY <1>3, <1>4, <1>5 DEF Good, Station, Slotted, SentFrame

LEMMA TransmitIFrameGood ==
    ASSUME NEW local \in Address, NEW s \in Good(local), NEW p \in ReadyPeers(s)
    PROVE  TransmitIFrame(s, p) \in Good(local)
<1> DEFINE c == s.peers[p].control
           M == Matching(s.i_queue, PeerToAddressField(s, p), c.next_ns)
           i == Lowest(M)
           frame == [s.i_queue.frames[i] EXCEPT !.nr = c.next_nr]
           peer == [s.peers[p] EXCEPT !.control = AdvanceNextNs(c), !.i_elapsed = FALSE,
                                      !.frame_elapsed = FALSE, !.retries = Retries]
           t == [s EXCEPT !.peers[p] = peer]
<1>1. /\ p \in Peers(local)
      /\ InSession(s.peers[p])
      /\ M # {}
    BY DEF ReadyPeers, Good, Station, InSession
<1>2. s.peers[p] \in PeerInfo /\ c \in Control /\ s.i_queue \in FrameQueueOf(Window, DataFrame)
    BY <1>1 DEF Good, Station, PeerInfo
<1>3. frame \in DataFrame
    <2>1. M \subseteq Occupied(s.i_queue)
        BY DEF Matching
    <2>2. M \in SUBSET Nat
        BY <1>2, <2>1, OccupiedType, WindowType
    <2>3. i \in M
        BY <1>1, <2>2, LowestMember
    <2>4. s.i_queue.frames[i] \in DataFrame
        BY <1>2, <2>1, <2>3, OccupiedType, WindowType
    <2>5. c.next_nr \in SeqNum
        BY <1>2 DEF Control
    <2> HIDE DEF i, c
    <2> QED BY <2>4, <2>5 DEF DataFrame
<1>4. peer \in PeerInfo /\ Cold(peer)
    <2>1. AdvanceNextNs(c) \in Control
        BY <1>2, ControlType DEF Control
    <2>2. Retries \in 0 .. Retries
        BY WindowType
    <2>3. peer \in PeerInfo /\ InSession(peer)
        BY <1>1, <1>2, <2>1, <2>2 DEF PeerInfo, InSession
    <2> QED BY <2>3 DEF Cold
<1>5. t \in Good(local)
    BY <1>1, <1>4, ChangePeer
<1>6. TransmitIFrame(s, p) = [t EXCEPT !.tx = frame]
    <2>1. TransmitIFrame(s, p) = [s EXCEPT !.tx = frame, !.peers[p] = peer]
        BY DEF TransmitIFrame, GetNext
    <2> HIDE DEF frame, peer
    <2> QED BY <2>1 DEF Good, Station
<1> HIDE DEF t, frame
<1> QED BY <1>3, <1>5, <1>6 DEF Good, Station, Slotted, SentFrame

LEMMA GenerateTxFramesGood ==
    ASSUME NEW local \in Address, NEW s \in Good(local)
    PROVE  GenerateTxFrames(s) \in Good(local)
<1>1. ReadyPeers(s) # {} => Lowest(ReadyPeers(s)) \in ReadyPeers(s)
    <2>1. ReadyPeers(s) \in SUBSET Nat
        BY PeersType DEF ReadyPeers, Good, Station
    <2> QED BY <2>1, LowestMember
<1> QED BY <1>1, TransmitServiceGood, TransmitIFrameGood DEF GenerateTxFrames

LEMMA PrepareTxGood ==
    ASSUME NEW local \in Address, NEW s \in Good(local)
    PROVE  PrepareTx(s) \in Good(local)
BY CheckTimeoutsGood, GenerateTxFramesGood DEF PrepareTx

LEMMA FinishTxGood ==
    ASSUME NEW local \in Address, NEW s \in Good(local)
    PROVE  FinishTx(s) \in Good(local)
BY DEF FinishTx, Good, Station, Slotted

LEMMA ElapseGood ==
    ASSUME NEW local \in Address, NEW s \in Good(local), NEW p \in Peers(local),
           NEW timer \in {"i", "frame"}
    PROVE  Elapse(s, p, timer) \in Good(local)
<1> DEFINE i == [s.peers[p] EXCEPT !.i_elapsed = TRUE]
           frame == [s.peers[p] EXCEPT !.frame_elapsed = TRUE]
<1>1. s.peers[p] \in PeerInfo /\ Cold(s.peers[p])
    BY DEF Good, Station
<1>2. ASSUME NEW peer \in {i, frame} PROVE [s EXCEPT !.peers[p] = peer] \in Good(local)
    <2>1. /\ peer \in PeerInfo
          /\ peer.control = s.peers[p].control
          /\ peer.sent_reject = s.peers[p].sent_reject
          /\ peer.state = s.peers[p].state
        BY <1>1, <1>2 DEF PeerInfo
    <2> QED BY <1>1, <2>1, ColdKept, ChangePeer DEF InSession
<1>3. Elapse(s, p, timer) \in {[s EXCEPT !.peers[p] = i], [s EXCEPT !.peers[p] = frame]}
    BY DEF Elapse, Good, Station
<1> QED BY <1>2, <1>3

===============================================================================
