----------------------------- MODULE FdLinkProofs -----------------------------
(***************************************************************************)
(* What holds of a link of two endpoints, for any window, any number of    *)
(* sequence numbers, packets, losses and retries.                          *)
(*                                                                         *)
(* The model keeps the sequence numbers of the code.  The proofs count the *)
(* packets instead: c of them are confirmed, Got(a) delivered, accepted[a] *)
(* accepted, and every number the code keeps, in a record, in a queue or   *)
(* in a frame on the line, is one of these counts modulo SeqMod.  The      *)
(* counts never lie so far apart that two of them could be confused.       *)
(*                                                                         *)
(* The order: counts and numbers; what one call makes of one endpoint; the *)
(* type of the link; one direction of it (Holds, OnWay, Acked, UpToDate);  *)
(* the inductive invariant LinkInv and what each action does to it; the    *)
(* theorems.                                                               *)
(***************************************************************************)
EXTENDS FdLink, TinyFdLemmas, Integers, SequenceTheorems

(* The frames an endpoint has in its service queue.                        *)
Waiting(s) == {s.s_queue.frames[i] : i \in Occupied(s.s_queue)}

AtMostOne(q) == \A i, j \in Occupied(q) : i = j

-------------------------------------------------------------------------------
(* Sequence numbers: absolute numbers taken modulo SeqMod.                 *)

LEMMA Division ==
    ASSUME NEW u \in Nat
    PROVE  /\ u % SeqMod \in 0 .. SeqMod - 1
           /\ u \div SeqMod \in Int
           /\ u = (u \div SeqMod) * SeqMod + (u % SeqMod)
<1>1. SeqMod \in Nat /\ SeqMod >= 2
    BY SeqModAssumption
<1>2. u % SeqMod \in 0 .. SeqMod - 1
    BY <1>1
<1>3. u \div SeqMod \in Int
    BY <1>1
<1>4. u = (u \div SeqMod) * SeqMod + (u % SeqMod)
    BY <1>1, SMTT(60)
<1> QED BY <1>2, <1>3, <1>4

LEMMA NoMultiple ==
    ASSUME NEW q \in Int, - SeqMod < q * SeqMod, q * SeqMod < SeqMod
    PROVE  q = 0
BY SeqModAssumption

LEMMA Remainder ==
    ASSUME NEW q \in Int, NEW r \in 0 .. SeqMod - 1
    PROVE  (q * SeqMod + r) % SeqMod = r
BY SeqModAssumption

LEMMA Subtraction ==
    ASSUME NEW p \in Int, NEW q \in Int, NEW r \in Int, NEW u, NEW v,
           u = p * SeqMod + r, v = q * SeqMod + r
    PROVE  u - v = (p - q) * SeqMod
BY SeqModAssumption

(* Two numbers less than SeqMod apart have different sequence numbers.     *)
LEMMA ModDistinct ==
    ASSUME NEW u \in Nat, NEW v \in Nat, u % SeqMod = v % SeqMod,
           u - v < SeqMod, v - u < SeqMod
    PROVE  u = v
<1> DEFINE p == u \div SeqMod
           q == v \div SeqMod
           r == u % SeqMod
<1>1. /\ u = p * SeqMod + r /\ v = q * SeqMod + r
      /\ p \in Int /\ q \in Int /\ r \in Int
    BY Division
<1> HIDE DEF p, q, r
<1>2. u - v = (p - q) * SeqMod
    BY <1>1, Subtraction
<1>3. p - q = 0
    BY <1>1, <1>2, NoMultiple, SeqModAssumption
<1> QED BY <1>1, <1>2, <1>3, SeqModAssumption

LEMMA ModSucc ==
    ASSUME NEW u \in Nat
    PROVE  (u + 1) % SeqMod = Succ(u % SeqMod)
<1> DEFINE p == u \div SeqMod
           r == u % SeqMod
<1>1. u = p * SeqMod + r /\ p \in Int /\ r \in 0 .. SeqMod - 1
    BY Division
<1> HIDE DEF p, r
<1>2. CASE r + 1 < SeqMod
    <2>1. u + 1 = p * SeqMod + (r + 1) /\ r + 1 \in 0 .. SeqMod - 1
        BY <1>1, <1>2, SeqModAssumption
    <2>2. (u + 1) % SeqMod = r + 1
        BY <1>1, <2>1, Remainder
    <2>3. (r + 1) % SeqMod = r + 1
        BY <1>1, <1>2, SeqModAssumption
    <2> QED BY <2>2, <2>3 DEF r, Succ
<1>3. CASE r + 1 = SeqMod
    <2>1. u + 1 = (p + 1) * SeqMod + 0 /\ p + 1 \in Int
        BY <1>1, <1>3, SeqModAssumption
    <2>2. r + 1 = 1 * SeqMod + 0 /\ 1 \in Int /\ 0 \in 0 .. SeqMod - 1
        BY <1>1, <1>3, SeqModAssumption
    <2>3. (u + 1) % SeqMod = 0
        BY <2>1, <2>2, Remainder
    <2>4. (r + 1) % SeqMod = 0
        BY <2>2, Remainder
    <2> QED BY <2>3, <2>4 DEF r, Succ
<1> QED BY <1>1, <1>2, <1>3, SeqModAssumption

(* Counting with Succ from one sequence number to a later one.             *)
LEMMA ModDistance ==
    ASSUME NEW c \in Nat, NEW v \in Nat, c <= v, v < c + SeqMod
    PROVE  Distance(c % SeqMod, v % SeqMod) = v - c
<1> DEFINE p == c \div SeqMod
           r == c % SeqMod
           d == v - c
<1>1. c = p * SeqMod + r /\ p \in Int /\ r \in 0 .. SeqMod - 1
    BY Division
<1>2. d \in 0 .. SeqMod - 1 /\ v = c + d
    BY SeqModAssumption
<1> HIDE DEF p, r, d
<1>3. CASE r + d < SeqMod
    <2>1. v = p * SeqMod + (r + d) /\ r + d \in 0 .. SeqMod - 1
        BY <1>1, <1>2, <1>3, SeqModAssumption
    <2>2. v % SeqMod = r + d
        BY <1>1, <2>1, Remainder
    <2> QED BY <1>1, <1>2, <2>2 DEF Distance, r, d
<1>4. CASE r + d >= SeqMod
    <2>1. /\ v = (p + 1) * SeqMod + (r + d - SeqMod) /\ p + 1 \in Int
          /\ r + d - SeqMod \in 0 .. SeqMod - 1
        BY <1>1, <1>2, <1>4, SeqModAssumption
    <2>2. v % SeqMod = r + d - SeqMod
        BY <2>1, Remainder
    <2>3. ~ (r <= r + d - SeqMod) /\ r + d - SeqMod + SeqMod - r = d
        BY <1>1, <1>2, SeqModAssumption
    <2> QED BY <2>2, <2>3 DEF Distance, r, d
<1> QED BY <1>1, <1>2, <1>3, <1>4, SeqModAssumption

(* The numbers that an N(R) for v confirms, when c is the oldest one.      *)
LEMMA ModConfirmed ==
    ASSUME NEW c \in Nat, NEW v \in Nat, NEW k \in Nat, NEW control,
           control.confirm_ns = c % SeqMod,
           c <= v, v < c + SeqMod, c <= k, k < c + SeqMod
    PROVE  k % SeqMod \in Confirmed(control, v % SeqMod) <=> k < v
<1>1. k % SeqMod \in SeqNum
    BY Division DEF SeqNum
<1>2. /\ Distance(c % SeqMod, k % SeqMod) = k - c
      /\ Distance(c % SeqMod, v % SeqMod) = v - c
    BY ModDistance
<1> QED BY <1>1, <1>2 DEF Confirmed

-------------------------------------------------------------------------------
(* An endpoint of a link: its one peer is peer 0, its one address field 1. *)

Addr == 1

LEMMA OnePeer ==
    ASSUME NEW n \in Node, NEW s \in Good(LocalAddr(n))
    PROVE  /\ LocalAddr(n) \in Address
           /\ Peers(LocalAddr(n)) = {0} /\ NumPeers(LocalAddr(n)) = 1
           /\ s \in Station(LocalAddr(n)) /\ s.local_addr = LocalAddr(n)
           /\ PeerToAddressField(s, 0) = Addr
           /\ AddressFieldToPeer(s, Addr) = {0}
           /\ s.peers[0] \in PeerInfo /\ DOMAIN s.peers = {0}
<1>1. LocalAddr(n) \in {0, 1} /\ NumPeers(LocalAddr(n)) = 1
    BY PointToPoint DEF LocalAddr, PrimaryAddr, NumPeers
<1>2. Peers(LocalAddr(n)) = {0}
    BY <1>1 DEF Peers
<1>3. s \in Station(LocalAddr(n))
    BY DEF Good
<1>4. s.local_addr = LocalAddr(n) /\ s.peers[0] \in PeerInfo /\ DOMAIN s.peers = {0}
    BY <1>2, <1>3 DEF Station
<1>5. PeerToAddressField(s, 0) = Addr
    BY <1>1, <1>4 DEF PeerToAddressField, PrimaryAddr, Addr
<1>6. AddressFieldToPeer(s, Addr) = {0}
    BY <1>1, <1>2, <1>4 DEF AddressFieldToPeer, PrimaryAddr, Addr
<1> QED BY <1>1, <1>2, <1>3, <1>4, <1>5, <1>6 DEF Address

LEMMA LowestZero == Lowest({0}) = 0
BY LowestMember

(* allocate fills one slot that was free.                                  *)
LEMMA AllocateFills ==
    ASSUME NEW n \in Nat \ {0}, NEW F, NEW q \in FrameQueueOf(n, F), NEW frame,
           HasFreeSlots(q)
    PROVE  \E i \in Slots(n) : /\ q.frames[i] = NoFrame
                               /\ Allocate(q, n, frame).frames = [q.frames EXCEPT ![i] = frame]
<1> DEFINE i == AllocationSlot(q, n)
<1>1. i \in FreeSlots(q) /\ i \in Slots(n)
    BY AllocationSlotIsFree
<1>2. Allocate(q, n, frame).frames = [q.frames EXCEPT ![i] = frame]
    BY DEF Allocate
<1> QED BY <1>1, <1>2 DEF FreeSlots

(* A frame for the service queue when that is empty.                       *)
LEMMA PutWaits ==
    ASSUME NEW n \in Node, NEW s \in Good(LocalAddr(n)), NEW frame \in ServiceFrame,
           Occupied(s.s_queue) = {}
    PROVE  LET t == PutSUFrame(s, frame)
           IN  /\ t.peers = s.peers /\ t.i_queue = s.i_queue /\ t.tx = s.tx
               /\ Waiting(t) = {frame} /\ AtMostOne(t.s_queue)
               /\ Occupied(t.s_queue) # {}
<1> DEFINE t == PutSUFrame(s, frame)
<1>1. s.s_queue \in FrameQueueOf(SQueueSize, ServiceFrame)
    BY OnePeer DEF Station
<1>2. HasFreeSlots(s.s_queue)
    <2>1. DOMAIN s.s_queue.frames = Slots(SQueueSize)
        BY <1>1 DEF FrameQueueOf
    <2>2. 0 \in Slots(SQueueSize)
        BY SQueueAssumption DEF Slots
    <2> QED BY <2>1, <2>2 DEF HasFreeSlots, FreeSlots, Occupied
<1>3. PICK i \in Slots(SQueueSize) :
          /\ s.s_queue.frames[i] = NoFrame
          /\ Allocate(s.s_queue, SQueueSize, frame).frames = [s.s_queue.frames EXCEPT ![i] = frame]
    <2>1. SQueueSize \in Nat \ {0}
        BY WindowType
    <2> DEFINE q == s.s_queue
    <2>2. q \in FrameQueueOf(SQueueSize, ServiceFrame) /\ HasFreeSlots(q)
        BY <1>1, <1>2
    <2> HIDE DEF q
    <2>3. \E i \in Slots(SQueueSize) :
              /\ q.frames[i] = NoFrame
              /\ Allocate(q, SQueueSize, frame).frames = [q.frames EXCEPT ![i] = frame]
        BY <2>1, <2>2, AllocateFills
    <2> QED BY <2>3 DEF q
<1>4. /\ t.peers = s.peers /\ t.i_queue = s.i_queue /\ t.tx = s.tx
      /\ t.s_queue.frames = [s.s_queue.frames EXCEPT ![i] = frame]
    BY <1>2, <1>3, OnePeer DEF PutSUFrame, Station
<1>5. frame # NoFrame
    BY NoFrameAssumption DEF SentFrame
<1>6. \A j \in DOMAIN s.s_queue.frames : s.s_queue.frames[j] = NoFrame
    BY DEF Occupied
<1> HIDE DEF t
<1>7. Occupied(t.s_queue) = {i} /\ t.s_queue.frames[i] = frame
    BY <1>1, <1>4, <1>5, <1>6 DEF Occupied, FrameQueueOf
<1>8. Waiting(t) = {frame}
    BY <1>7 DEF Waiting
<1> QED BY <1>4, <1>7, <1>8 DEF AtMostOne, t

(* A SABM or a UA opens the connection of an end that had none.            *)
LEMMA HelloConnects ==
    ASSUME NEW n \in Node, NEW s \in Good(LocalAddr(n)), Occupied(s.s_queue) = {},
           s.peers[0].state \in {"Disconnected", "Connecting"},
           s.peers[0].control = ResetControl,
           NEW f \in Frame, f.addr = Addr,
           \/ f.type = "SABM"
           \/ f.type = "UA" /\ s.peers[0].state = "Connecting"
    PROVE  LET t == OnFrameReceived(s, f)
           IN  /\ t.peers[0].state = "Connected" /\ t.peers[0].control = ResetControl
               /\ t.peers[0].retries = Retries /\ ~ t.peers[0].i_elapsed
               /\ t.i_queue = s.i_queue /\ t.tx = s.tx
               /\ AtMostOne(t.s_queue)
               /\ f.type = "UA" => Occupied(t.s_queue) = {}
               /\ f.type = "SABM" => Waiting(t) = {UFrame("UA", Addr)}
<1> DEFINE t == OnFrameReceived(s, f)
           u == IF f.type = "SABM" THEN PutUFrame(s, 0, "UA") ELSE s
           peer == [ResetConnection(s.peers[0]) EXCEPT
                        !.state = "Connected", !.retries = Retries, !.i_elapsed = FALSE]
<1>1. t = SwitchToConnected(u, 0)
    BY OnePeer, LowestZero DEF OnFrameReceived, ReceiveFromPeer, OnUFrameReceived, UType
<1>2. /\ u \in Good(LocalAddr(n))
      /\ u.peers = s.peers /\ u.i_queue = s.i_queue /\ u.tx = s.tx
      /\ AtMostOne(u.s_queue)
      /\ f.type = "UA" => Occupied(u.s_queue) = {}
      /\ f.type = "SABM" => Waiting(u) = {UFrame("UA", Addr)}
    <2>1. CASE f.type = "SABM"
        <3>1. UFrame("UA", Addr) \in ServiceFrame
            BY FrameTypes, SeqModAssumption DEF UType, Addr, Address, SeqNum
        <3>2. u = PutSUFrame(s, UFrame("UA", Addr))
            BY <2>1, OnePeer DEF PutUFrame
        <3>3. u \in Good(LocalAddr(n))
            BY <3>1, <3>2, PutSUFrameGood, OnePeer
        <3> QED BY <2>1, <3>1, <3>2, <3>3, PutWaits
    <2>2. CASE f.type # "SABM"
        BY <2>2 DEF AtMostOne
    <2> QED BY <2>1, <2>2
<1> HIDE DEF u, t
<1>3. /\ peer.state = "Connected" /\ peer.control = ResetControl
      /\ peer.retries = Retries /\ ~ peer.i_elapsed
    BY OnePeer DEF ResetConnection, PeerInfo
<1>4. SwitchToConnected(u, 0) =
          OfferFreeSlots([u EXCEPT !.peers[0] = peer, !.events = @ \cup {"TX_DATA_AVAILABLE"}])
    BY <1>2 DEF SwitchToConnected
<1> HIDE DEF peer
<1>5. /\ t.peers[0] = peer /\ t.i_queue = u.i_queue /\ t.s_queue = u.s_queue /\ t.tx = u.tx
    <2> DEFINE v == [u EXCEPT !.peers[0] = peer, !.events = @ \cup {"TX_DATA_AVAILABLE"}]
    <2>1. u \in Station(LocalAddr(n)) /\ 0 \in DOMAIN u.peers
        BY <1>2, OnePeer
    <2>2. /\ v.peers[0] = peer /\ v.i_queue = u.i_queue /\ v.s_queue = u.s_queue
          /\ v.tx = u.tx
        BY <2>1 DEF Station
    <2>3. DOMAIN v = {"local_addr", "peers", "i_queue", "s_queue", "events", "tx"}
        <3>1. DOMAIN u = {"local_addr", "peers", "i_queue", "s_queue", "events", "tx"}
            BY <2>1 DEF Station
        <3> QED BY <3>1
    <2> HIDE DEF v
    <2>4. t \in {v, [v EXCEPT !.events = @ \cup {"QUEUE_HAS_FREE_SLOTS"}]}
        BY <1>1, <1>4 DEF OfferFreeSlots, v
    <2> QED BY <2>2, <2>3, <2>4
<1>6. Waiting(t) = Waiting(u)
    BY <1>5 DEF Waiting
<1> QED BY <1>2, <1>3, <1>5, <1>6 DEF t

(* In a connection a SABM is answered and a UA ignored.                    *)
LEMMA HelloAnswered ==
    ASSUME NEW n \in Node, NEW s \in Good(LocalAddr(n)), Occupied(s.s_queue) = {},
           s.peers[0].state = "Connected",
           NEW f \in Frame, f.addr = Addr, f.type \in {"SABM", "UA"}
    PROVE  LET t == OnFrameReceived(s, f)
           IN  /\ t.peers = s.peers /\ t.i_queue = s.i_queue /\ t.tx = s.tx
               /\ AtMostOne(t.s_queue)
               /\ f.type = "UA" => Occupied(t.s_queue) = {}
               /\ f.type = "SABM" => Waiting(t) = {UFrame("UA", Addr)}
<1> DEFINE t == OnFrameReceived(s, f)
<1>1. CASE f.type = "SABM"
    <2>1. t = PutSUFrame(s, UFrame("UA", Addr))
        <3>1. UFrame("UA", Addr) \in ServiceFrame
            BY FrameTypes, SeqModAssumption DEF UType, Addr, Address, SeqNum
        <3>2. PutSUFrame(s, UFrame("UA", Addr)).peers = s.peers
            BY <3>1, PutWaits
        <3>3. t = SwitchToConnected(PutSUFrame(s, UFrame("UA", Addr)), 0)
            BY <1>1, OnePeer, LowestZero
               DEF OnFrameReceived, ReceiveFromPeer, OnUFrameReceived, UType, PutUFrame
        <3> QED BY <3>2, <3>3 DEF SwitchToConnected
    <2>2. UFrame("UA", Addr) \in ServiceFrame
        BY FrameTypes, SeqModAssumption DEF UType, Addr, Address, SeqNum
    <2> HIDE DEF t
    <2>3. /\ t.peers = s.peers /\ t.i_queue = s.i_queue /\ t.tx = s.tx
          /\ Waiting(t) = {UFrame("UA", Addr)} /\ AtMostOne(t.s_queue)
        BY <2>1, <2>2, PutWaits
    <2> QED BY <1>1, <2>3 DEF t
<1>2. CASE f.type = "UA"
    <2>1. t = s
        BY <1>2, OnePeer, LowestZero
           DEF OnFrameReceived, ReceiveFromPeer, OnUFrameReceived, UType
    <2> QED BY <1>2, <2>1 DEF AtMostOne
<1> QED BY <1>1, <1>2
-------------------------------------------------------------------------------
(* The shape of a link, with any losses, disconnects and timing.           *)

ShapeInv ==
    /\ DOMAIN st = Node /\ \A n \in Node : st[n] \in Good(LocalAddr(n))
    /\ line \in [Node -> Seq(SentFrame)]
    /\ accepted \in [Node -> Nat]
    /\ delivered \in [Node -> Seq(Payload)]
    /\ dropped \in [Node -> SUBSET Payload]

LEMMA NodeType ==
    ASSUME NEW n \in Node
    PROVE  /\ LocalAddr(n) \in Address
           /\ Peer(n) \in Node /\ Peer(n) # n /\ Peer(Peer(n)) = n
           /\ \A m \in Node : m = n \/ m = Peer(n)
BY DEF Node, Primary, Secondary, Peer, LocalAddr, PrimaryAddr, Address

LEMMA SentIsFrame == SentFrame \subseteq Frame
BY DEF SentFrame, DataFrame, ServiceFrame, Frame, UType, SType

LEMMA QueuedType ==
    ASSUME NEW local \in Address, NEW s \in Good(local)
    PROVE  Queued(s) \subseteq Payload
BY DEF Good, Station, FrameQueueOf, Occupied, Queued, DataFrame

(* A call on one endpoint whose outcome is good.                           *)
LEMMA BecomesShape ==
    ASSUME ShapeInv, NEW n \in Node, NEW after \in Good(LocalAddr(n)), Becomes(n, after)
    PROVE  /\ DOMAIN st' = Node /\ \A m \in Node : st'[m] \in Good(LocalAddr(m))
           /\ st'[n] = after /\ st'[Peer(n)] = st[Peer(n)]
           /\ dropped' \in [Node -> SUBSET Payload]
<1>1. /\ DOMAIN st' = Node
      /\ \A m \in Node : st'[m] = IF m = n THEN after ELSE st[m]
    BY DEF ShapeInv, Becomes
<1>2. Purged(n, after) \subseteq Payload
    BY NodeType, QueuedType DEF Purged, ShapeInv
<1>3. dropped' \in [Node -> SUBSET Payload]
    BY <1>2 DEF ShapeInv, Becomes
<1> QED BY <1>1, <1>3, NodeType DEF ShapeInv

LEMMA InitShape == Init => ShapeInv
<1> SUFFICES ASSUME Init PROVE ShapeInv
    OBVIOUS
<1>1. \A n \in Node : NewStation(LocalAddr(n)) \in Good(LocalAddr(n))
    BY NodeType, NewStationGood
<1> QED BY <1>1 DEF Init, ShapeInv

LEMMA SendShape ==
    ASSUME ShapeInv, NEW n \in Node, SendPacketOf(n)
    PROVE  ShapeInv' /\ st'[n] = SendPacket(st[n], 0, accepted[n] + 1)
           /\ st'[Peer(n)] = st[Peer(n)]
<1> DEFINE data == accepted[n] + 1
           after == SendPacket(st[n], 0, data)
<1>1. data \in Payload
    <2>1. accepted[n] \in Nat /\ MaxSend[n] \in Nat /\ accepted[n] < MaxSend[n]
        BY BudgetAssumption DEF ShapeInv, SendPacketOf
    <2>2. data \in 1 .. MaxSend[n]
        BY <2>1
    <2> QED BY <2>2, PayloadAssumption
<1>2. LocalAddr(n) \in Address /\ 0 \in Peers(LocalAddr(n)) /\ st[n] \in Good(LocalAddr(n))
    BY NodeType, PeersType DEF ShapeInv
<1> HIDE DEF data
<1>3. after \in Good(LocalAddr(n))
    BY <1>1, <1>2, SendPacketGood
<1>4. st' = [st EXCEPT ![n] = after]
    BY DEF SendPacketOf, data
<1> HIDE DEF after
<1>5. /\ DOMAIN st' = Node
      /\ \A m \in Node : st'[m] = IF m = n THEN after ELSE st[m]
    BY <1>4 DEF ShapeInv
<1>6. ShapeInv'
    BY <1>3, <1>5 DEF ShapeInv, SendPacketOf
<1> QED BY <1>5, <1>6, NodeType DEF after, data

LEMMA DisconnectShape ==
    ASSUME ShapeInv, NEW n \in Node, DisconnectOf(n)
    PROVE  ShapeInv'
<1>1. Disconnect(st[n]) \in Good(LocalAddr(n))
    BY NodeType, DisconnectGood DEF ShapeInv
<1> QED BY <1>1 DEF ShapeInv, DisconnectOf

LEMMA ReceiveShape ==
    ASSUME ShapeInv, NEW n \in Node, Receive(n)
    PROVE  ShapeInv' /\ st'[n] = OnFrameReceived(st[n], Head(line[n]))
           /\ st'[Peer(n)] = st[Peer(n)]
<1> DEFINE frame == Head(line[n])
           after == OnFrameReceived(st[n], frame)
<1>1. line[n] \in Seq(SentFrame) /\ line[n] # <<>> /\ line' = [line EXCEPT ![n] = Tail(line[n])]
    BY DEF ShapeInv, Receive, TakeFrame
<1>2. frame \in SentFrame /\ Tail(line[n]) \in Seq(SentFrame)
    BY <1>1
<1>3. after \in Good(LocalAddr(n))
    BY <1>2, NodeType, SentIsFrame, OnFrameReceivedGood DEF ShapeInv
<1>4. Becomes(n, after)
    BY DEF Receive
<1>5. Delivers(st[n], frame) => frame.data \in Payload
    BY <1>2 DEF Delivers, SentFrame, DataFrame, ServiceFrame, UType, SType
<1>6. delivered' = [delivered EXCEPT ![n] = IF Delivers(st[n], frame)
                                            THEN Append(delivered[n], frame.data)
                                            ELSE delivered[n]]
    BY DEF Receive
<1> HIDE DEF frame, after
<1>7. delivered' \in [Node -> Seq(Payload)]
    BY <1>5, <1>6 DEF ShapeInv
<1>8. line' \in [Node -> Seq(SentFrame)]
    BY <1>1, <1>2 DEF ShapeInv
<1>9. ShapeInv'
    BY <1>3, <1>4, <1>7, <1>8, BecomesShape DEF ShapeInv, Receive
<1> QED BY <1>3, <1>4, <1>9, BecomesShape DEF after, frame

LEMMA TransmitShape ==
    ASSUME ShapeInv, NEW n \in Node, Transmit(n)
    PROVE  LET ready == GenerateTxFrames(CheckTimeouts(st[n]))
           IN  /\ ShapeInv' /\ ready \in Good(LocalAddr(n))
               /\ st'[n] = FinishTx(ready) /\ st'[Peer(n)] = st[Peer(n)]
               /\ line' = IF ready.tx = NoFrame
                          THEN line
                          ELSE [line EXCEPT ![Peer(n)] = Append(line[Peer(n)], ready.tx)]
<1> DEFINE ready == GenerateTxFrames(CheckTimeouts(st[n]))
           after == FinishTx(ready)
<1>1. ready \in Good(LocalAddr(n))
    BY NodeType, CheckTimeoutsGood, GenerateTxFramesGood DEF ShapeInv
<1>2. /\ Becomes(n, after)
      /\ line' = IF ready.tx = NoFrame
                 THEN line
                 ELSE [line EXCEPT ![Peer(n)] = Append(line[Peer(n)], ready.tx)]
    BY DEF Transmit
<1> HIDE DEF ready
<1>3. after \in Good(LocalAddr(n))
    BY <1>1, NodeType, FinishTxGood
<1>4. ready.tx # NoFrame => ready.tx \in SentFrame
    BY <1>1 DEF Good, Station
<1>5. line' \in [Node -> Seq(SentFrame)]
    BY <1>2, <1>4, NodeType DEF ShapeInv
<1> HIDE DEF after
<1>6. ShapeInv'
    BY <1>2, <1>3, <1>5, BecomesShape DEF ShapeInv, Transmit
<1>7. st'[n] = after /\ st'[Peer(n)] = st[Peer(n)]
    BY <1>2, <1>3, BecomesShape
<1> QED BY <1>1, <1>2, <1>6, <1>7 DEF ready, after

LEMMA TimeShape ==
    ASSUME ShapeInv, NEW n \in Node, NEW timer \in {"i", "frame"}, TimeElapses(n, timer)
    PROVE  ShapeInv' /\ st'[n] = Elapse(st[n], 0, timer) /\ st'[Peer(n)] = st[Peer(n)]
<1>1. Elapse(st[n], 0, timer) \in Good(LocalAddr(n))
    BY NodeType, PeersType, ElapseGood DEF ShapeInv
<1>2. /\ DOMAIN st' = Node
      /\ \A m \in Node : st'[m] = IF m = n THEN Elapse(st[n], 0, timer) ELSE st[m]
    BY DEF ShapeInv, TimeElapses
<1> QED BY <1>1, <1>2, NodeType DEF ShapeInv, TimeElapses

LEMMA LoseShape ==
    ASSUME ShapeInv, NEW n \in Node, Lose(n)
    PROVE  ShapeInv'
BY DEF ShapeInv, Lose

LEMMA NextShape == ShapeInv /\ [Next]_vars => ShapeInv'
<1> SUFFICES ASSUME ShapeInv, [Next]_vars PROVE ShapeInv'
    OBVIOUS
<1>1. CASE UNCHANGED vars
    BY <1>1 DEF vars, ShapeInv
<1> QED BY <1>1, SendShape, DisconnectShape, ReceiveShape, TransmitShape, TimeShape, LoseShape
    DEF Next

LEMMA AlwaysShape == Spec => []ShapeInv
BY InitShape, NextShape, PTL DEF Spec

(* Whatever is lost, whoever disconnects and when: an endpoint keeps its   *)
(* shape, the line carries frames an endpoint knows, and an application    *)
(* gets payloads only.                                                     *)
THEOREM TypeCorrect == Spec => []TypeOK
<1>1. ShapeInv => TypeOK
    BY DEF ShapeInv, TypeOK, Good
<1> QED BY <1>1, AlwaysShape, PTL

-------------------------------------------------------------------------------
(* One direction of the link in a connection.  The packets up to c are     *)
(* confirmed, those up to got delivered, those up to sent accepted.        *)

(* The I-frame queue holds the packets that are not confirmed, each once   *)
(* and under its number.                                                   *)
Holds(q, c, sent) ==
    /\ \A i \in Occupied(q) :
          /\ q.frames[i].addr = Addr
          /\ q.frames[i].data \in c + 1 .. sent
          /\ q.frames[i].ns = (q.frames[i].data - 1) % SeqMod
    /\ \A d \in c + 1 .. sent : \E i \in Occupied(q) : q.frames[i].data = d
    /\ \A i, j \in Occupied(q) : q.frames[i].data = q.frames[j].data => i = j

(* An I-frame on its way is not so old that its number would be taken for  *)
(* a later one, neither now nor after the frames before it have arrived.   *)
OnWay(way, sent, got) ==
    \A i \in 1 .. Len(way) : way[i].type = "I" =>
        /\ way[i].data \in 1 .. sent
        /\ way[i].ns = (way[i].data - 1) % SeqMod
        /\ got < way[i].data + (SeqMod - 1)
        /\ \A j \in 1 .. i - 1 :
              way[j].type = "I" => way[j].data < way[i].data + (SeqMod - 1)

(* Frames that open the connection: their N(R) is not looked at.           *)
Hello == {"SABM", "UA"}

(* The N(R) on their way back stand for numbers that never go down, from   *)
(* what is confirmed to what is delivered.                                 *)
Acked(back, c, got) ==
    \E v \in [1 .. Len(back) -> c .. got] :
        /\ \A i \in 1 .. Len(back) : back[i].type \notin Hello => back[i].nr = v[i] % SeqMod
        /\ \A i, j \in 1 .. Len(back) : i <= j => v[i] <= v[j]

(* An answer that waits in the service queue is up to date.                *)
UpToDate(waiting, got) == \A f \in waiting : f.type \notin Hello => f.nr = got % SeqMod

(* What is in a slot of the I-frame queue.                                 *)
LEMMA SlotType ==
    ASSUME NEW q \in FrameQueueOf(Window, DataFrame), NEW i \in Occupied(q)
    PROVE  i \in Nat /\ i \in Slots(Window) /\ q.frames[i] \in DataFrame /\ q.frames[i].type = "I"
BY WindowType DEF FrameQueueOf, Occupied, Slots, DataFrame

LEMMA HoldsMore ==
    ASSUME NEW q \in FrameQueueOf(Window, DataFrame), HasFreeSlots(q),
           NEW c \in Nat, NEW sent \in Nat, c <= sent, Holds(q, c, sent),
           NEW frame \in DataFrame, frame.addr = Addr, frame.data = sent + 1,
           frame.ns = sent % SeqMod
    PROVE  Holds(Allocate(q, Window, frame), c, sent + 1)
<1> DEFINE t == Allocate(q, Window, frame)
<1>1. PICK i \in Slots(Window) :
          q.frames[i] = NoFrame /\ t.frames = [q.frames EXCEPT ![i] = frame]
    BY WindowType, AllocateFills
<1>2. frame # NoFrame /\ DOMAIN q.frames = Slots(Window)
    BY NoFrameAssumption DEF SentFrame, FrameQueueOf
<1> HIDE DEF t
<1>3. /\ Occupied(t) = Occupied(q) \cup {i} /\ i \notin Occupied(q)
      /\ t.frames[i] = frame
      /\ \A j \in Occupied(q) : t.frames[j] = q.frames[j]
    BY <1>1, <1>2 DEF Occupied
<1>4. \A j \in Occupied(q) : q.frames[j].data \in c + 1 .. sent
    BY DEF Holds
<1>5. \A j \in Occupied(t) :
          /\ t.frames[j].addr = Addr
          /\ t.frames[j].data \in c + 1 .. sent + 1
          /\ t.frames[j].ns = (t.frames[j].data - 1) % SeqMod
    <2>1. frame.data - 1 = sent
        OBVIOUS
    <2>2. /\ t.frames[i].addr = Addr /\ t.frames[i].data \in c + 1 .. sent + 1
          /\ t.frames[i].ns = (t.frames[i].data - 1) % SeqMod
        BY <1>3, <2>1
    <2>3. c + 1 .. sent \subseteq c + 1 .. sent + 1
        OBVIOUS
    <2> QED BY <1>3, <2>2, <2>3 DEF Holds
<1>6. \A d \in c + 1 .. sent + 1 : \E j \in Occupied(t) : t.frames[j].data = d
    BY <1>3 DEF Holds
<1>7. \A j, k \in Occupied(t) : t.frames[j].data = t.frames[k].data => j = k
    BY <1>3, <1>4 DEF Holds
<1> QED BY <1>5, <1>6, <1>7 DEF Holds, t

(* A number of the window belongs to one slot at most.                     *)
LEMMA HoldsOne ==
    ASSUME NEW q \in FrameQueueOf(Window, DataFrame),
           NEW c \in Nat, NEW sent \in Nat, sent <= c + (SeqMod - 1), Holds(q, c, sent),
           NEW i \in Occupied(q)
    PROVE  Matching(q, Addr, q.frames[i].ns) = {i}
<1>1. ASSUME NEW j \in Occupied(q), q.frames[j].ns = q.frames[i].ns PROVE j = i
    <2>1. /\ q.frames[i].data \in c + 1 .. sent /\ q.frames[j].data \in c + 1 .. sent
          /\ q.frames[i].ns = (q.frames[i].data - 1) % SeqMod
          /\ q.frames[j].ns = (q.frames[j].data - 1) % SeqMod
        BY DEF Holds
    <2> DEFINE u == q.frames[i].data - 1
               v == q.frames[j].data - 1
    <2>2. u \in Nat /\ v \in Nat /\ u - v < SeqMod /\ v - u < SeqMod
        BY <2>1, SeqModAssumption
    <2>3. u = v
        <3>1. u % SeqMod = v % SeqMod
            BY <1>1, <2>1
        <3> HIDE DEF u, v
        <3> QED BY <2>2, <3>1, ModDistinct
    <2>4. q.frames[j].data = q.frames[i].data
        BY <2>1, <2>3
    <2> QED BY <2>4 DEF Holds
<1> QED BY <1>1, SlotType DEF Matching, Holds

(* The frame to transmit next is there.                                    *)
LEMMA HoldsNext ==
    ASSUME NEW q \in FrameQueueOf(Window, DataFrame),
           NEW c \in Nat, NEW sent \in Nat, Holds(q, c, sent),
           NEW d \in Nat, c <= d, d < sent
    PROVE  Matching(q, Addr, d % SeqMod) # {}
<1>1. d + 1 \in c + 1 .. sent /\ d + 1 - 1 = d
    OBVIOUS
<1>2. PICK i \in Occupied(q) : q.frames[i].data = d + 1
    BY <1>1 DEF Holds
<1>3. q.frames[i].ns = d % SeqMod /\ q.frames[i].addr = Addr
    BY <1>1, <1>2 DEF Holds
<1> QED BY <1>2, <1>3, SlotType DEF Matching

(* A confirmation for v frees the slots of the packets up to v, no other.  *)
LEMMA HoldsLess ==
    ASSUME NEW q \in FrameQueueOf(Window, DataFrame),
           NEW c \in Nat, NEW sent \in Nat, sent <= c + (SeqMod - 1), Holds(q, c, sent),
           NEW v \in c .. sent, NEW control, control.confirm_ns = c % SeqMod
    PROVE  Holds(FreeByNs(q, Addr, Confirmed(control, v % SeqMod)), v, sent)
<1> DEFINE seqs == Confirmed(control, v % SeqMod)
           M(ns) == Matching(q, Addr, ns)
           freed == {Lowest(M(ns)) : ns \in {n \in seqs : M(n) # {}}}
           t == FreeByNs(q, Addr, seqs)
<1>1. \A i \in Occupied(q) : q.frames[i].ns \in seqs <=> q.frames[i].data <= v
    <2> TAKE i \in Occupied(q)
    <2> DEFINE k == q.frames[i].data - 1
    <2>1. q.frames[i].data \in c + 1 .. sent /\ q.frames[i].ns = k % SeqMod
        BY DEF Holds
    <2>2. /\ k \in Nat /\ c <= k /\ k < c + SeqMod
          /\ v \in Nat /\ c <= v /\ v < c + SeqMod
          /\ k < v <=> q.frames[i].data <= v
        BY <2>1, SeqModAssumption
    <2> HIDE DEF k
    <2> QED BY <2>1, <2>2, ModConfirmed
<1>2. \A i \in Occupied(q) : i \in freed <=> q.frames[i].ns \in seqs
    <2> TAKE i \in Occupied(q)
    <2>1. M(q.frames[i].ns) = {i} /\ i \in Nat
        BY HoldsOne, SlotType
    <2>2. ASSUME q.frames[i].ns \in seqs PROVE i \in freed
        <3>1. Lowest({i}) = i
            BY <2>1, LowestMember
        <3> QED BY <2>1, <2>2, <3>1
    <2>3. ASSUME i \in freed PROVE q.frames[i].ns \in seqs
        <3>1. PICK ns \in seqs : M(ns) # {} /\ i = Lowest(M(ns))
            BY <2>3
        <3>2. M(ns) \in SUBSET Nat
            BY SlotType DEF Matching
        <3>3. i \in M(ns)
            BY <3>1, <3>2, LowestMember
        <3> QED BY <3>1, <3>3 DEF Matching
    <2> QED BY <2>2, <2>3
<1>3. t.frames = [i \in DOMAIN q.frames |-> IF i \in freed THEN NoFrame ELSE q.frames[i]]
    BY DEF FreeByNs, FrameQueueOf
<1> HIDE DEF freed, seqs, t
<1>4. /\ Occupied(t) = {i \in Occupied(q) : q.frames[i].data > v}
      /\ \A i \in Occupied(t) : t.frames[i] = q.frames[i]
    <2>1. \A i \in Occupied(q) : q.frames[i].data \in c + 1 .. sent
        BY DEF Holds
    <2>2. \A i \in Occupied(q) : i \in freed <=> ~ (q.frames[i].data > v)
        BY <1>1, <1>2, <2>1
    <2> QED BY <1>3, <2>2 DEF Occupied
<1> QED BY <1>4 DEF Holds, t, seqs

LEMMA TailIndex ==
    ASSUME NEW way \in Seq(SentFrame), way # <<>>
    PROVE  /\ Tail(way) \in Seq(SentFrame) /\ Head(way) \in SentFrame /\ Head(way) = way[1]
           /\ Len(way) \in Nat /\ 1 \in 1 .. Len(way) /\ Len(Tail(way)) = Len(way) - 1
           /\ \A i \in 1 .. Len(Tail(way)) :
                 i \in Nat /\ i + 1 \in 1 .. Len(way) /\ Tail(way)[i] = way[i + 1]
BY HeadTailProperties, LenProperties, EmptySeq

LEMMA AppendIndex ==
    ASSUME NEW way \in Seq(SentFrame), NEW f \in SentFrame
    PROVE  /\ Append(way, f) \in Seq(SentFrame) /\ Append(way, f) # <<>>
           /\ Len(way) \in Nat /\ Len(Append(way, f)) = Len(way) + 1
           /\ 1 .. Len(Append(way, f)) = 1 .. Len(way) \cup {Len(way) + 1}
           /\ Append(way, f)[Len(way) + 1] = f
           /\ \A i \in 1 .. Len(way) : i \in Nat /\ Append(way, f)[i] = way[i]
BY AppendProperties, LenProperties

(* The frame that arrives and those that stay on the way.                  *)
LEMMA WayTail ==
    ASSUME NEW way \in Seq(SentFrame), way # <<>>, NEW sent \in Nat, NEW got \in Nat,
           OnWay(way, sent, got)
    PROVE  /\ OnWay(Tail(way), sent, got)
           /\ Head(way).type = "I" /\ Head(way).data = got + 1 => OnWay(Tail(way), sent, got + 1)
<1>1. \A i \in 1 .. Len(Tail(way)) : Tail(way)[i].type = "I" =>
          /\ Tail(way)[i].data \in 1 .. sent
          /\ Tail(way)[i].ns = (Tail(way)[i].data - 1) % SeqMod
          /\ got < Tail(way)[i].data + (SeqMod - 1)
          /\ \A j \in 1 .. i - 1 :
                Tail(way)[j].type = "I" => Tail(way)[j].data < Tail(way)[i].data + (SeqMod - 1)
          /\ Head(way).type = "I" => Head(way).data < Tail(way)[i].data + (SeqMod - 1)
    <2> SUFFICES ASSUME NEW i \in 1 .. Len(Tail(way)), Tail(way)[i].type = "I"
                 PROVE  /\ Tail(way)[i].data \in 1 .. sent
                        /\ Tail(way)[i].ns = (Tail(way)[i].data - 1) % SeqMod
                        /\ got < Tail(way)[i].data + (SeqMod - 1)
                        /\ \A j \in 1 .. i - 1 :
                              Tail(way)[j].type = "I" =>
                                  Tail(way)[j].data < Tail(way)[i].data + (SeqMod - 1)
                        /\ Head(way).type = "I" =>
                              Head(way).data < Tail(way)[i].data + (SeqMod - 1)
        OBVIOUS
    <2>1. i \in Nat /\ i + 1 \in 1 .. Len(way) /\ Tail(way)[i] = way[i + 1] /\ Head(way) = way[1]
        BY TailIndex
    <2>2. /\ way[i + 1].data \in 1 .. sent
          /\ way[i + 1].ns = (way[i + 1].data - 1) % SeqMod
          /\ got < way[i + 1].data + (SeqMod - 1)
          /\ \A j \in 1 .. i + 1 - 1 :
                way[j].type = "I" => way[j].data < way[i + 1].data + (SeqMod - 1)
        BY <2>1 DEF OnWay
    <2>3. 1 \in 1 .. i + 1 - 1
        BY <2>1
    <2>4. \A j \in 1 .. i - 1 : j + 1 \in 1 .. i + 1 - 1 /\ Tail(way)[j] = way[j + 1]
        BY <2>1, TailIndex
    <2> QED BY <2>1, <2>2, <2>3, <2>4
<1>2. OnWay(Tail(way), sent, got)
    BY <1>1 DEF OnWay
<1>3. ASSUME Head(way).type = "I", Head(way).data = got + 1
      PROVE  OnWay(Tail(way), sent, got + 1)
    BY <1>1, <1>3 DEF OnWay
<1> QED BY <1>2, <1>3

LEMMA WayAppend ==
    ASSUME NEW way \in Seq(SentFrame), NEW sent \in Nat, NEW got \in Nat, got <= sent,
           OnWay(way, sent, got), NEW f \in SentFrame,
           f.type = "I" => /\ f.data \in 1 .. sent
                           /\ f.ns = (f.data - 1) % SeqMod
                           /\ sent < f.data + (SeqMod - 1)
    PROVE  OnWay(Append(way, f), sent, got)
<1> DEFINE n == Len(way)
           new == Append(way, f)
<1>1. \A i \in 1 .. n : new[i].type = "I" =>
          /\ new[i].data \in 1 .. sent
          /\ new[i].ns = (new[i].data - 1) % SeqMod
          /\ got < new[i].data + (SeqMod - 1)
          /\ \A j \in 1 .. i - 1 : new[j].type = "I" => new[j].data < new[i].data + (SeqMod - 1)
    <2> TAKE i \in 1 .. n
    <2>1. new[i] = way[i] /\ \A j \in 1 .. i - 1 : new[j] = way[j]
        BY AppendIndex
    <2> HIDE DEF new
    <2> QED BY <2>1 DEF OnWay
<1>2. f.type = "I" =>
          /\ f.data \in 1 .. sent
          /\ f.ns = (f.data - 1) % SeqMod
          /\ got < f.data + (SeqMod - 1)
          /\ \A j \in 1 .. n : new[j].type = "I" => new[j].data < f.data + (SeqMod - 1)
    <2>1. \A j \in 1 .. n : new[j].type = "I" => new[j].data \in 1 .. sent
        BY <1>1
    <2> HIDE DEF new, n
    <2> QED BY <2>1, SeqModAssumption
<1>3. n \in Nat /\ 1 .. Len(new) = 1 .. n \cup {n + 1} /\ new[n + 1] = f /\ n + 1 - 1 = n
    BY AppendIndex
<1> HIDE DEF new, n
<1>4. OnWay(new, sent, got)
    <2> SUFFICES ASSUME NEW i \in 1 .. Len(new), new[i].type = "I"
                 PROVE  /\ new[i].data \in 1 .. sent
                        /\ new[i].ns = (new[i].data - 1) % SeqMod
                        /\ got < new[i].data + (SeqMod - 1)
                        /\ \A j \in 1 .. i - 1 :
                              new[j].type = "I" => new[j].data < new[i].data + (SeqMod - 1)
        BY DEF OnWay
    <2>1. CASE i \in 1 .. n
        BY <1>1, <2>1
    <2>2. CASE i = n + 1
        BY <1>2, <1>3, <2>2
    <2> QED BY <1>3, <2>1, <2>2
<1> QED BY <1>4 DEF new

(* An N(S) tells the packet that is due from any other that may arrive.    *)
LEMMA WayHead ==
    ASSUME NEW way \in Seq(SentFrame), way # <<>>,
           NEW c \in Nat, NEW got \in Nat, NEW sent \in Nat,
           c <= got, got <= sent, sent <= c + (SeqMod - 1),
           OnWay(way, sent, got), Head(way).type = "I"
    PROVE  Head(way).ns = got % SeqMod <=> Head(way).data = got + 1
<1> DEFINE d == Head(way).data
           k == d - 1
<1>1. d \in 1 .. sent /\ Head(way).ns = k % SeqMod /\ got < d + (SeqMod - 1)
    BY TailIndex DEF OnWay
<1> HIDE DEF d
<1>2. k \in Nat /\ k - got < SeqMod /\ got - k < SeqMod
    <2>1. d \in Nat /\ 1 <= d /\ d <= sent /\ got < d + (SeqMod - 1)
        BY <1>1
    <2> QED BY <2>1, SeqModAssumption
<1>3. k = got <=> d = got + 1
    BY <1>1
<1> HIDE DEF k
<1>4. k % SeqMod = got % SeqMod => k = got
    BY <1>2, ModDistinct
<1> QED BY <1>1, <1>3, <1>4 DEF d

LEMMA AckedTail ==
    ASSUME NEW back \in Seq(SentFrame), back # <<>>, NEW c \in Nat, NEW got \in Nat,
           Acked(back, c, got)
    PROVE  /\ Acked(Tail(back), c, got)
           /\ Head(back).type \notin Hello =>
                 \E u \in c .. got : Head(back).nr = u % SeqMod /\ Acked(Tail(back), u, got)
<1>1. PICK v \in [1 .. Len(back) -> c .. got] :
          /\ \A i \in 1 .. Len(back) : back[i].type \notin Hello => back[i].nr = v[i] % SeqMod
          /\ \A i, j \in 1 .. Len(back) : i <= j => v[i] <= v[j]
    BY DEF Acked
<1> DEFINE w == [i \in 1 .. Len(Tail(back)) |-> v[i + 1]]
<1>2. /\ \A i \in 1 .. Len(Tail(back)) :
            i \in Nat /\ i + 1 \in 1 .. Len(back) /\ Tail(back)[i] = back[i + 1]
      /\ 1 \in 1 .. Len(back) /\ Head(back) = back[1]
    BY TailIndex
<1>3. /\ \A i \in 1 .. Len(Tail(back)) : 
            Tail(back)[i].type \notin Hello => Tail(back)[i].nr = w[i] % SeqMod
      /\ \A i, j \in 1 .. Len(Tail(back)) : i <= j => w[i] <= w[j]
    BY <1>1, <1>2
<1>4. v[1] \in c .. got /\ w \in [1 .. Len(Tail(back)) -> v[1] .. got]
    BY <1>1, <1>2
<1>5. w \in [1 .. Len(Tail(back)) -> c .. got]
    BY <1>4
<1> HIDE DEF w
<1>6. Acked(Tail(back), c, got) /\ Acked(Tail(back), v[1], got)
    BY <1>3, <1>4, <1>5 DEF Acked
<1> QED BY <1>1, <1>2, <1>4, <1>6

LEMMA AckedAppend ==
    ASSUME NEW back \in Seq(SentFrame), NEW c \in Nat, NEW got \in Nat, c <= got,
           Acked(back, c, got),
           NEW f \in SentFrame, f.type \notin Hello => f.nr = got % SeqMod
    PROVE  Acked(Append(back, f), c, got)
<1>1. PICK v \in [1 .. Len(back) -> c .. got] :
          /\ \A i \in 1 .. Len(back) : back[i].type \notin Hello => back[i].nr = v[i] % SeqMod
          /\ \A i, j \in 1 .. Len(back) : i <= j => v[i] <= v[j]
    BY DEF Acked
<1> DEFINE n == Len(back)
           new == Append(back, f)
           w == [i \in 1 .. Len(new) |-> IF i = n + 1 THEN got ELSE v[i]]
<1>2. /\ n \in Nat /\ 1 .. Len(new) = 1 .. n \cup {n + 1} /\ new[n + 1] = f
      /\ \A i \in 1 .. n : new[i] = back[i]
    BY AppendIndex
<1> HIDE DEF new, n
<1>3. w \in [1 .. Len(new) -> c .. got]
    BY <1>2 DEF n
<1>4. \A i \in 1 .. Len(new) : new[i].type \notin Hello => new[i].nr = w[i] % SeqMod
    BY <1>1, <1>2 DEF n
<1>5. \A i, j \in 1 .. Len(new) : i <= j => w[i] <= w[j]
    BY <1>1, <1>2 DEF n
<1> HIDE DEF w
<1>6. Acked(new, c, got)
    BY <1>3, <1>4, <1>5 DEF Acked
<1> QED BY <1>6 DEF new

LEMMA AckedMore ==
    ASSUME NEW back, NEW c \in Nat, NEW got \in Nat, Acked(back, c, got)
    PROVE  Acked(back, c, got + 1)
<1>1. [1 .. Len(back) -> c .. got] \subseteq [1 .. Len(back) -> c .. got + 1]
    OBVIOUS
<1> QED BY <1>1 DEF Acked

-------------------------------------------------------------------------------
(* What the methods make of an endpoint whose service queue is drained     *)
(* before it reads.                                                        *)

Control0(s) == s.peers[0].control

(* Nothing of the connection but the sequence numbers and the queue.       *)
LEMMA SendOutcome ==
    ASSUME NEW n \in Node, NEW s \in Good(LocalAddr(n)), NEW data \in Payload
    PROVE  LET t == SendPacket(s, 0, data)
           IN  /\ t.peers[0] = [s.peers[0] EXCEPT !.control = MoveToNextNs(Control0(s))]
               /\ t.i_queue = Allocate(s.i_queue, Window, IFrame(Addr, Control0(s).last_ns, 0, data))
               /\ t.s_queue = s.s_queue /\ t.tx = s.tx
<1> DEFINE peer == [s.peers[0] EXCEPT !.control = MoveToNextNs(Control0(s))]
           q == Allocate(s.i_queue, Window, IFrame(Addr, Control0(s).last_ns, 0, data))
           u == PutIFrame(s, 0, data)
<1>1. u = [s EXCEPT !.i_queue = q, !.peers[0] = peer]
    BY OnePeer DEF PutIFrame, Control0
<1> HIDE DEF u, q, peer
<1>2. u.peers[0] = peer /\ u.i_queue = q /\ u.s_queue = s.s_queue /\ u.tx = s.tx
    BY <1>1, OnePeer DEF Station
<1>3. DOMAIN u = {"local_addr", "peers", "i_queue", "s_queue", "events", "tx"}
    <2>1. DOMAIN s = {"local_addr", "peers", "i_queue", "s_queue", "events", "tx"}
        BY OnePeer DEF Station
    <2> QED BY <1>1, <2>1
<1>4. \E e : SendPacket(s, 0, data) = [u EXCEPT !.events = e]
    BY DEF SendPacket, u
<1> QED BY <1>2, <1>3, <1>4 DEF peer, q

LEMMA ConfirmOutcome ==
    ASSUME NEW n \in Node, NEW s \in Good(LocalAddr(n)), NEW nr
    PROVE  LET t == ConfirmAndFree(s, 0, nr)
           IN  /\ t.peers[0] = [s.peers[0] EXCEPT !.control = ConfirmSentFrames(Control0(s), nr)]
               /\ t.i_queue = FreeByNs(s.i_queue, Addr, Confirmed(Control0(s), nr))
               /\ t.s_queue = s.s_queue /\ t.tx = s.tx
<1> DEFINE peer == [s.peers[0] EXCEPT !.control = ConfirmSentFrames(Control0(s), nr)]
           q == FreeByNs(s.i_queue, Addr, Confirmed(Control0(s), nr))
           u == [s EXCEPT !.i_queue = q, !.peers[0] = peer]
<1>1. ConfirmAndFree(s, 0, nr) = OfferFreeSlots(u)
    BY OnePeer DEF ConfirmAndFree, Control0
<1> HIDE DEF q, peer
<1>2. u.peers[0] = peer /\ u.i_queue = q /\ u.s_queue = s.s_queue /\ u.tx = s.tx
    BY OnePeer DEF Station
<1>3. DOMAIN u = {"local_addr", "peers", "i_queue", "s_queue", "events", "tx"}
    <2>1. DOMAIN s = {"local_addr", "peers", "i_queue", "s_queue", "events", "tx"}
        BY OnePeer DEF Station
    <2> QED BY <2>1
<1> HIDE DEF u
<1>4. \E e : OfferFreeSlots(u) \in {u, [u EXCEPT !.events = e]}
    BY DEF OfferFreeSlots
<1> QED BY <1>1, <1>2, <1>3, <1>4 DEF peer, q

(* An answer of an endpoint to an I-frame says what it expects next.       *)
AnswerFrame(s) == {SFrame(type, Addr, Control0(s).next_nr) : type \in {"RR", "REJ"}}

(* A frame of the connection: its N(R) confirms, an I-frame is taken only  *)
(* if it is the one expected, a REJ goes back.                             *)
LEMMA SessionOutcome ==
    ASSUME NEW n \in Node, NEW s \in Good(LocalAddr(n)), Occupied(s.s_queue) = {},
           s.peers[0].state = "Connected",
           NEW f \in Frame, f.addr = Addr, f.type \in {"RR", "REJ", "I"}
    PROVE  LET t == OnFrameReceived(s, f)
               accepts == f.type = "I" /\ f.ns = Control0(s).next_nr
           IN  /\ t.peers[0].state = "Connected"
               /\ Control0(t).last_ns = Control0(s).last_ns
               /\ Control0(t).confirm_ns = f.nr
               /\ Control0(t).next_ns = IF f.type = "REJ" THEN f.nr ELSE Control0(s).next_ns
               /\ Control0(t).next_nr = IF accepts THEN Succ(Control0(s).next_nr)
                                        ELSE Control0(s).next_nr
               /\ t.peers[0].i_elapsed = s.peers[0].i_elapsed
               /\ t.peers[0].retries = IF f.type = "RR" THEN Retries ELSE s.peers[0].retries
               /\ t.i_queue = FreeByNs(s.i_queue, Addr, Confirmed(Control0(s), f.nr))
               /\ t.tx = s.tx
               /\ AtMostOne(t.s_queue) /\ Waiting(t) \subseteq AnswerFrame(t)
               /\ f.type # "I" => Occupied(t.s_queue) = {}
<1> DEFINE t == OnFrameReceived(s, f)
           u == ConfirmAndFree(s, 0, f.nr)
           c == ConfirmSentFrames(Control0(s), f.nr)
           peer == [s.peers[0] EXCEPT !.control = c]
<1>1. t = IF f.type = "I" THEN OnIFrameReceived(s, 0, f) ELSE OnSFrameReceived(s, 0, f)
    BY OnePeer, LowestZero DEF OnFrameReceived, ReceiveFromPeer, InSession, UType
<1>2. f.nr \in SeqNum /\ s.peers[0] \in PeerInfo /\ Control0(s) \in Control
    BY OnePeer DEF Frame, PeerInfo, Control0
<1>3. /\ u.peers[0] = peer
      /\ u.i_queue = FreeByNs(s.i_queue, Addr, Confirmed(Control0(s), f.nr))
      /\ u.s_queue = s.s_queue /\ u.tx = s.tx
    BY ConfirmOutcome
<1>4. u \in Good(LocalAddr(n))
    BY <1>2, NodeType, PeersType, ConfirmAndFreeGood DEF InSession
<1>5. /\ c \in Control
      /\ c.last_ns = Control0(s).last_ns /\ c.confirm_ns = f.nr
      /\ c.next_ns = Control0(s).next_ns /\ c.next_nr = Control0(s).next_nr
    BY <1>2, ControlType DEF ConfirmSentFrames, Control
<1>6. /\ peer \in PeerInfo /\ peer.control = c /\ peer.state = "Connected"
      /\ peer.i_elapsed = s.peers[0].i_elapsed /\ peer.retries = s.peers[0].retries
    BY <1>2, <1>5 DEF PeerInfo
<1> HIDE DEF u, c, peer, t
<1>7. DOMAIN u.peers = {0} /\ u \in Station(LocalAddr(n)) /\ Occupied(u.s_queue) = {}
    BY <1>3, <1>4, OnePeer
<1>8. CASE f.type = "RR"
    <2>1. t = [u EXCEPT !.peers[0].retries = Retries]
        BY <1>1, <1>8 DEF OnSFrameReceived, u
    <2>2. t.peers[0] = [peer EXCEPT !.retries = Retries]
        BY <1>3, <1>7, <2>1 DEF Station
    <2>3. t.i_queue = u.i_queue /\ t.s_queue = u.s_queue /\ t.tx = u.tx
        BY <1>7, <2>1 DEF Station
    <2>4. /\ t.peers[0].state = "Connected" /\ t.peers[0].control = c
          /\ t.peers[0].i_elapsed = s.peers[0].i_elapsed /\ t.peers[0].retries = Retries
        BY <1>6, <2>2 DEF PeerInfo
    <2>5. Waiting(t) = {} /\ AtMostOne(t.s_queue)
        BY <1>7, <2>3 DEF Waiting, AtMostOne
    <2> QED BY <1>3, <1>5, <1>7, <1>8, <2>3, <2>4, <2>5 DEF Control0, t
<1>9. CASE f.type = "REJ"
    <2> DEFINE d == RetransmitFrame(c, f.nr)
    <2>1. t = [u EXCEPT !.peers[0].control = RetransmitFrame(u.peers[0].control, f.nr),
                        !.events = u.events \cup {"TX_DATA_AVAILABLE"}]
        BY <1>1, <1>9 DEF OnSFrameReceived, u
    <2>2. t.peers[0] = [peer EXCEPT !.control = d]
        BY <1>3, <1>6, <1>7, <2>1 DEF Station
    <2>3. t.i_queue = u.i_queue /\ t.s_queue = u.s_queue /\ t.tx = u.tx
        BY <1>7, <2>1 DEF Station
    <2>4. /\ d.last_ns = c.last_ns /\ d.confirm_ns = c.confirm_ns
          /\ d.next_ns = f.nr /\ d.next_nr = c.next_nr
        BY <1>5 DEF RetransmitFrame, Control
    <2> HIDE DEF d
    <2>5. /\ t.peers[0].state = "Connected" /\ t.peers[0].control = d
          /\ t.peers[0].i_elapsed = s.peers[0].i_elapsed /\ t.peers[0].retries = s.peers[0].retries
        BY <1>6, <2>2 DEF PeerInfo
    <2>6. Waiting(t) = {} /\ AtMostOne(t.s_queue)
        BY <1>7, <2>3 DEF Waiting, AtMostOne
    <2> QED BY <1>3, <1>5, <1>7, <1>9, <2>3, <2>4, <2>5, <2>6 DEF Control0, t
<1>10. CASE f.type = "I" /\ f.ns = Control0(s).next_nr
    <2> DEFINE d == MoveToNextFrameToReceive(c)
               next == [peer EXCEPT !.control = d, !.sent_reject = FALSE]
               w == [u EXCEPT !.peers[0] = next]
    <2>1. d \in Control
        BY <1>2, <1>5, ControlType
    <2>2. /\ d.last_ns = c.last_ns /\ d.confirm_ns = c.confirm_ns
          /\ d.next_ns = c.next_ns /\ d.next_nr = Succ(c.next_nr)
        BY <1>5 DEF MoveToNextFrameToReceive, Control
    <2> HIDE DEF d
    <2>3. /\ next \in PeerInfo /\ next.state = "Connected" /\ next.control = d
          /\ next.i_elapsed = s.peers[0].i_elapsed /\ next.retries = s.peers[0].retries
        BY <1>6, <2>1 DEF PeerInfo
    <2>4. t = PutSFrame([u EXCEPT !.peers[0].control = d, !.peers[0].sent_reject = FALSE],
                        0, "RR", d.next_nr)
        BY <1>1, <1>3, <1>5, <1>6, <1>10 DEF OnIFrameReceived, AcceptIFrame, u, d
    <2>5. [u EXCEPT !.peers[0].control = d, !.peers[0].sent_reject = FALSE] = w
        BY <1>3, <1>7 DEF Station
    <2> HIDE DEF next
    <2>6. w \in Good(LocalAddr(n))
        BY <1>4, <2>3, NodeType, PeersType, ChangePeer DEF Cold, InSession
    <2>7. w.peers[0] = next /\ w.i_queue = u.i_queue /\ w.s_queue = u.s_queue /\ w.tx = u.tx
        BY <1>7 DEF Station
    <2> HIDE DEF w
    <2>8. SFrame("RR", Addr, d.next_nr) \in ServiceFrame
        BY <2>1, FrameTypes, SeqModAssumption DEF SType, Addr, Address, SeqNum, Control
    <2>9. t = PutSUFrame(w, SFrame("RR", Addr, d.next_nr))
        BY <2>4, <2>5, <2>6, OnePeer DEF PutSFrame
    <2>10. /\ t.peers = w.peers /\ t.i_queue = w.i_queue /\ t.tx = w.tx
           /\ Waiting(t) = {SFrame("RR", Addr, d.next_nr)} /\ AtMostOne(t.s_queue)
        BY <1>7, <2>6, <2>7, <2>8, <2>9, PutWaits
    <2>11. Control0(t) = d
        BY <2>3, <2>7, <2>10 DEF Control0
    <2>12. Waiting(t) \subseteq AnswerFrame(t)
        BY <2>10, <2>11 DEF AnswerFrame
    <2> QED BY <1>3, <1>5, <1>10, <2>2, <2>3, <2>7, <2>10, <2>11, <2>12 DEF t
<1>11. CASE f.type = "I" /\ f.ns # Control0(s).next_nr
    <2>1. t = RejectIFrame(u, 0)
        BY <1>1, <1>3, <1>5, <1>6, <1>11 DEF OnIFrameReceived, u
    <2>2. CASE peer.sent_reject
        <3>1. t = u
            BY <1>3, <2>1, <2>2 DEF RejectIFrame
        <3>2. Waiting(t) = {} /\ AtMostOne(t.s_queue)
            BY <1>7, <3>1 DEF Waiting, AtMostOne
        <3> QED BY <1>3, <1>5, <1>6, <1>11, <3>1, <3>2 DEF Control0, t
    <2>3. CASE ~ peer.sent_reject
        <3> DEFINE next == [peer EXCEPT !.sent_reject = TRUE]
                   w == [u EXCEPT !.peers[0] = next]
        <3>1. /\ next \in PeerInfo /\ next.state = "Connected" /\ next.control = c
              /\ next.i_elapsed = s.peers[0].i_elapsed /\ next.retries = s.peers[0].retries
            BY <1>6 DEF PeerInfo
        <3>2. t = PutSFrame([u EXCEPT !.peers[0].sent_reject = TRUE], 0, "REJ", c.next_nr)
            BY <1>3, <1>6, <2>1, <2>3 DEF RejectIFrame
        <3>3. [u EXCEPT !.peers[0].sent_reject = TRUE] = w
            BY <1>3, <1>7 DEF Station
        <3> HIDE DEF next
        <3>4. w \in Good(LocalAddr(n))
            BY <1>4, <3>1, NodeType, PeersType, ChangePeer DEF Cold, InSession
        <3>5. w.peers[0] = next /\ w.i_queue = u.i_queue /\ w.s_queue = u.s_queue /\ w.tx = u.tx
            BY <1>7 DEF Station
        <3> HIDE DEF w
        <3>6. SFrame("REJ", Addr, c.next_nr) \in ServiceFrame
            BY <1>5, FrameTypes, SeqModAssumption DEF SType, Addr, Address, SeqNum, Control
        <3>7. t = PutSUFrame(w, SFrame("REJ", Addr, c.next_nr))
            BY <3>2, <3>3, <3>4, OnePeer DEF PutSFrame
        <3>8. /\ t.peers = w.peers /\ t.i_queue = w.i_queue /\ t.tx = w.tx
              /\ Waiting(t) = {SFrame("REJ", Addr, c.next_nr)} /\ AtMostOne(t.s_queue)
            BY <1>7, <3>4, <3>5, <3>6, <3>7, PutWaits
        <3>9. Control0(t) = c
            BY <3>1, <3>5, <3>8 DEF Control0
        <3>10. Waiting(t) \subseteq AnswerFrame(t)
            BY <3>8, <3>9 DEF AnswerFrame
        <3> QED BY <1>3, <1>5, <1>11, <3>1, <3>5, <3>8, <3>9, <3>10 DEF t
    <2> QED BY <2>2, <2>3
<1> QED BY <1>8, <1>9, <1>10, <1>11

(* The loop over the peers makes one round.                                *)
LEMMA CheckOutcome ==
    ASSUME NEW n \in Node, NEW s \in Good(LocalAddr(n))
    PROVE  CheckTimeouts(s) = CheckPeer(s, 0)
<1>1. PICK g : /\ g = [i \in 0 .. NumPeers(LocalAddr(n)) |->
                          IF i = 0 THEN s ELSE CheckPeer(g[i - 1], i - 1)]
               /\ CheckTimeouts(s) = g[NumPeers(LocalAddr(n))]
    BY NodeType, CheckTimeoutsLoop
<1>2. /\ g = [i \in 0 .. 1 |-> IF i = 0 THEN s ELSE CheckPeer(g[i - 1], i - 1)]
      /\ CheckTimeouts(s) = g[1]
    BY <1>1, OnePeer
<1>3. g[0] = s
    BY <1>2
<1>4. g[1] = CheckPeer(g[0], 0)
    BY <1>2
<1> QED BY <1>2, <1>3, <1>4

(* What waits in the service queue goes first.                             *)
LEMMA ServiceOutcome ==
    ASSUME NEW n \in Node, NEW s \in Good(LocalAddr(n)), s.tx = NoFrame,
           Occupied(s.s_queue) # {}, AtMostOne(s.s_queue)
    PROVE  LET t == GenerateTxFrames(s)
           IN  /\ t.peers = s.peers /\ t.i_queue = s.i_queue
               /\ Occupied(t.s_queue) = {}
               /\ t.tx \in Waiting(s) /\ t.tx # NoFrame
<1> DEFINE t == GenerateTxFrames(s)
           i == Lowest(Occupied(s.s_queue))
<1>1. t = [s EXCEPT !.tx = s.s_queue.frames[i], !.s_queue = Free(s.s_queue, i)]
    BY DEF GenerateTxFrames, TransmitService
<1>2. s.s_queue \in FrameQueueOf(SQueueSize, ServiceFrame)
    BY OnePeer DEF Station
<1>3. i \in Occupied(s.s_queue)
    <2>1. Occupied(s.s_queue) \in SUBSET Nat
        BY <1>2, WindowType, OccupiedType
    <2> QED BY <2>1, LowestMember
<1> HIDE DEF t, i
<1>4. /\ t.peers = s.peers /\ t.i_queue = s.i_queue
      /\ t.tx = s.s_queue.frames[i] /\ t.s_queue = Free(s.s_queue, i)
    BY <1>1, OnePeer DEF Station
<1>5. Occupied(s.s_queue) = {i}
    BY <1>3 DEF AtMostOne
<1>6. Occupied(Free(s.s_queue, i)) = {}
    BY <1>2, <1>3, <1>5 DEF Free, Occupied, FrameQueueOf
<1>7. t.tx # NoFrame
    BY <1>3, <1>4 DEF Occupied
<1> QED BY <1>3, <1>4, <1>6, <1>7 DEF Waiting, t

(* With nothing else to send it is the turn of the next I-frame, if there  *)
(* is one.                                                                 *)
LEMMA DataOutcome ==
    ASSUME NEW n \in Node, NEW s \in Good(LocalAddr(n)), s.tx = NoFrame,
           Occupied(s.s_queue) = {}
    PROVE  LET t == GenerateTxFrames(s)
           IN  \/ ReadyPeers(s) = {} /\ t = s
               \/ /\ ReadyPeers(s) # {}
                  /\ t.peers[0].state = s.peers[0].state
                  /\ Control0(t) = AdvanceNextNs(Control0(s))
                  /\ ~ t.peers[0].i_elapsed /\ t.peers[0].retries = Retries
                  /\ t.i_queue = s.i_queue /\ t.s_queue = s.s_queue
                  /\ \E i \in Occupied(s.i_queue) :
                        t.tx = [s.i_queue.frames[i] EXCEPT !.nr = Control0(s).next_nr]
<1> DEFINE t == GenerateTxFrames(s)
           i == GetNext(s.i_queue, Addr, Control0(s).next_ns)
           peer == [s.peers[0] EXCEPT !.control = AdvanceNextNs(Control0(s)),
                                      !.i_elapsed = FALSE, !.frame_elapsed = FALSE,
                                      !.retries = Retries]
           frame == [s.i_queue.frames[i] EXCEPT !.nr = Control0(s).next_nr]
<1>1. CASE ReadyPeers(s) = {}
    BY <1>1 DEF GenerateTxFrames
<1>2. CASE ReadyPeers(s) # {}
    <2>1. ReadyPeers(s) = {0}
        BY <1>2, OnePeer DEF ReadyPeers
    <2>2. t = TransmitIFrame(s, 0)
        BY <1>2, <2>1, LowestZero DEF GenerateTxFrames
    <2>3. t = [s EXCEPT !.tx = frame, !.peers[0] = peer]
        BY <2>2, OnePeer DEF TransmitIFrame, Control0
    <2>4. i \in Occupied(s.i_queue)
        <3>1. Matching(s.i_queue, Addr, Control0(s).next_ns) # {}
            BY <2>1, OnePeer DEF ReadyPeers, Control0
        <3>2. s.i_queue \in FrameQueueOf(Window, DataFrame)
            BY OnePeer DEF Station
        <3>3. Matching(s.i_queue, Addr, Control0(s).next_ns) \in SUBSET Nat
            BY <3>2, SlotType DEF Matching
        <3>4. i \in Matching(s.i_queue, Addr, Control0(s).next_ns)
            BY <3>1, <3>3, LowestMember DEF GetNext
        <3> QED BY <3>4 DEF Matching
    <2>5. /\ peer.state = s.peers[0].state /\ peer.control = AdvanceNextNs(Control0(s))
          /\ ~ peer.i_elapsed /\ peer.retries = Retries
        BY OnePeer DEF PeerInfo
    <2> HIDE DEF peer, frame, i, t
    <2>6. t.peers[0] = peer /\ t.tx = frame /\ t.i_queue = s.i_queue /\ t.s_queue = s.s_queue
        BY <2>3, OnePeer DEF Station
    <2> QED BY <1>2, <2>4, <2>5, <2>6 DEF Control0, frame, t
<1> QED BY <1>1, <1>2

(* A timeout goes back to the oldest frame that is not confirmed.          *)
LEMMA RewindOutcome ==
    ASSUME NEW n \in Node, NEW s \in Good(LocalAddr(n)), s.peers[0].state = "Connected",
           s.peers[0].i_elapsed => s.peers[0].retries # 0
    PROVE  LET t == CheckTimeouts(s)
           IN  \/ t = s /\ (s.peers[0].i_elapsed => ~ HasUnconfirmedFrames(Control0(s)))
               \/ /\ s.peers[0].i_elapsed /\ HasUnconfirmedFrames(Control0(s))
                  /\ t.peers[0].state = "Connected" /\ ~ t.peers[0].i_elapsed
                  /\ Control0(t) = RetransmitFrame(Control0(s), Control0(s).confirm_ns)
                  /\ t.i_queue = s.i_queue /\ t.s_queue = s.s_queue /\ t.tx = s.tx
<1> DEFINE t == CheckTimeouts(s)
           peer == [s.peers[0] EXCEPT
                       !.retries = s.peers[0].retries - 1,
                       !.control = RetransmitFrame(Control0(s), Control0(s).confirm_ns),
                       !.i_elapsed = FALSE]
<1>1. t = CheckPeer(s, 0)
    BY CheckOutcome
<1>2. CASE ~ (s.peers[0].i_elapsed /\ HasUnconfirmedFrames(Control0(s)))
    <2>1. t = s
        BY <1>1, <1>2 DEF CheckPeer, Control0
    <2> QED BY <1>2, <2>1
<1>3. CASE s.peers[0].i_elapsed /\ HasUnconfirmedFrames(Control0(s))
    <2>1. t = RetryIFrames(s, 0)
        BY <1>1, <1>3 DEF CheckPeer, Control0
    <2>2. t = [s EXCEPT !.peers[0] = peer, !.events = s.events \cup {"TX_DATA_AVAILABLE"}]
        BY <1>3, <2>1 DEF RetryIFrames, Control0
    <2>3. /\ peer.state = "Connected" /\ ~ peer.i_elapsed
          /\ peer.control = RetransmitFrame(Control0(s), Control0(s).confirm_ns)
        BY OnePeer DEF PeerInfo
    <2> HIDE DEF peer, t
    <2>4. t.peers[0] = peer /\ t.i_queue = s.i_queue /\ t.s_queue = s.s_queue /\ t.tx = s.tx
        BY <2>2, OnePeer DEF Station
    <2> QED BY <1>3, <2>3, <2>4 DEF Control0, t
<1> QED BY <1>2, <1>3

(* Without a connection there is at most a SABM to send.                   *)
LEMMA IdleOutcome ==
    ASSUME NEW n \in Node, NEW s \in Good(LocalAddr(n)), s.tx = NoFrame,
           Occupied(s.s_queue) = {},
           \/ s.peers[0].state = "Disconnected"
           \/ s.peers[0].state = "Connecting" /\ ~ s.peers[0].frame_elapsed
    PROVE  LET t == GenerateTxFrames(CheckTimeouts(s))
           IN  \/ t = s
               \/ /\ s.peers[0].state = "Disconnected"
                  /\ t.peers[0].state = "Connecting" /\ ~ t.peers[0].frame_elapsed
                  /\ Control0(t) = Control0(s) /\ t.i_queue = s.i_queue
                  /\ Occupied(t.s_queue) = {} /\ t.tx = UFrame("SABM", Addr)
                  /\ t.tx # NoFrame
<1> DEFINE u == CheckTimeouts(s)
           t == GenerateTxFrames(u)
<1>1. u = CheckPeer(s, 0) /\ u \in Good(LocalAddr(n))
    BY CheckOutcome, NodeType, CheckTimeoutsGood
<1>2. CASE u = s
    <2>1. ReadyPeers(s) = {}
        BY OnePeer DEF ReadyPeers
    <2> QED BY <1>2, <2>1, DataOutcome
<1>3. CASE u # s
    <2> DEFINE put == PutSUFrame(s, UFrame("SABM", Addr))
               peer == [s.peers[0] EXCEPT !.frame_elapsed = FALSE, !.state = "Connecting"]
    <2>1. /\ s.peers[0].state = "Disconnected"
          /\ u = [SendSabm(s, 0) EXCEPT !.peers[0].state = "Connecting"]
        BY <1>1, <1>3 DEF CheckPeer
    <2>2. UFrame("SABM", Addr) \in ServiceFrame
        BY FrameTypes, SeqModAssumption DEF UType, Addr, Address, SeqNum
    <2>3. /\ put \in Good(LocalAddr(n)) /\ put.peers = s.peers /\ put.i_queue = s.i_queue
          /\ put.tx = s.tx /\ Waiting(put) = {UFrame("SABM", Addr)}
          /\ AtMostOne(put.s_queue) /\ Occupied(put.s_queue) # {}
        BY <2>2, PutWaits, PutSUFrameGood, NodeType
    <2>4. SendSabm(s, 0) = [put EXCEPT !.peers[0].frame_elapsed = FALSE]
        BY OnePeer DEF SendSabm, PutUFrame
    <2> DEFINE sabm == SendSabm(s, 0)
    <2> HIDE DEF u, t, put, sabm
    <2>5. /\ u.peers[0] = peer /\ u.i_queue = s.i_queue
          /\ u.s_queue = put.s_queue /\ u.tx = NoFrame
        <3>1. /\ DOMAIN put = {"local_addr", "peers", "i_queue", "s_queue", "events", "tx"}
              /\ DOMAIN put.peers = {0}
            BY <2>3, OnePeer DEF Station
        <3>2. sabm = [put EXCEPT !.peers = [put.peers EXCEPT ![0] =
                                              [put.peers[0] EXCEPT !.frame_elapsed = FALSE]]]
            BY <2>4 DEF sabm
        <3>3. /\ DOMAIN sabm = DOMAIN put
              /\ sabm.i_queue = put.i_queue /\ sabm.s_queue = put.s_queue /\ sabm.tx = put.tx
              /\ sabm.peers[0] = [s.peers[0] EXCEPT !.frame_elapsed = FALSE]
              /\ DOMAIN sabm.peers = {0}
            BY <2>3, <3>1, <3>2
        <3>4. u = [sabm EXCEPT !.peers = [sabm.peers EXCEPT ![0] =
                                              [sabm.peers[0] EXCEPT !.state = "Connecting"]]]
            BY <2>1 DEF sabm
        <3>5. /\ u.peers[0] = [sabm.peers[0] EXCEPT !.state = "Connecting"]
              /\ u.i_queue = sabm.i_queue /\ u.s_queue = sabm.s_queue /\ u.tx = sabm.tx
            BY <3>1, <3>3, <3>4
        <3> QED BY <2>3, <3>3, <3>5
    <2>6. /\ peer.state = "Connecting" /\ ~ peer.frame_elapsed
          /\ peer.control = s.peers[0].control
        BY OnePeer DEF PeerInfo
    <2> HIDE DEF peer
    <2>7. /\ t.peers = u.peers /\ t.i_queue = u.i_queue /\ Occupied(t.s_queue) = {}
          /\ t.tx \in Waiting(u) /\ t.tx # NoFrame
        BY <1>1, <2>3, <2>5, ServiceOutcome DEF t
    <2>8. Waiting(u) = Waiting(put)
        BY <2>5 DEF Waiting
    <2> QED BY <2>1, <2>3, <2>5, <2>6, <2>7, <2>8 DEF Control0, t, u
<1> QED BY <1>2, <1>3

-------------------------------------------------------------------------------
(* The inductive invariant of a link that loses no frame while it is set   *)
(* up, and whose applications never disconnect.  The retry timeout is      *)
(* longer than a round trip; without that, or without draining the         *)
(* transmitter before the next frame is read, TLC shows the link failing.  *)

Disciplined ==
    /\ Retries > 0
    /\ MaxSetupLoss = 0 /\ MaxDisconnect = 0
    /\ SendsWhenConnected /\ Alternates /\ SlowTimer

BudgetInv == budget \in [loss : Int, setup : {0}, disconnect : {0}]

LinkFrame ==
    {f \in SentFrame : f.addr = Addr /\ f.type \in Hello \cup {"RR", "REJ", "I"}}

EndInv(n) ==
    /\ st[n].tx = NoFrame
    /\ AtMostOne(st[n].s_queue) /\ Waiting(st[n]) \subseteq LinkFrame
    /\ line[n] \in Seq(LinkFrame)
    /\ State(n) \in {"Disconnected", "Connecting", "Connected"}
    /\ dropped[n] = {}

(* A SABM or UA of n waits to be sent.                                     *)
Greets(n) == \E f \in Waiting(st[n]) : f.type \in Hello

AllSabm(way) == \A i \in 1 .. Len(way) : way[i].type = "SABM"

(* An end that is not connected has sent and received nothing; the first   *)
(* frame that reaches it opens its connection, and one will reach it if    *)
(* the other end has opened its own.                                       *)
HandshakeInv(n) ==
    /\ State(n) # "Connected" =>
           /\ ControlOf(n) = ResetControl
           /\ Waiting(st[n]) = {}
           /\ accepted[n] = 0 /\ delivered[n] = <<>>
           /\ AllSabm(line[Peer(n)])
           /\ line[n] # <<>> => line[n][1].type \in Hello
           /\ State(Peer(n)) = "Connected" => Greets(Peer(n)) \/ line[n] # <<>>
    /\ State(n) = "Disconnected" =>
           /\ State(Peer(n)) # "Connected"
           /\ line[Peer(n)] = <<>>
    /\ State(n) = "Connecting" =>
           /\ ~ st[n].peers[0].frame_elapsed
           /\ line[n] # <<>> \/ line[Peer(n)] # <<>> \/ Greets(Peer(n))

(* How many packets of a have been delivered.                              *)
Got(a) == Len(delivered[Peer(a)])

Numbers(a, c) ==
    /\ c <= Got(a) /\ Got(a) <= accepted[a] /\ accepted[a] <= c + (SeqMod - 1)
    /\ ControlOf(a).last_ns = accepted[a] % SeqMod
    /\ ControlOf(a).confirm_ns = c % SeqMod
    /\ ControlOf(Peer(a)).next_nr = Got(a) % SeqMod
    /\ \A i \in 1 .. Got(a) : delivered[Peer(a)][i] = i

Flow(a, c) ==
    /\ Holds(st[a].i_queue, c, accepted[a])
    /\ OnWay(line[Peer(a)], accepted[a], Got(a))
    /\ Acked(line[a], c, Got(a))
    /\ UpToDate(Waiting(st[Peer(a)]), Got(a))

(* Nothing of a is on its way, and every answer to it is up to date.       *)
Fresh(a) ==
    /\ \A i \in 1 .. Len(line[Peer(a)]) : line[Peer(a)][i].type # "I"
    /\ \A i \in 1 .. Len(line[a]) :
          line[a][i].type \notin Hello => line[a][i].nr = Got(a) % SeqMod

NoHello ==
    \A n \in Node : ~ Greets(n) /\ \A i \in 1 .. Len(line[n]) : line[n][i].type \notin Hello

TimedOut(a, c) ==
    (State(a) = "Connected" /\ st[a].peers[0].i_elapsed) =>
        /\ Fresh(a) /\ NoHello /\ State(Peer(a)) = "Connected"
        /\ Waiting(st[a]) # {} => c = Got(a)

(* A retry that is counted is one whose I-frame is still to be sent, and   *)
(* sending that sets the count back: the retries are never used up.        *)
Rewound(a, c) ==
    (State(a) = "Connected" /\ st[a].peers[0].retries < Retries) =>
        /\ ~ st[a].peers[0].i_elapsed
        /\ Fresh(a) /\ c = Got(a) /\ c < accepted[a]
        /\ ControlOf(a).next_ns = ControlOf(a).confirm_ns

Direction(a, c) == Numbers(a, c) /\ Flow(a, c) /\ TimedOut(a, c) /\ Rewound(a, c)

LinkInv ==
    /\ ShapeInv /\ BudgetInv
    /\ \A n \in Node : EndInv(n) /\ HandshakeInv(n)
    /\ \A a \in Node : \E c \in Nat : Direction(a, c)

LEMMA LinkFrameType == LinkFrame \subseteq SentFrame /\ LinkFrame \subseteq Frame
BY SentIsFrame DEF LinkFrame

LEMMA WaitingType ==
    ASSUME NEW n \in Node, NEW s \in Good(LocalAddr(n))
    PROVE  /\ Waiting(s) \subseteq ServiceFrame
           /\ Waiting(s) = {} <=> Occupied(s.s_queue) = {}
BY OnePeer DEF Waiting, Station, FrameQueueOf, Occupied

(* A step that leaves all of this as it is.                                *)
LEMMA SameLink ==
    ASSUME LinkInv, ShapeInv', BudgetInv',
           \A n \in Node : /\ st'[n].peers[0] = st[n].peers[0]
                           /\ st'[n].i_queue = st[n].i_queue
                           /\ st'[n].s_queue = st[n].s_queue /\ st'[n].tx = st[n].tx,
           line' = line, accepted' = accepted, delivered' = delivered, dropped' = dropped
    PROVE  LinkInv'
<1>1. \A n \in Node : Waiting(st'[n]) = Waiting(st[n])
    BY DEF Waiting
<1>2. \A n \in Node : EndInv(n)'
    BY <1>1 DEF LinkInv, EndInv, State
<1>3. \A n \in Node : Peer(n) \in Node /\ Greets(n)' = Greets(n)
    BY <1>1, NodeType DEF Greets
<1>4. \A n \in Node : HandshakeInv(n)'
    <2> TAKE n \in Node
    <2>1. HandshakeInv(n) /\ Peer(n) \in Node
        BY NodeType DEF LinkInv
    <2>2. /\ Waiting(st'[n]) = Waiting(st[n]) /\ st'[n].peers[0] = st[n].peers[0]
          /\ State(n)' = State(n) /\ ControlOf(n)' = ControlOf(n)
          /\ State(Peer(n))' = State(Peer(n)) /\ Greets(Peer(n))' = Greets(Peer(n))
        BY <1>1, <1>3, <2>1 DEF State, ControlOf
    <2> QED BY <2>1, <2>2 DEF HandshakeInv
<1>5. ASSUME NEW a \in Node, NEW c \in Nat, Direction(a, c) PROVE Direction(a, c)'
    <2>1. Numbers(a, c)'
        BY <1>3, <1>5 DEF Direction, Numbers, Got, ControlOf
    <2>2. Flow(a, c)'
        BY <1>1, <1>3, <1>5 DEF Direction, Flow, Got
    <2>3. Fresh(a)' = Fresh(a) /\ NoHello' = NoHello
        BY <1>3 DEF Fresh, NoHello, Got
    <2>4. TimedOut(a, c)' /\ Rewound(a, c)'
        BY <1>1, <1>3, <1>5, <2>3 DEF Direction, TimedOut, Rewound, State, ControlOf, Got
    <2> QED BY <2>1, <2>2, <2>4 DEF Direction
<1>6. \A a \in Node : \E c \in Nat : Direction(a, c)'
    BY <1>5 DEF LinkInv
<1> QED BY <1>2, <1>4, <1>6 DEF LinkInv

LEMMA InitLink ==
    ASSUME Disciplined, Init
    PROVE  LinkInv
<1>1. ShapeInv
    BY InitShape
<1>2. BudgetInv
    BY BudgetAssumption DEF Init, BudgetInv, Disciplined
<1>3. ASSUME NEW n \in Node
      PROVE  /\ st[n].tx = NoFrame /\ State(n) = "Disconnected"
             /\ ControlOf(n) = ResetControl /\ st[n].i_queue = EmptyQueue(Window)
             /\ Waiting(st[n]) = {} /\ AtMostOne(st[n].s_queue)
             /\ st[n].peers[0].i_elapsed
             /\ line[n] = <<>> /\ accepted[n] = 0 /\ delivered[n] = <<>> /\ dropped[n] = {}
    <2>1. st[n] = NewStation(LocalAddr(n)) /\ 0 \in Peers(LocalAddr(n))
        BY NodeType, PeersType DEF Init
    <2>2. st[n].peers[0] = NewPeer /\ st[n].s_queue = EmptyQueue(SQueueSize)
        BY <2>1 DEF NewStation
    <2>3. Occupied(st[n].s_queue) = {}
        BY <2>2 DEF EmptyQueue, Occupied
    <2>4. Waiting(st[n]) = {} /\ AtMostOne(st[n].s_queue)
        BY <2>3 DEF Waiting, AtMostOne
    <2> QED BY <2>1, <2>2, <2>4 DEF NewStation, NewPeer, State, ControlOf, Init
<1>4. \A n \in Node : EndInv(n)
    <2>1. <<>> \in Seq(LinkFrame)
        BY EmptySeq
    <2> QED BY <1>3, <2>1 DEF EndInv
<1>5. \A n \in Node : HandshakeInv(n)
    BY <1>3, NodeType DEF HandshakeInv, AllSabm
<1>6. ASSUME NEW a \in Node PROVE Direction(a, 0)
    <2>1. Peer(a) \in Node /\ Got(a) = 0
        BY <1>3, NodeType DEF Got
    <2>2. 0 % SeqMod = 0 /\ 0 <= 0 + (SeqMod - 1)
        BY SeqModAssumption
    <2>3. Numbers(a, 0)
        BY <1>3, <2>1, <2>2 DEF Numbers, ResetControl
    <2>4. Holds(st[a].i_queue, 0, accepted[a])
        <3>1. Occupied(st[a].i_queue) = {}
            BY <1>3 DEF EmptyQueue, Occupied
        <3> QED BY <1>3, <3>1 DEF Holds
    <2>5. Acked(line[a], 0, Got(a))
        <3> DEFINE v == [i \in 1 .. 0 |-> 0]
        <3>1. v \in [1 .. 0 -> 0 .. 0] /\ 1 .. 0 = {} /\ Len(line[a]) = 0
            BY <1>3
        <3> HIDE DEF v
        <3> QED BY <2>1, <3>1 DEF Acked
    <2>6. OnWay(line[Peer(a)], accepted[a], Got(a)) /\ UpToDate(Waiting(st[Peer(a)]), Got(a))
        BY <1>3, <2>1 DEF OnWay, UpToDate
    <2> QED BY <1>3, <2>3, <2>4, <2>5, <2>6 DEF Direction, Flow, TimedOut, Rewound
<1> QED BY <1>1, <1>2, <1>4, <1>5, <1>6 DEF LinkInv

-------------------------------------------------------------------------------

LEMMA NextBudget ==
    ASSUME BudgetInv, Next
    PROVE  BudgetInv'
<1> SUFFICES ASSUME NEW n \in Node,
                    \/ UNCHANGED budget
                    \/ DisconnectOf(n)
                    \/ Lose(n)
             PROVE  BudgetInv'
    BY DEF Next, SendPacketOf, Receive, Transmit, TimeElapses
<1> QED BY DEF BudgetInv, DisconnectOf, Lose

(* A timer only runs out when nothing is on the line or about to be put    *)
(* there; then no end waits for the other to connect.                      *)
LEMMA TimeLink ==
    ASSUME Disciplined, LinkInv, NEW n \in Node, NEW timer \in {"i", "frame"},
           TimeElapses(n, timer)
    PROVE  LinkInv'
<1> DEFINE m == Peer(n)
<1>1. m \in Node /\ m # n /\ Peer(m) = n /\ \A k \in Node : k = n \/ k = m
    BY NodeType
<1>2. ShapeInv' /\ BudgetInv' /\ st'[n] = Elapse(st[n], 0, timer) /\ st'[m] = st[m]
    BY TimeShape, NextBudget DEF LinkInv, Next
<1>3. /\ line' = line /\ accepted' = accepted /\ delivered' = delivered /\ dropped' = dropped
      /\ TimerRuns(st[n].peers[0], timer)
    BY DEF TimeElapses
<1>4. \A k \in Node : line[k] = <<>> /\ Waiting(st[k]) = {} /\ ReadyPeers(st[k]) = {}
    BY DEF TimeElapses, Disciplined, LineQuiet, ServiceDone, Waiting
<1>5. st[n] \in Good(LocalAddr(n)) /\ st[n].peers[0] \in PeerInfo /\ DOMAIN st[n].peers = {0}
    BY OnePeer DEF LinkInv, ShapeInv
<1>6. /\ State(n)' = State(n) /\ ControlOf(n)' = ControlOf(n)
      /\ st'[n].peers[0].retries = st[n].peers[0].retries
      /\ timer = "frame" => st'[n].peers[0].i_elapsed = st[n].peers[0].i_elapsed
      /\ timer = "i" => st'[n].peers[0].frame_elapsed = st[n].peers[0].frame_elapsed
    <2> DEFINE i == [st[n].peers[0] EXCEPT !.i_elapsed = TRUE]
               frame == [st[n].peers[0] EXCEPT !.frame_elapsed = TRUE]
    <2>1. st'[n].peers[0] = IF timer = "i" THEN i ELSE frame
        BY <1>2, <1>5, OnePeer DEF Elapse, Station
    <2>2. /\ i.state = st[n].peers[0].state /\ i.control = st[n].peers[0].control
          /\ i.retries = st[n].peers[0].retries
          /\ i.frame_elapsed = st[n].peers[0].frame_elapsed
          /\ frame.state = st[n].peers[0].state /\ frame.control = st[n].peers[0].control
          /\ frame.retries = st[n].peers[0].retries
          /\ frame.i_elapsed = st[n].peers[0].i_elapsed
        BY <1>5 DEF PeerInfo
    <2> HIDE DEF i, frame
    <2> QED BY <2>1, <2>2 DEF State, ControlOf
<1>7. /\ st'[n].i_queue = st[n].i_queue /\ st'[n].s_queue = st[n].s_queue
      /\ st'[n].tx = st[n].tx
    BY <1>2, <1>5, OnePeer DEF Elapse, Station
<1> HIDE DEF m
<1>8. \A k \in Node : /\ State(k)' = State(k) /\ ControlOf(k)' = ControlOf(k)
                      /\ Waiting(st'[k]) = Waiting(st[k])
                      /\ st'[k].i_queue = st[k].i_queue /\ st'[k].s_queue = st[k].s_queue
                      /\ st'[k].tx = st[k].tx
                      /\ st'[k].peers[0].retries = st[k].peers[0].retries
    BY <1>1, <1>2, <1>6, <1>7 DEF State, ControlOf, Waiting
<1>9. \A k \in Node : EndInv(k)'
    BY <1>3, <1>8 DEF LinkInv, EndInv
<1>10. \A k \in Node : Peer(k) \in Node /\ ~ Greets(k) /\ ~ Greets(k)'
    BY <1>4, <1>8, NodeType DEF Greets
<1>11. \A k \in Node : State(k) # "Connecting"
    <2> TAKE k \in Node
    <2>1. HandshakeInv(k) /\ Peer(k) \in Node
        BY NodeType DEF LinkInv
    <2>2. line[k] = <<>> /\ line[Peer(k)] = <<>> /\ ~ Greets(Peer(k))
        BY <1>4, <1>10, <2>1
    <2> QED BY <2>1, <2>2 DEF HandshakeInv
<1>12. \A k \in Node : HandshakeInv(k)'
    <2> TAKE k \in Node
    <2>1. HandshakeInv(k) /\ Peer(k) \in Node
        BY NodeType DEF LinkInv
    <2>2. /\ State(k)' = State(k) /\ ControlOf(k)' = ControlOf(k)
          /\ Waiting(st'[k]) = Waiting(st[k]) /\ State(k) # "Connecting"
          /\ State(Peer(k))' = State(Peer(k)) /\ ~ Greets(Peer(k))
        BY <1>8, <1>10, <1>11, <2>1
    <2> QED BY <1>3, <2>1, <2>2 DEF HandshakeInv
<1>13. ASSUME NEW a \in Node, NEW c \in Nat, Direction(a, c) PROVE Direction(a, c)'
    <2>1. Numbers(a, c)'
        BY <1>3, <1>8, <1>10, <1>13 DEF Direction, Numbers, Got
    <2>2. Flow(a, c)'
        BY <1>3, <1>8, <1>10, <1>13 DEF Direction, Flow, Got
    <2>3. Fresh(a)' /\ NoHello'
        BY <1>3, <1>4, <1>10 DEF Fresh, NoHello
    <2>4. State(a) = "Connected" => State(Peer(a)) = "Connected"
        <3>1. Peer(a) \in Node /\ Peer(Peer(a)) = a
            BY NodeType
        <3>2. State(Peer(a)) \in {"Disconnected", "Connected"}
            BY <1>11, <3>1 DEF LinkInv, EndInv
        <3>3. State(Peer(a)) = "Disconnected" => State(a) # "Connected"
            BY <3>1 DEF LinkInv, HandshakeInv
        <3> QED BY <3>2, <3>3
    <2>5. TimedOut(a, c)'
        BY <1>4, <1>8, <1>10, <2>3, <2>4 DEF TimedOut
    <2>6. State(a) = "Connected" => ~ (st[a].peers[0].retries < Retries)
        <3> SUFFICES ASSUME State(a) = "Connected", st[a].peers[0].retries < Retries
                     PROVE  FALSE
            OBVIOUS
        <3>1. /\ c < accepted[a] /\ ControlOf(a).next_ns = c % SeqMod
              /\ ControlOf(a).last_ns = accepted[a] % SeqMod
              /\ accepted[a] <= c + (SeqMod - 1) /\ accepted[a] \in Nat
            BY <1>13 DEF Direction, Rewound, Numbers, LinkInv, ShapeInv
        <3>2. ControlOf(a).next_ns # ControlOf(a).last_ns
            BY <3>1, ModDistinct, SeqModAssumption
        <3>3. st[a] \in Good(LocalAddr(a)) /\ st[a].i_queue \in FrameQueueOf(Window, DataFrame)
            BY OnePeer DEF LinkInv, ShapeInv, Station
        <3>4. Matching(st[a].i_queue, Addr, ControlOf(a).next_ns) # {}
            BY <1>13, <3>1, <3>3, HoldsNext DEF Direction, Flow
        <3>5. 0 \in ReadyPeers(st[a])
            BY <3>2, <3>3, <3>4, OnePeer DEF ReadyPeers, AllFramesAreSent, State, ControlOf
        <3> QED BY <1>4, <3>5
    <2>7. Rewound(a, c)'
        BY <1>8, <2>6 DEF Rewound
    <2> QED BY <2>1, <2>2, <2>5, <2>7 DEF Direction
<1>14. \A a \in Node : \E c \in Nat : Direction(a, c)'
    BY <1>13 DEF LinkInv
<1> QED BY <1>2, <1>9, <1>12, <1>14 DEF LinkInv

LEMMA TailMembers ==
    ASSUME NEW way \in Seq(SentFrame), way # <<>>
    PROVE  \A i \in 1 .. Len(Tail(way)) : \E j \in 1 .. Len(way) : Tail(way)[i] = way[j]
BY TailIndex

(* Frames that are gone spoil nothing.                                     *)
LEMMA FreshLess ==
    ASSUME NEW a \in Node, Fresh(a), Got(a)' = Got(a),
           \A k \in Node : \A i \in 1 .. Len(line'[k]) :
               \E j \in 1 .. Len(line[k]) : line'[k][i] = line[k][j]
    PROVE  Fresh(a)'
<1>1. Peer(a) \in Node
    BY NodeType
<1>2. \A i \in 1 .. Len(line'[Peer(a)]) : line'[Peer(a)][i].type # "I"
    <2> TAKE i \in 1 .. Len(line'[Peer(a)])
    <2>1. PICK j \in 1 .. Len(line[Peer(a)]) : line'[Peer(a)][i] = line[Peer(a)][j]
        BY <1>1
    <2> QED BY <2>1 DEF Fresh
<1>3. \A i \in 1 .. Len(line'[a]) :
          line'[a][i].type \notin Hello => line'[a][i].nr = Got(a) % SeqMod
    <2> TAKE i \in 1 .. Len(line'[a])
    <2>1. PICK j \in 1 .. Len(line[a]) : line'[a][i] = line[a][j]
        OBVIOUS
    <2>2. line[a][j].type \notin Hello => line[a][j].nr = Got(a) % SeqMod
        BY DEF Fresh
    <2> QED BY <2>1, <2>2
<1> QED BY <1>2, <1>3 DEF Fresh

(* Only a frame of a connection is lost.                                   *)
LEMMA LoseLink ==
    ASSUME LinkInv, NEW n \in Node, Lose(n)
    PROVE  LinkInv'
<1>1. ShapeInv' /\ BudgetInv'
    BY LoseShape, NextBudget DEF LinkInv, Next
<1>2. \A k \in Node : State(k) = "Connected"
    BY DEF Lose, LinkInv, BudgetInv, LinkUp
<1>3. /\ st' = st /\ accepted' = accepted /\ delivered' = delivered /\ dropped' = dropped
      /\ line[n] # <<>> /\ line' = [line EXCEPT ![n] = Tail(line[n])]
    BY DEF Lose
<1>4. \A k \in Node : line[k] \in Seq(SentFrame) /\ line[k] \in Seq(LinkFrame)
    BY DEF LinkInv, ShapeInv, EndInv
<1>5. \A k \in Node : \/ line'[k] = line[k]
                      \/ line[k] # <<>> /\ line'[k] = Tail(line[k])
    BY <1>3 DEF LinkInv, ShapeInv
<1>6. \A k \in Node : \A i \in 1 .. Len(line'[k]) :
          \E j \in 1 .. Len(line[k]) : line'[k][i] = line[k][j]
    <2> TAKE k \in Node
    <2>1. CASE line'[k] = line[k]
        BY <2>1
    <2>2. CASE line[k] # <<>> /\ line'[k] = Tail(line[k])
        BY <1>4, <2>2, TailMembers
    <2> QED BY <1>5, <2>1, <2>2
<1>7. \A k \in Node : line'[k] \in Seq(LinkFrame)
    BY <1>4, <1>5, HeadTailProperties
<1>8. \A k \in Node : EndInv(k)'
    BY <1>3, <1>7 DEF LinkInv, EndInv, State
<1>9. \A k \in Node : HandshakeInv(k)'
    BY <1>2, <1>3 DEF HandshakeInv, State
<1>10. ASSUME NEW a \in Node, NEW c \in Nat, Direction(a, c) PROVE Direction(a, c)'
    <2>1. Peer(a) \in Node /\ Got(a)' = Got(a) /\ Got(a) \in Nat /\ accepted[a] \in Nat
        BY <1>3, NodeType DEF Got, LinkInv, ShapeInv
    <2>2. Numbers(a, c)'
        BY <1>3, <1>10, <2>1 DEF Direction, Numbers, ControlOf
    <2>3. OnWay(line'[Peer(a)], accepted[a], Got(a))
        BY <1>4, <1>5, <1>10, <2>1, WayTail DEF Direction, Flow
    <2>4. Acked(line'[a], c, Got(a))
        BY <1>4, <1>5, <1>10, <2>1, AckedTail DEF Direction, Flow
    <2>5. Flow(a, c)'
        BY <1>3, <1>10, <2>1, <2>3, <2>4 DEF Direction, Flow
    <2>6. Fresh(a) => Fresh(a)'
        BY <1>6, <2>1, FreshLess
    <2>7. NoHello => NoHello'
        BY <1>3, <1>6 DEF NoHello, Greets
    <2>8. TimedOut(a, c)'
        BY <1>2, <1>3, <1>10, <2>1, <2>6, <2>7 DEF Direction, TimedOut, State
    <2>9. Rewound(a, c)'
        BY <1>3, <1>10, <2>1, <2>6 DEF Direction, Rewound, State, ControlOf
    <2> QED BY <2>2, <2>5, <2>8, <2>9 DEF Direction
<1>11. \A a \in Node : \E c \in Nat : Direction(a, c)'
    BY <1>10 DEF LinkInv
<1> QED BY <1>1, <1>8, <1>9, <1>11 DEF LinkInv

LEMMA ModPeriod ==
    ASSUME NEW u \in Nat
    PROVE  (u + SeqMod) % SeqMod = u % SeqMod
<1> DEFINE p == u \div SeqMod
           r == u % SeqMod
<1>1. u = p * SeqMod + r /\ p \in Int /\ r \in 0 .. SeqMod - 1
    BY Division
<1> HIDE DEF p, r
<1>2. u + SeqMod = (p + 1) * SeqMod + r /\ p + 1 \in Int
    BY <1>1, SeqModAssumption
<1>3. (u + SeqMod) % SeqMod = r
    BY <1>1, <1>2, Remainder
<1> QED BY <1>3 DEF r

(* send_packet looks at tx_full, so the window never goes round the circle.*)
LEMMA SendLink ==
    ASSUME Disciplined, LinkInv, NEW n \in Node, SendPacketOf(n)
    PROVE  LinkInv'
<1> DEFINE m == Peer(n)
           data == accepted[n] + 1
           frame == IFrame(Addr, ControlOf(n).last_ns, 0, data)
<1>1. m \in Node /\ m # n /\ Peer(m) = n /\ \A k \in Node : k = n \/ k = m
    BY NodeType
<1>2. /\ ShapeInv' /\ BudgetInv'
      /\ st'[n] = SendPacket(st[n], 0, data) /\ st'[m] = st[m]
    BY SendShape, NextBudget DEF LinkInv, Next
<1>3. /\ line' = line /\ delivered' = delivered /\ dropped' = dropped
      /\ State(n) = "Connected"
      /\ ~ TxFull(ControlOf(n)) /\ HasFreeSlots(st[n].i_queue)
    BY DEF SendPacketOf, CanSendPacket, Disciplined, State, ControlOf
<1>4. /\ accepted[n] \in Nat /\ data \in Payload
      /\ accepted' = [accepted EXCEPT ![n] = data]
    <2>1. accepted[n] \in Nat /\ MaxSend[n] \in Nat /\ accepted[n] < MaxSend[n]
        BY BudgetAssumption DEF LinkInv, ShapeInv, SendPacketOf
    <2>2. data \in 1 .. MaxSend[n]
        BY <2>1
    <2> QED BY <2>1, <2>2, PayloadAssumption DEF SendPacketOf
<1>5. accepted'[n] = data /\ accepted'[m] = accepted[m]
    BY <1>1, <1>4 DEF LinkInv, ShapeInv
<1>6. st[n] \in Good(LocalAddr(n)) /\ st[n].peers[0] \in PeerInfo /\ ControlOf(n) \in Control
    BY OnePeer DEF LinkInv, ShapeInv, PeerInfo, ControlOf
<1> HIDE DEF m, data
<1>7. /\ st'[n].peers[0] = [st[n].peers[0] EXCEPT !.control = MoveToNextNs(ControlOf(n))]
      /\ st'[n].i_queue = Allocate(st[n].i_queue, Window, frame)
      /\ st'[n].s_queue = st[n].s_queue /\ st'[n].tx = st[n].tx
    BY <1>2, <1>4, <1>6, SendOutcome DEF ControlOf, Control0
<1>8. /\ State(n)' = State(n) /\ ControlOf(n)' = MoveToNextNs(ControlOf(n))
      /\ st'[n].peers[0].retries = st[n].peers[0].retries
      /\ st'[n].peers[0].i_elapsed = st[n].peers[0].i_elapsed
    BY <1>6, <1>7 DEF State, ControlOf, PeerInfo
<1>9. /\ ControlOf(n)'.last_ns = Succ(ControlOf(n).last_ns)
      /\ ControlOf(n)'.confirm_ns = ControlOf(n).confirm_ns
      /\ ControlOf(n)'.next_ns = ControlOf(n).next_ns
      /\ ControlOf(n)'.next_nr = ControlOf(n).next_nr
    BY <1>6, <1>8 DEF MoveToNextNs, Control
<1>10. \A k \in Node : /\ Waiting(st'[k]) = Waiting(st[k]) /\ State(k)' = State(k)
                       /\ st'[k].s_queue = st[k].s_queue /\ st'[k].tx = st[k].tx
                       /\ st'[k].peers[0].i_elapsed = st[k].peers[0].i_elapsed
                       /\ ControlOf(k)'.confirm_ns = ControlOf(k).confirm_ns
                       /\ ControlOf(k)'.next_nr = ControlOf(k).next_nr
    <2> DEFINE Same(k) == /\ Waiting(st'[k]) = Waiting(st[k]) /\ State(k)' = State(k)
                          /\ st'[k].s_queue = st[k].s_queue /\ st'[k].tx = st[k].tx
                          /\ st'[k].peers[0].i_elapsed = st[k].peers[0].i_elapsed
                          /\ ControlOf(k)'.confirm_ns = ControlOf(k).confirm_ns
                          /\ ControlOf(k)'.next_nr = ControlOf(k).next_nr
    <2>1. Same(n)
        BY <1>7, <1>8, <1>9 DEF Waiting
    <2>2. Same(m)
        BY <1>2 DEF Waiting, State, ControlOf
    <2> HIDE DEF Same
    <2>3. \A k \in Node : Same(k)
        BY <1>1, <2>1, <2>2
    <2> QED BY <2>3 DEF Same
<1>11. \A k \in Node : EndInv(k)'
    BY <1>3, <1>10 DEF LinkInv, EndInv
<1>12. \A k \in Node : Peer(k) \in Node /\ Greets(k)' = Greets(k)
    BY <1>10, NodeType DEF Greets
<1>13. NoHello' = NoHello /\ \A a \in Node : Got(a)' = Got(a) /\ Fresh(a)' = Fresh(a)
    BY <1>3, <1>12 DEF NoHello, Fresh, Got
<1>14. HandshakeInv(n)' /\ HandshakeInv(m)'
    <2>1. HandshakeInv(n)'
        BY <1>3, <1>8 DEF HandshakeInv
    <2>2. HandshakeInv(m)'
        BY <1>1, <1>2, <1>3, <1>5, <1>8, <1>12 DEF LinkInv, HandshakeInv, State, ControlOf
    <2> QED BY <2>1, <2>2
<1>15. ASSUME NEW c \in Nat, Direction(n, c) PROVE Direction(n, c)'
    <2>1. /\ c <= Got(n) /\ Got(n) <= accepted[n] /\ accepted[n] <= c + (SeqMod - 1)
          /\ ControlOf(n).last_ns = accepted[n] % SeqMod
          /\ ControlOf(n).confirm_ns = c % SeqMod
          /\ Got(n) \in Nat
        BY <1>1, <1>15 DEF Direction, Numbers, Got, LinkInv, ShapeInv, m
    <2>2. ControlOf(n)'.last_ns = data % SeqMod
        BY <1>4, <1>9, <2>1, ModSucc DEF data
    <2>3. data <= c + (SeqMod - 1)
        <3>1. data % SeqMod # c % SeqMod
            BY <1>3, <1>9, <2>1, <2>2 DEF TxFull
        <3>2. data # c + SeqMod
            BY <3>1, ModPeriod
        <3> QED BY <1>4, <2>1, <3>2, SeqModAssumption DEF data
    <2>4. Numbers(n, c)'
        <3>1. Got(n) <= data
            BY <1>4, <2>1 DEF data
        <3>2. /\ ControlOf(m).next_nr = Got(n) % SeqMod
              /\ \A i \in 1 .. Got(n) : delivered[m][i] = i
            BY <1>15 DEF Direction, Numbers, m
        <3> QED BY <1>1, <1>3, <1>5, <1>10, <1>13, <2>1, <2>2, <2>3, <3>1, <3>2
                DEF Numbers, m
    <2>5. Holds(st'[n].i_queue, c, data)
        <3>1. /\ frame \in DataFrame /\ frame.addr = Addr /\ frame.data = accepted[n] + 1
              /\ frame.ns = accepted[n] % SeqMod
            BY <1>4, <1>6, <2>1, FrameTypes, SeqModAssumption
               DEF IFrame, DataFrame, Control, SeqNum, Addr, Address, data
        <3>2. st[n].i_queue \in FrameQueueOf(Window, DataFrame)
            BY <1>6, OnePeer DEF Station
        <3>3. c <= accepted[n] /\ Holds(st[n].i_queue, c, accepted[n])
            BY <1>4, <1>15, <2>1 DEF Direction, Flow
        <3> HIDE DEF frame
        <3> QED BY <1>3, <1>4, <1>7, <3>1, <3>2, <3>3, HoldsMore DEF data
    <2>6. OnWay(line[m], data, Got(n))
        <3>1. OnWay(line[m], accepted[n], Got(n))
            BY <1>15 DEF Direction, Flow, m
        <3> QED BY <1>4, <3>1 DEF OnWay, data
    <2>7. Flow(n, c)'
        BY <1>1, <1>3, <1>5, <1>10, <1>13, <1>15, <2>5, <2>6 DEF Direction, Flow, m
    <2>8. TimedOut(n, c)'
        BY <1>1, <1>10, <1>13, <1>15 DEF Direction, TimedOut, m
    <2>9. Rewound(n, c)'
        BY <1>4, <1>5, <1>8, <1>9, <1>10, <1>13, <1>15, <2>1 DEF Direction, Rewound, data
    <2> QED BY <2>4, <2>7, <2>8, <2>9 DEF Direction
<1>16. ASSUME NEW c \in Nat, Direction(m, c) PROVE Direction(m, c)'
    <2>1. ControlOf(m)' = ControlOf(m) /\ st'[m] = st[m]
        BY <1>2 DEF ControlOf
    <2>2. Numbers(m, c)'
        BY <1>1, <1>3, <1>5, <1>10, <1>13, <1>16, <2>1 DEF Direction, Numbers
    <2>3. Flow(m, c)'
        BY <1>1, <1>3, <1>5, <1>10, <1>13, <1>16, <2>1 DEF Direction, Flow
    <2>4. TimedOut(m, c)'
        BY <1>1, <1>10, <1>13, <1>16 DEF Direction, TimedOut
    <2>5. Rewound(m, c)'
        BY <1>1, <1>5, <1>10, <1>13, <1>16, <2>1 DEF Direction, Rewound
    <2> QED BY <2>2, <2>3, <2>4, <2>5 DEF Direction
<1>17. \A a \in Node : \E c \in Nat : Direction(a, c)'
    BY <1>1, <1>15, <1>16 DEF LinkInv
<1> QED BY <1>1, <1>2, <1>11, <1>14, <1>17 DEF LinkInv

-------------------------------------------------------------------------------
(* get_tx_data.                                                            *)

LEMMA FinishOutcome ==
    ASSUME NEW n \in Node, NEW s \in Good(LocalAddr(n))
    PROVE  LET t == FinishTx(s)
           IN  /\ t.peers = s.peers /\ t.i_queue = s.i_queue /\ t.s_queue = s.s_queue
               /\ t.tx = NoFrame
BY OnePeer DEF FinishTx, Station

(* Nobody is told of a lost packet as long as the queue is left alone.     *)
LEMMA DropsNothing ==
    ASSUME ShapeInv, NEW n \in Node, NEW after, Becomes(n, after),
           after.peers[0].state = "Disconnected" => after.i_queue = st[n].i_queue
    PROVE  dropped' = dropped
<1>1. Purged(n, after) = {}
    BY DEF Purged, Queued
<1>2. dropped' = [dropped EXCEPT ![n] = dropped[n]]
    BY <1>1 DEF Becomes
<1> QED BY <1>2 DEF ShapeInv

(* What all cases of Transmit have in common.                              *)
LEMMA TransmitBasics ==
    ASSUME LinkInv, NEW n \in Node, Transmit(n)
    PROVE  LET ready == GenerateTxFrames(CheckTimeouts(st[n]))
               m == Peer(n)
           IN  /\ ShapeInv' /\ BudgetInv'
               /\ st'[n].peers = ready.peers /\ st'[n].i_queue = ready.i_queue
               /\ st'[n].s_queue = ready.s_queue /\ st'[n].tx = NoFrame
               /\ st'[m] = st[m]
               /\ accepted' = accepted /\ delivered' = delivered
               /\ (ready.peers[0].state = "Disconnected" => ready.i_queue = st[n].i_queue)
                     => dropped' = dropped
               /\ ready.tx = NoFrame => line' = line
               /\ ready.tx # NoFrame => /\ line'[m] = Append(line[m], ready.tx)
                                        /\ line'[n] = line[n]
<1> DEFINE ready == GenerateTxFrames(CheckTimeouts(st[n]))
           m == Peer(n)
           after == FinishTx(ready)
<1>1. /\ ShapeInv' /\ ready \in Good(LocalAddr(n))
      /\ st'[n] = after /\ st'[m] = st[m]
      /\ line' = IF ready.tx = NoFrame THEN line
                 ELSE [line EXCEPT ![m] = Append(line[m], ready.tx)]
    BY TransmitShape DEF LinkInv
<1>2. BudgetInv' /\ accepted' = accepted /\ delivered' = delivered
    BY NextBudget DEF LinkInv, Next, Transmit
<1>3. Becomes(n, after)
    BY DEF Transmit
<1> HIDE DEF ready
<1>4. /\ after.peers = ready.peers /\ after.i_queue = ready.i_queue
      /\ after.s_queue = ready.s_queue /\ after.tx = NoFrame
    BY <1>1, FinishOutcome
<1> HIDE DEF after
<1>5. (ready.peers[0].state = "Disconnected" => ready.i_queue = st[n].i_queue)
          => dropped' = dropped
    BY <1>3, <1>4, DropsNothing DEF LinkInv
<1>6. m \in Node /\ m # n
    BY NodeType
<1> HIDE DEF m
<1>7. ready.tx # NoFrame => line'[m] = Append(line[m], ready.tx) /\ line'[n] = line[n]
    BY <1>1, <1>6 DEF LinkInv, ShapeInv
<1> QED BY <1>1, <1>2, <1>4, <1>5, <1>7 DEF ready, m

(* Without a connection.                                                   *)
LEMMA TransmitIdle ==
    ASSUME LinkInv, NEW n \in Node, Transmit(n), State(n) # "Connected"
    PROVE  LinkInv' /\ st'[n].i_queue = st[n].i_queue
<1> DEFINE ready == GenerateTxFrames(CheckTimeouts(st[n]))
           m == Peer(n)
           sabm == UFrame("SABM", Addr)
<1>1. m \in Node /\ m # n /\ Peer(m) = n /\ \A k \in Node : k = n \/ k = m
    BY NodeType
<1>2. st[n] \in Good(LocalAddr(n)) /\ EndInv(n) /\ EndInv(m) /\ HandshakeInv(n) /\ HandshakeInv(m)
    BY <1>1 DEF LinkInv, ShapeInv
<1>3. /\ st[n].tx = NoFrame /\ Waiting(st[n]) = {} /\ Occupied(st[n].s_queue) = {}
      /\ \/ State(n) = "Disconnected"
         \/ State(n) = "Connecting" /\ ~ st[n].peers[0].frame_elapsed
    BY <1>2, WaitingType DEF EndInv, HandshakeInv
<1>4. \/ ready = st[n]
      \/ /\ State(n) = "Disconnected"
         /\ ready.peers[0].state = "Connecting" /\ ~ ready.peers[0].frame_elapsed
         /\ ready.peers[0].control = ControlOf(n) /\ ready.i_queue = st[n].i_queue
         /\ Occupied(ready.s_queue) = {} /\ ready.tx = sabm /\ ready.tx # NoFrame
    BY <1>2, <1>3, IdleOutcome DEF State, ControlOf, Control0
<1>5. /\ ShapeInv' /\ BudgetInv'
      /\ st'[n].peers = ready.peers /\ st'[n].i_queue = ready.i_queue
      /\ st'[n].s_queue = ready.s_queue /\ st'[n].tx = NoFrame
      /\ st'[m] = st[m] /\ accepted' = accepted /\ delivered' = delivered
      /\ (ready.peers[0].state = "Disconnected" => ready.i_queue = st[n].i_queue)
            => dropped' = dropped
      /\ ready.tx = NoFrame => line' = line
      /\ ready.tx # NoFrame => line'[m] = Append(line[m], ready.tx) /\ line'[n] = line[n]
    BY TransmitBasics
<1> HIDE DEF ready, m
<1>6. CASE ready = st[n]
    <2>1. line' = line /\ dropped' = dropped
        BY <1>3, <1>5, <1>6
    <2>2. \A k \in Node : /\ st'[k].peers[0] = st[k].peers[0]
                          /\ st'[k].i_queue = st[k].i_queue
                          /\ st'[k].s_queue = st[k].s_queue /\ st'[k].tx = st[k].tx
        BY <1>1, <1>3, <1>5, <1>6
    <2> QED BY <1>1, <1>5, <2>1, <2>2, SameLink
<1>7. CASE ready # st[n]
    <2>1. /\ State(n) = "Disconnected" /\ State(n)' = "Connecting"
          /\ ~ st'[n].peers[0].frame_elapsed
          /\ ControlOf(n)' = ControlOf(n) /\ st'[n].i_queue = st[n].i_queue
          /\ dropped' = dropped
          /\ line'[m] = Append(line[m], sabm) /\ line'[n] = line[n]
        BY <1>4, <1>5, <1>7 DEF State, ControlOf
    <2>2. Occupied(st'[n].s_queue) = {} /\ Waiting(st'[n]) = {} /\ AtMostOne(st'[n].s_queue)
        <3>1. Occupied(st'[n].s_queue) = {}
            BY <1>4, <1>5, <1>7
        <3> QED BY <3>1 DEF Waiting, AtMostOne
    <2>3. /\ State(m)' = State(m) /\ ControlOf(m)' = ControlOf(m)
          /\ State(m) # "Connected" /\ line[m] = <<>>
          /\ Greets(m)' = Greets(m) /\ ~ Greets(n)'
        BY <1>2, <1>5, <2>1, <2>2 DEF HandshakeInv, State, ControlOf, Greets, m
    <2>4. sabm \in LinkFrame /\ sabm \in SentFrame /\ sabm.type = "SABM"
        <3>1. sabm \in ServiceFrame
            BY FrameTypes, SeqModAssumption DEF UType, Addr, Address, SeqNum
        <3> QED BY <3>1 DEF LinkFrame, SentFrame, UFrame, Hello
    <2>5. /\ line'[m] # <<>> /\ Len(line'[m]) = 1 /\ line'[m][1] = sabm
          /\ line'[m] \in Seq(LinkFrame)
        BY <2>1, <2>3, <2>4
    <2> HIDE DEF sabm
    <2>6. EndInv(n)' /\ EndInv(m)'
        BY <1>2, <1>5, <2>1, <2>2, <2>3, <2>5 DEF EndInv
    <2>7. HandshakeInv(n)'
        <3>1. AllSabm(line[m])'
            BY <2>4, <2>5 DEF AllSabm
        <3> QED BY <1>1, <1>2, <1>3, <1>5, <2>1, <2>2, <2>3, <2>5, <3>1 DEF HandshakeInv, m
    <2>8. HandshakeInv(m)'
        <3>1. line'[m][1].type \in Hello
            BY <2>4, <2>5 DEF Hello
        <3>2. AllSabm(line[n])' /\ Waiting(st'[m]) = {} /\ ControlOf(m) = ResetControl
            BY <1>1, <1>2, <1>5, <2>1, <2>3 DEF HandshakeInv, AllSabm
        <3>3. State(m) = "Disconnected" => line'[n] = <<>>
            BY <1>1, <1>2, <2>1 DEF HandshakeInv
        <3>4. State(m) = "Connecting" => ~ st'[m].peers[0].frame_elapsed
            BY <1>2, <1>5 DEF HandshakeInv
        <3>5. accepted'[m] = 0 /\ delivered'[m] = <<>>
            BY <1>2, <1>5, <2>3 DEF HandshakeInv
        <3> QED BY <1>1, <2>1, <2>3, <2>5, <3>1, <3>2, <3>3, <3>4, <3>5 DEF HandshakeInv
    <2>9. ASSUME NEW c \in Nat, Direction(n, c) PROVE Direction(n, c)'
        <3>1. Got(n)' = Got(n) /\ Got(n) \in Nat /\ accepted[n] \in Nat /\ line[m] \in Seq(SentFrame)
            BY <1>1, <1>5 DEF Got, LinkInv, ShapeInv, m
        <3>2. Numbers(n, c)'
            BY <1>1, <1>5, <2>1, <2>3, <2>9, <3>1 DEF Direction, Numbers, m
        <3>3. OnWay(Append(line[m], sabm), accepted[n], Got(n))
            BY <2>4, <2>9, <3>1, WayAppend DEF Direction, Numbers, Flow, m
        <3>4. Flow(n, c)'
            BY <1>1, <1>5, <2>1, <2>3, <2>9, <3>1, <3>3 DEF Direction, Flow, m
        <3>5. TimedOut(n, c)' /\ Rewound(n, c)'
            BY <2>1 DEF TimedOut, Rewound
        <3> QED BY <3>2, <3>4, <3>5 DEF Direction
    <2>10. ASSUME NEW c \in Nat, Direction(m, c) PROVE Direction(m, c)'
        <3>1. Got(m)' = Got(m) /\ Got(m) \in Nat /\ c <= Got(m) /\ line[m] \in Seq(SentFrame)
            BY <1>1, <1>5, <2>10 DEF Direction, Numbers, Got, LinkInv, ShapeInv
        <3>2. Numbers(m, c)'
            BY <1>1, <1>5, <2>1, <2>3, <2>10, <3>1 DEF Direction, Numbers
        <3>3. Acked(Append(line[m], sabm), c, Got(m))
            BY <2>4, <2>10, <3>1, AckedAppend DEF Direction, Flow, Hello
        <3>4. UpToDate(Waiting(st'[n]), Got(m))
            BY <2>2 DEF UpToDate
        <3>5. Flow(m, c)'
            BY <1>1, <1>5, <2>1, <2>3, <2>10, <3>1, <3>3, <3>4 DEF Direction, Flow
        <3>6. TimedOut(m, c)' /\ Rewound(m, c)'
            BY <2>3 DEF TimedOut, Rewound
        <3> QED BY <3>2, <3>5, <3>6 DEF Direction
    <2>11. \A a \in Node : \E c \in Nat : Direction(a, c)'
        BY <1>1, <2>9, <2>10 DEF LinkInv
    <2> QED BY <1>1, <1>5, <2>1, <2>6, <2>7, <2>8, <2>11 DEF LinkInv
<1> QED BY <1>6, <1>7

(* With a connection: nothing, or what waits in the service queue, or the  *)
(* next I-frame.                                                           *)
LEMMA UpOutcome ==
    ASSUME Disciplined, LinkInv, NEW n \in Node, State(n) = "Connected",
           NEW c \in Nat, Direction(n, c)
    PROVE  LET t == GenerateTxFrames(CheckTimeouts(st[n]))
           IN  \/ t = st[n] /\ Waiting(st[n]) = {}
               \/ /\ t.peers[0].state = "Connected"
                  /\ Control0(t).last_ns = ControlOf(n).last_ns
                  /\ Control0(t).confirm_ns = ControlOf(n).confirm_ns
                  /\ Control0(t).next_nr = ControlOf(n).next_nr
                  /\ t.i_queue = st[n].i_queue /\ Occupied(t.s_queue) = {} /\ t.tx # NoFrame
                  /\ \/ /\ t.tx \in Waiting(st[n])
                        /\ \/ t.peers = st[n].peers
                           \/ /\ st[n].peers[0].i_elapsed /\ c < accepted[n]
                              /\ ~ t.peers[0].i_elapsed
                              /\ Control0(t).next_ns = ControlOf(n).confirm_ns
                     \/ /\ Waiting(st[n]) = {}
                        /\ ~ t.peers[0].i_elapsed /\ t.peers[0].retries = Retries
                        /\ \E i \in Occupied(st[n].i_queue) :
                              t.tx = [st[n].i_queue.frames[i] EXCEPT !.nr = ControlOf(n).next_nr]
<1> DEFINE s == st[n]
           u == CheckTimeouts(s)
           t == GenerateTxFrames(u)
<1>1. s \in Good(LocalAddr(n)) /\ EndInv(n) /\ s.peers[0] \in PeerInfo /\ ControlOf(n) \in Control
    BY OnePeer DEF LinkInv, ShapeInv, PeerInfo, ControlOf
<1>2. s.peers[0].i_elapsed => s.peers[0].retries # 0
    <2>1. Retries \in Nat /\ Retries # 0 /\ s.peers[0].retries \in 0 .. Retries
        BY <1>1, RetriesAssumption DEF Disciplined, PeerInfo
    <2>2. s.peers[0].i_elapsed => ~ (s.peers[0].retries < Retries)
        BY DEF Direction, Rewound
    <2> QED BY <2>1, <2>2
<1>3. \/ u = s /\ (s.peers[0].i_elapsed => ~ HasUnconfirmedFrames(ControlOf(n)))
      \/ /\ s.peers[0].i_elapsed /\ HasUnconfirmedFrames(ControlOf(n))
         /\ u.peers[0].state = "Connected" /\ ~ u.peers[0].i_elapsed
         /\ Control0(u) = RetransmitFrame(ControlOf(n), ControlOf(n).confirm_ns)
         /\ u.i_queue = s.i_queue /\ u.s_queue = s.s_queue /\ u.tx = s.tx
    BY <1>1, <1>2, RewindOutcome DEF State, ControlOf, Control0
<1>4. u \in Good(LocalAddr(n)) /\ Control0(u) \in Control
    <2>1. u \in Good(LocalAddr(n))
        BY <1>1, NodeType, CheckTimeoutsGood
    <2> HIDE DEF u
    <2> QED BY <2>1, OnePeer DEF PeerInfo, Control0
<1> HIDE DEF u
<1>5. /\ Control0(u).last_ns = ControlOf(n).last_ns
      /\ Control0(u).confirm_ns = ControlOf(n).confirm_ns
      /\ Control0(u).next_nr = ControlOf(n).next_nr
      /\ u.i_queue = s.i_queue /\ u.s_queue = s.s_queue /\ u.tx = NoFrame
      /\ u.peers[0].state = "Connected"
    BY <1>1, <1>3 DEF RetransmitFrame, Control, EndInv, State, ControlOf, Control0
<1>6. u # s => /\ s.peers[0].i_elapsed /\ ~ u.peers[0].i_elapsed
               /\ Control0(u).next_ns = ControlOf(n).confirm_ns
               /\ c < accepted[n]
    <2> SUFFICES ASSUME u # s
                 PROVE  /\ s.peers[0].i_elapsed /\ ~ u.peers[0].i_elapsed
                        /\ Control0(u).next_ns = ControlOf(n).confirm_ns
                        /\ c < accepted[n]
        OBVIOUS
    <2>1. Control0(u).next_ns = ControlOf(n).confirm_ns
        BY <1>1, <1>3 DEF RetransmitFrame, Control
    <2>2. c # accepted[n] /\ c <= accepted[n] /\ accepted[n] \in Nat
        <3>1. /\ accepted[n] \in Nat /\ c <= Got(n) /\ Got(n) <= accepted[n] /\ Got(n) \in Nat
              /\ ControlOf(n).last_ns = accepted[n] % SeqMod
              /\ ControlOf(n).confirm_ns = c % SeqMod
            BY NodeType DEF Direction, Numbers, Got, LinkInv, ShapeInv
        <3>2. ControlOf(n).confirm_ns # ControlOf(n).last_ns
            BY <1>3 DEF HasUnconfirmedFrames
        <3> QED BY <3>1, <3>2
    <2> QED BY <1>3, <2>1, <2>2
<1>7. Waiting(u) = Waiting(s) /\ AtMostOne(u.s_queue)
    BY <1>1, <1>5 DEF Waiting, EndInv
<1>8. CASE Occupied(u.s_queue) # {}
    <2>1. /\ t.peers = u.peers /\ t.i_queue = u.i_queue /\ Occupied(t.s_queue) = {}
          /\ t.tx \in Waiting(u) /\ t.tx # NoFrame
        BY <1>4, <1>5, <1>7, <1>8, ServiceOutcome
    <2> HIDE DEF t
    <2>2. t.peers = s.peers \/ u # s
        BY <2>1
    <2>3. Control0(t) = Control0(u) /\ t.peers[0] = u.peers[0]
        BY <2>1 DEF Control0
    <2> QED BY <1>5, <1>6, <1>7, <2>1, <2>2, <2>3 DEF t, u
<1>9. CASE Occupied(u.s_queue) = {}
    <2>1. Waiting(s) = {} /\ Occupied(s.s_queue) = {}
        BY <1>5, <1>9 DEF Waiting
    <2>2. CASE ReadyPeers(u) = {} /\ t = u
        <3>1. SUFFICES ASSUME u # s PROVE FALSE
            BY <2>1, <2>2 DEF u
        <3>2. /\ c < accepted[n] /\ Control0(u).next_ns = c % SeqMod
              /\ Control0(u).last_ns = accepted[n] % SeqMod
              /\ accepted[n] <= c + (SeqMod - 1) /\ accepted[n] \in Nat
            BY <1>5, <1>6, <3>1 DEF Direction, Numbers, LinkInv, ShapeInv
        <3>3. Control0(u).next_ns # Control0(u).last_ns
            <4>1. c # accepted[n] /\ c - accepted[n] < SeqMod /\ accepted[n] - c < SeqMod
                BY <3>2, SeqModAssumption
            <4>2. c % SeqMod # accepted[n] % SeqMod
                BY <3>2, <4>1, ModDistinct
            <4> QED BY <3>2, <4>2
        <3>4. s.i_queue \in FrameQueueOf(Window, DataFrame)
            BY <1>1, OnePeer DEF Station
        <3>5. Matching(u.i_queue, Addr, Control0(u).next_ns) # {}
            BY <1>5, <3>2, <3>4, HoldsNext DEF Direction, Flow
        <3>6. 0 \in ReadyPeers(u)
            BY <1>4, <1>5, <3>3, <3>5, OnePeer DEF ReadyPeers, AllFramesAreSent, Control0
        <3> QED BY <2>2, <3>6
    <2>3. CASE /\ ReadyPeers(u) # {}
               /\ t.peers[0].state = u.peers[0].state
               /\ Control0(t) = AdvanceNextNs(Control0(u))
               /\ ~ t.peers[0].i_elapsed /\ t.peers[0].retries = Retries
               /\ t.i_queue = u.i_queue /\ t.s_queue = u.s_queue
               /\ \E i \in Occupied(u.i_queue) :
                     t.tx = [u.i_queue.frames[i] EXCEPT !.nr = Control0(u).next_nr]
        <3> HIDE DEF t
        <3>1. /\ Control0(t).last_ns = Control0(u).last_ns
              /\ Control0(t).confirm_ns = Control0(u).confirm_ns
              /\ Control0(t).next_nr = Control0(u).next_nr
            BY <1>4, <2>3 DEF AdvanceNextNs, Control
        <3>2. t.tx # NoFrame
            <4>1. PICK i \in Occupied(s.i_queue) :
                      t.tx = [s.i_queue.frames[i] EXCEPT !.nr = ControlOf(n).next_nr]
                BY <1>5, <2>3
            <4>2. s.i_queue.frames[i] \in DataFrame /\ ControlOf(n).next_nr \in SeqNum
                BY <1>1, OnePeer, SlotType DEF Station, Control
            <4>3. t.tx \in DataFrame
                BY <4>1, <4>2 DEF DataFrame
            <4> QED BY <4>3, NoFrameAssumption DEF SentFrame
        <3> QED BY <1>5, <1>9, <2>1, <2>3, <3>1, <3>2 DEF t, u
    <2> QED BY <1>4, <1>5, <1>9, <2>2, <2>3, DataOutcome
<1> QED BY <1>8, <1>9

LEMMA TransmitUp ==
    ASSUME Disciplined, LinkInv, NEW n \in Node, Transmit(n), State(n) = "Connected"
    PROVE  LinkInv' /\ st'[n].i_queue = st[n].i_queue
<1> DEFINE t == GenerateTxFrames(CheckTimeouts(st[n]))
           m == Peer(n)
           f == t.tx
<1>1. m \in Node /\ m # n /\ Peer(m) = n /\ \A k \in Node : k = n \/ k = m
    BY NodeType
<1>2. st[n] \in Good(LocalAddr(n)) /\ EndInv(n) /\ EndInv(m) /\ HandshakeInv(n) /\ HandshakeInv(m)
    BY <1>1 DEF LinkInv, ShapeInv
<1>3. PICK c \in Nat : Direction(n, c)
    BY DEF LinkInv
<1>4. PICK d \in Nat : Direction(m, d)
    BY <1>1 DEF LinkInv
<1>5. /\ ShapeInv' /\ BudgetInv'
      /\ st'[n].peers = t.peers /\ st'[n].i_queue = t.i_queue
      /\ st'[n].s_queue = t.s_queue /\ st'[n].tx = NoFrame
      /\ st'[m] = st[m] /\ accepted' = accepted /\ delivered' = delivered
      /\ (t.peers[0].state = "Disconnected" => t.i_queue = st[n].i_queue)
            => dropped' = dropped
      /\ t.tx = NoFrame => line' = line
      /\ t.tx # NoFrame => line'[m] = Append(line[m], f) /\ line'[n] = line[n]
    BY TransmitBasics
<1>6. \/ t = st[n] /\ Waiting(st[n]) = {}
      \/ /\ t.peers[0].state = "Connected"
         /\ Control0(t).last_ns = ControlOf(n).last_ns
         /\ Control0(t).confirm_ns = ControlOf(n).confirm_ns
         /\ Control0(t).next_nr = ControlOf(n).next_nr
         /\ t.i_queue = st[n].i_queue /\ Occupied(t.s_queue) = {} /\ f # NoFrame
         /\ \/ /\ f \in Waiting(st[n])
               /\ \/ t.peers = st[n].peers
                  \/ /\ st[n].peers[0].i_elapsed /\ c < accepted[n]
                     /\ ~ t.peers[0].i_elapsed
                     /\ Control0(t).next_ns = ControlOf(n).confirm_ns
            \/ /\ Waiting(st[n]) = {}
               /\ ~ t.peers[0].i_elapsed /\ t.peers[0].retries = Retries
               /\ \E i \in Occupied(st[n].i_queue) :
                     f = [st[n].i_queue.frames[i] EXCEPT !.nr = ControlOf(n).next_nr]
    BY <1>3, UpOutcome
<1> HIDE DEF t, m
<1>7. CASE t = st[n]
    <2>1. line' = line /\ dropped' = dropped
        BY <1>2, <1>5, <1>7 DEF EndInv
    <2>2. \A k \in Node : /\ st'[k].peers[0] = st[k].peers[0]
                          /\ st'[k].i_queue = st[k].i_queue
                          /\ st'[k].s_queue = st[k].s_queue /\ st'[k].tx = st[k].tx
        BY <1>1, <1>2, <1>5, <1>7 DEF EndInv
    <2> QED BY <1>1, <1>5, <2>1, <2>2, SameLink
<1>8. CASE t # st[n]
    <2>1. /\ State(n)' = "Connected"
          /\ ControlOf(n)'.last_ns = ControlOf(n).last_ns
          /\ ControlOf(n)'.confirm_ns = ControlOf(n).confirm_ns
          /\ ControlOf(n)'.next_nr = ControlOf(n).next_nr
          /\ st'[n].i_queue = st[n].i_queue /\ Occupied(st'[n].s_queue) = {}
          /\ dropped' = dropped
          /\ line'[m] = Append(line[m], f) /\ line'[n] = line[n]
        BY <1>5, <1>6, <1>8 DEF State, ControlOf, Control0
    <2>2. Waiting(st'[n]) = {} /\ AtMostOne(st'[n].s_queue)
        BY <2>1 DEF Waiting, AtMostOne
    <2>3. /\ \/ f \in Waiting(st[n])
                /\ \/ st'[n].peers[0] = st[n].peers[0]
                   \/ /\ st[n].peers[0].i_elapsed /\ c < accepted[n]
                      /\ ~ st'[n].peers[0].i_elapsed
                      /\ ControlOf(n)'.next_ns = ControlOf(n).confirm_ns
             \/ /\ Waiting(st[n]) = {}
                /\ ~ st'[n].peers[0].i_elapsed /\ st'[n].peers[0].retries = Retries
                /\ \E i \in Occupied(st[n].i_queue) :
                      f = [st[n].i_queue.frames[i] EXCEPT !.nr = ControlOf(n).next_nr]
        BY <1>5, <1>6, <1>8 DEF ControlOf, Control0
    <2>4. State(m)' = State(m) /\ ControlOf(m)' = ControlOf(m) /\ Greets(m)' = Greets(m)
        BY <1>5 DEF State, ControlOf, Greets
    <2>5. /\ accepted[n] \in Nat /\ accepted[m] \in Nat
          /\ Got(n) \in Nat /\ Got(m) \in Nat /\ Got(n)' = Got(n) /\ Got(m)' = Got(m)
          /\ line[n] \in Seq(SentFrame) /\ line[m] \in Seq(SentFrame)
        <3>1. /\ accepted \in [Node -> Nat] /\ delivered \in [Node -> Seq(Payload)]
              /\ line \in [Node -> Seq(SentFrame)]
            BY DEF LinkInv, ShapeInv
        <3>2. Got(n) \in Nat /\ Got(m) \in Nat
            BY <1>1, <3>1, LenProperties DEF Got, m
        <3>3. Got(n)' = Got(n) /\ Got(m)' = Got(m)
            BY <1>5 DEF Got
        <3> QED BY <1>1, <3>1, <3>2, <3>3
    <2>6. /\ c <= Got(n) /\ Got(n) <= accepted[n] /\ accepted[n] <= c + (SeqMod - 1)
          /\ d <= Got(m) /\ ControlOf(n).next_nr = Got(m) % SeqMod
        BY <1>1, <1>3, <1>4 DEF Direction, Numbers
    <2>7. /\ f \in LinkFrame /\ f \in SentFrame
          /\ f.type \notin Hello => f.nr = Got(m) % SeqMod
          /\ f.type = "I" => /\ f.data \in 1 .. accepted[n]
                             /\ f.ns = (f.data - 1) % SeqMod
                             /\ accepted[n] < f.data + (SeqMod - 1)
          /\ f \in Waiting(st[n]) => f.type # "I"
          /\ f \notin Waiting(st[n]) => f.type \notin Hello
        <3>1. CASE f \in Waiting(st[n])
            <4>1. f \in ServiceFrame /\ f \in LinkFrame
                BY <1>2, <3>1, WaitingType DEF EndInv
            <4>2. f.type # "I"
                BY <4>1 DEF ServiceFrame, UType, SType
            <4>3. f.type \notin Hello => f.nr = Got(m) % SeqMod
                BY <1>1, <1>4, <3>1 DEF Direction, Flow, UpToDate
            <4> QED BY <3>1, <4>1, <4>2, <4>3, LinkFrameType
        <3>2. CASE f \notin Waiting(st[n])
            <4>1. PICK i \in Occupied(st[n].i_queue) :
                      f = [st[n].i_queue.frames[i] EXCEPT !.nr = ControlOf(n).next_nr]
                BY <2>3, <3>2
            <4> DEFINE g == st[n].i_queue.frames[i]
            <4>2. g \in DataFrame
                BY <1>2, OnePeer, SlotType DEF Station
            <4>3. /\ g.addr = Addr /\ g.data \in c + 1 .. accepted[n]
                  /\ g.ns = (g.data - 1) % SeqMod
                BY <1>3 DEF Direction, Flow, Holds
            <4>4. ControlOf(n).next_nr \in SeqNum
                BY <1>2, OnePeer DEF PeerInfo, Control, ControlOf
            <4> HIDE DEF g, f
            <4>5. f = [g EXCEPT !.nr = ControlOf(n).next_nr]
                BY <4>1 DEF g
            <4> DEFINE nr == ControlOf(n).next_nr
            <4>6. /\ f \in DataFrame /\ f.type = "I" /\ f.addr = Addr
                  /\ f.data = g.data /\ f.ns = g.ns /\ f.nr = ControlOf(n).next_nr
                <5> HIDE DEF nr
                <5>1. f = [g EXCEPT !.nr = nr] /\ nr \in SeqNum
                    BY <4>4, <4>5 DEF nr
                <5>2. f \in DataFrame
                    BY <4>2, <5>1 DEF DataFrame
                <5>3. DOMAIN g = {"type", "addr", "ns", "nr", "data"} /\ g.type = "I"
                    BY <4>2 DEF DataFrame
                <5>4. /\ f.type = g.type /\ f.addr = g.addr
                      /\ f.data = g.data /\ f.ns = g.ns /\ f.nr = nr
                    BY <5>1, <5>3
                <5> QED BY <4>3, <5>2, <5>3, <5>4 DEF nr
            <4>7. f \in LinkFrame /\ f \in SentFrame /\ f.type \notin Hello
                BY <4>6 DEF LinkFrame, SentFrame, Hello
            <4>8. f.data \in 1 .. accepted[n] /\ accepted[n] < f.data + (SeqMod - 1)
                BY SMTT(30), <2>5, <2>6, <4>3, <4>6, SeqModAssumption
            <4>9. f.nr = Got(m) % SeqMod /\ f.ns = (f.data - 1) % SeqMod
                BY <2>6, <4>3, <4>6
            <4> QED BY <3>2, <4>7, <4>8, <4>9
        <3> QED BY <3>1, <3>2
    <2> HIDE DEF f
    <2>8. EndInv(n)' /\ EndInv(m)'
        <3>1. line'[m] \in Seq(LinkFrame)
            BY <1>2, <2>1, <2>7 DEF EndInv
        <3> QED BY <1>2, <1>5, <2>1, <2>2, <2>4, <3>1 DEF EndInv
    <2>9. HandshakeInv(n)'
        BY <2>1 DEF HandshakeInv
    <2>10. HandshakeInv(m)'
        <3> SUFFICES ASSUME State(m) # "Connected" PROVE HandshakeInv(m)'
            BY <2>4 DEF HandshakeInv
        <3>1. /\ ControlOf(m) = ResetControl /\ Waiting(st[m]) = {}
              /\ accepted[m] = 0 /\ delivered[m] = <<>> /\ AllSabm(line[n])
              /\ line[m] # <<>> => line[m][1].type \in Hello
              /\ Greets(n) \/ line[m] # <<>>
            BY <1>1, <1>2 DEF HandshakeInv
        <3>2. line'[m] # <<>> /\ line'[m][1].type \in Hello
            <4>1. CASE line[m] # <<>>
                <5>1. Len(line[m]) \in Nat /\ 1 \in 1 .. Len(line[m])
                    BY <2>5, <4>1, TailIndex
                <5> QED BY <2>1, <2>5, <2>7, <3>1, <4>1, <5>1, AppendIndex
            <4>2. CASE line[m] = <<>>
                <5>1. f \in Waiting(st[n]) /\ Waiting(st[n]) = {f}
                    <6>1. PICK g \in Waiting(st[n]) : g.type \in Hello
                        BY <3>1, <4>2 DEF Greets
                    <6>2. f \in Waiting(st[n])
                        BY <2>3, <6>1
                    <6> QED BY <1>2, <6>2 DEF EndInv, AtMostOne, Waiting
                <5>2. f.type \in Hello
                    BY <3>1, <4>2, <5>1 DEF Greets
                <5>3. line'[m] = <<f>>
                    BY <2>1, <4>2
                <5> QED BY <5>2, <5>3
            <4> QED BY <4>1, <4>2
        <3>3. State(m) # "Disconnected"
            BY <1>1, <1>2 DEF HandshakeInv
        <3>4. State(m) = "Connecting" => ~ st'[m].peers[0].frame_elapsed
            BY <1>2, <1>5 DEF HandshakeInv
        <3>5. AllSabm(line[n])'
            BY <2>1, <3>1 DEF AllSabm
        <3> QED BY <1>1, <1>5, <2>4, <3>1, <3>2, <3>3, <3>4, <3>5 DEF HandshakeInv
    <2>11. f.type \notin Hello => (NoHello => NoHello')
        <3> SUFFICES ASSUME f.type \notin Hello, NoHello PROVE NoHello'
            OBVIOUS
        <3>1. ~ Greets(n)' /\ ~ Greets(m)'
            BY <1>1, <2>2, <2>4 DEF Greets, NoHello
        <3>2. \A i \in 1 .. Len(line'[n]) : line'[n][i].type \notin Hello
            BY <2>1 DEF NoHello
        <3>3. \A i \in 1 .. Len(line'[m]) : line'[m][i].type \notin Hello
            BY <1>1, <2>1, <2>5, <2>7, AppendIndex DEF NoHello
        <3> QED BY <1>1, <3>1, <3>2, <3>3 DEF NoHello
    <2>12. NoHello => f.type \notin Hello
        BY <2>7 DEF NoHello, Greets
    <2>13. f.type # "I" => (Fresh(n) => Fresh(n)')
        <3> SUFFICES ASSUME f.type # "I", Fresh(n) PROVE Fresh(n)'
            OBVIOUS
        <3>1. \A i \in 1 .. Len(line'[m]) : line'[m][i].type # "I"
            BY <2>1, <2>5, <2>7, AppendIndex DEF Fresh, m
        <3> QED BY <2>1, <2>5, <3>1 DEF Fresh, m
    <2>14. Fresh(m) => Fresh(m)'
        <3> SUFFICES ASSUME Fresh(m) PROVE Fresh(m)'
            OBVIOUS
        <3>1. \A i \in 1 .. Len(line'[m]) :
                  line'[m][i].type \notin Hello => line'[m][i].nr = Got(m) % SeqMod
            BY <2>1, <2>5, <2>7, AppendIndex DEF Fresh
        <3> QED BY <1>1, <2>1, <2>5, <3>1 DEF Fresh
    <2>15. Direction(n, c)'
        <3>1. Numbers(n, c)'
            BY <1>1, <1>3, <1>5, <2>1, <2>4, <2>5 DEF Direction, Numbers, m
        <3>2. OnWay(Append(line[m], f), accepted[n], Got(n))
            BY <1>3, <2>5, <2>6, <2>7, WayAppend DEF Direction, Flow, m
        <3>3. Flow(n, c)'
            BY <1>1, <1>3, <1>5, <2>1, <2>5, <3>2 DEF Direction, Flow, m
        <3>4. TimedOut(n, c)'
            <4> SUFFICES ASSUME st'[n].peers[0].i_elapsed
                         PROVE  Fresh(n)' /\ NoHello' /\ State(m)' = "Connected"
                BY <2>2 DEF TimedOut, m
            <4>1. f \in Waiting(st[n]) /\ st[n].peers[0].i_elapsed
                BY <2>3
            <4>2. Fresh(n) /\ NoHello /\ State(m) = "Connected"
                BY <1>3, <4>1 DEF Direction, TimedOut, m
            <4> QED BY <2>4, <2>7, <2>11, <2>12, <2>13, <4>1, <4>2
        <3>5. Rewound(n, c)'
            <4> SUFFICES ASSUME st'[n].peers[0].retries < Retries
                         PROVE  /\ ~ st'[n].peers[0].i_elapsed
                                /\ Fresh(n)' /\ c = Got(n) /\ c < accepted[n]
                                /\ ControlOf(n)'.next_ns = ControlOf(n)'.confirm_ns
                BY <1>5, <2>5 DEF Rewound
            <4>1. f \in Waiting(st[n])
                BY <2>3, RetriesAssumption
            <4>2. CASE st'[n].peers[0] = st[n].peers[0]
                <5>1. /\ ~ st[n].peers[0].i_elapsed /\ Fresh(n) /\ c = Got(n) /\ c < accepted[n]
                      /\ ControlOf(n).next_ns = ControlOf(n).confirm_ns
                    BY <1>3, <4>2 DEF Direction, Rewound
                <5> QED BY <2>7, <2>13, <4>1, <4>2, <5>1 DEF ControlOf
            <4>3. CASE /\ st[n].peers[0].i_elapsed /\ c < accepted[n]
                       /\ ~ st'[n].peers[0].i_elapsed
                       /\ ControlOf(n)'.next_ns = ControlOf(n).confirm_ns
                <5>1. Fresh(n) /\ c = Got(n)
                    BY <1>3, <4>1, <4>3 DEF Direction, TimedOut
                <5> QED BY <2>1, <2>7, <2>13, <4>1, <4>3, <5>1
            <4> QED BY <2>3, <4>1, <4>2, <4>3, RetriesAssumption
        <3> QED BY <3>1, <3>3, <3>4, <3>5 DEF Direction
    <2>16. Direction(m, d)'
        <3>1. Numbers(m, d)'
            BY <1>1, <1>4, <1>5, <2>1, <2>4, <2>5 DEF Direction, Numbers
        <3>2. Acked(Append(line[m], f), d, Got(m))
            BY <1>4, <2>5, <2>6, <2>7, AckedAppend DEF Direction, Flow
        <3>3. Flow(m, d)'
            <4>1. UpToDate(Waiting(st'[n]), Got(m))
                BY <2>2 DEF UpToDate
            <4> QED BY <1>1, <1>4, <1>5, <2>1, <2>5, <3>2, <4>1 DEF Direction, Flow
        <3>4. TimedOut(m, d)'
            BY <1>1, <1>4, <1>5, <2>1, <2>4, <2>5, <2>11, <2>12, <2>14 DEF Direction, TimedOut
        <3>5. Rewound(m, d)'
            BY <1>1, <1>4, <1>5, <2>4, <2>5, <2>14 DEF Direction, Rewound
        <3> QED BY <3>1, <3>3, <3>4, <3>5 DEF Direction
    <2>17. \A a \in Node : \E e \in Nat : Direction(a, e)'
        BY <1>1, <2>15, <2>16
    <2> QED BY <1>1, <1>5, <2>1, <2>8, <2>9, <2>10, <2>17 DEF LinkInv
<1> QED BY <1>7, <1>8

-------------------------------------------------------------------------------
(* on_rx_data.                                                             *)

(* What all cases of Receive have in common.                               *)
LEMMA ReceiveBasics ==
    ASSUME Disciplined, LinkInv, NEW n \in Node, Receive(n)
    PROVE  LET m == Peer(n)
               h == Head(line[n])
               t == OnFrameReceived(st[n], h)
               takes == h.type = "I" /\ State(n) \in {"Connected", "Disconnecting"}
                            /\ h.ns = ControlOf(n).next_nr
           IN  /\ ShapeInv' /\ BudgetInv'
               /\ st'[n] = t /\ st'[m] = st[m]
               /\ accepted' = accepted /\ delivered'[m] = delivered[m]
               /\ delivered'[n] = IF takes THEN Append(delivered[n], h.data) ELSE delivered[n]
               /\ t.peers[0].state # "Disconnected" => dropped' = dropped
               /\ line[n] # <<>> /\ line'[n] = Tail(line[n]) /\ line'[m] = line[m]
               /\ h \in LinkFrame /\ h = line[n][1] /\ line'[n] \in Seq(LinkFrame)
               /\ Occupied(st[n].s_queue) = {} /\ Waiting(st[n]) = {}
<1> DEFINE m == Peer(n)
           h == Head(line[n])
           t == OnFrameReceived(st[n], h)
           takes == h.type = "I" /\ State(n) \in {"Connected", "Disconnecting"}
                        /\ h.ns = ControlOf(n).next_nr
<1>1. m \in Node /\ m # n
    BY NodeType
<1>2. /\ line[n] # <<>> /\ line' = [line EXCEPT ![n] = Tail(line[n])]
      /\ Occupied(st[n].s_queue) = {} /\ Waiting(st[n]) = {}
    BY DEF Receive, TakeFrame, Disciplined, ServiceDone, Waiting
<1>3. line[n] \in Seq(LinkFrame) /\ line \in [Node -> Seq(SentFrame)]
    BY DEF LinkInv, EndInv, ShapeInv
<1>4. h \in LinkFrame /\ h = line[n][1] /\ Tail(line[n]) \in Seq(LinkFrame)
    BY <1>2, <1>3, HeadTailProperties
<1>5. ShapeInv' /\ st'[n] = t /\ st'[m] = st[m]
    BY ReceiveShape DEF LinkInv
<1>6. BudgetInv' /\ accepted' = accepted
    BY NextBudget DEF LinkInv, Next, Receive
<1>7. Delivers(st[n], h) <=> takes
    <2>1. h.addr = Addr
        BY <1>4 DEF LinkFrame
    <2>2. AddressFieldToPeer(st[n], Addr) = {0}
        BY OnePeer DEF LinkInv, ShapeInv
    <2> HIDE DEF h
    <2> QED BY <2>1, <2>2 DEF Delivers, InSession, State, ControlOf
<1>8. delivered' = [delivered EXCEPT ![n] = IF Delivers(st[n], h)
                                            THEN Append(delivered[n], h.data)
                                            ELSE delivered[n]]
    BY DEF Receive
<1>9. Becomes(n, t)
    BY DEF Receive
<1> HIDE DEF m, h, t, takes
<1>10. /\ delivered'[m] = delivered[m]
       /\ delivered'[n] = IF takes THEN Append(delivered[n], h.data) ELSE delivered[n]
    BY <1>1, <1>7, <1>8 DEF LinkInv, ShapeInv
<1>11. t.peers[0].state # "Disconnected" => dropped' = dropped
    BY <1>9, DropsNothing DEF LinkInv
<1>12. line'[n] = Tail(line[n]) /\ line'[m] = line[m]
    BY <1>1, <1>2, <1>3
<1> QED BY <1>2, <1>4, <1>5, <1>6, <1>10, <1>11, <1>12 DEF m, h, t, takes

(* A frame that opens a connection, or would.                              *)
LEMMA ReceiveHello ==
    ASSUME Disciplined, LinkInv, NEW n \in Node, Receive(n), Head(line[n]).type \in Hello
    PROVE  LinkInv' /\ st'[n].i_queue = st[n].i_queue
<1> DEFINE m == Peer(n)
           h == Head(line[n])
           t == OnFrameReceived(st[n], h)
           ua == UFrame("UA", Addr)
<1>1. m \in Node /\ m # n /\ Peer(m) = n /\ \A k \in Node : k = n \/ k = m
    BY NodeType
<1>2. st[n] \in Good(LocalAddr(n)) /\ EndInv(n) /\ EndInv(m) /\ HandshakeInv(n) /\ HandshakeInv(m)
    BY <1>1 DEF LinkInv, ShapeInv
<1>3. PICK c \in Nat : Direction(n, c)
    BY DEF LinkInv
<1>4. PICK d \in Nat : Direction(m, d)
    BY <1>1 DEF LinkInv
<1>5. /\ ShapeInv' /\ BudgetInv'
      /\ st'[n] = t /\ st'[m] = st[m]
      /\ accepted' = accepted /\ delivered'[m] = delivered[m] /\ delivered'[n] = delivered[n]
      /\ t.peers[0].state # "Disconnected" => dropped' = dropped
      /\ line[n] # <<>> /\ line'[n] = Tail(line[n]) /\ line'[m] = line[m]
      /\ h \in LinkFrame /\ h = line[n][1] /\ line'[n] \in Seq(LinkFrame)
      /\ Occupied(st[n].s_queue) = {} /\ Waiting(st[n]) = {}
    BY ReceiveBasics DEF Hello
<1>6. /\ accepted[n] \in Nat /\ accepted[m] \in Nat
      /\ Got(n) \in Nat /\ Got(m) \in Nat /\ Got(n)' = Got(n) /\ Got(m)' = Got(m)
      /\ line[n] \in Seq(SentFrame) /\ line[m] \in Seq(SentFrame)
    <2>1. /\ accepted \in [Node -> Nat] /\ delivered \in [Node -> Seq(Payload)]
          /\ line \in [Node -> Seq(SentFrame)]
        BY DEF LinkInv, ShapeInv
    <2>2. Got(n) \in Nat /\ Got(m) \in Nat
        BY <1>1, <2>1, LenProperties DEF Got
    <2>3. Got(n)' = Got(n) /\ Got(m)' = Got(m)
        BY <1>1, <1>5 DEF Got
    <2> QED BY <1>1, <2>1, <2>2, <2>3
<1>7. Len(line[n]) \in Nat /\ 1 \in 1 .. Len(line[n])
    BY <1>5, <1>6, TailIndex
<1> HIDE DEF t, m, h
<1>8. ~ NoHello
    <2>1. line[n][1].type \in Hello
        BY <1>5 DEF h
    <2> QED BY <1>7, <2>1 DEF NoHello
<1>9. /\ t.peers[0].state = "Connected" /\ t.peers[0].control = ControlOf(n)
      /\ \/ State(n) = "Connected" /\ t.peers[0] = st[n].peers[0]
         \/ State(n) # "Connected" /\ t.peers[0].retries = Retries /\ ~ t.peers[0].i_elapsed
      /\ t.i_queue = st[n].i_queue /\ t.tx = NoFrame
      /\ AtMostOne(t.s_queue) /\ Waiting(t) \subseteq {ua}
      /\ h.type = "SABM" => Waiting(t) = {ua}
    <2>1. h \in Frame /\ h.addr = Addr /\ h.type \in {"SABM", "UA"}
        BY <1>5, LinkFrameType DEF LinkFrame, Hello, h
    <2>2. CASE State(n) = "Connected"
        <3>1. /\ t.peers = st[n].peers /\ t.i_queue = st[n].i_queue /\ t.tx = st[n].tx
              /\ AtMostOne(t.s_queue)
              /\ h.type = "UA" => Occupied(t.s_queue) = {}
              /\ h.type = "SABM" => Waiting(t) = {ua}
            BY <1>2, <1>5, <2>1, <2>2, HelloAnswered DEF State, t
        <3>2. h.type = "UA" => Waiting(t) = {}
            BY <3>1 DEF Waiting
        <3> QED BY <1>2, <2>1, <2>2, <3>1, <3>2 DEF State, ControlOf, EndInv
    <2>3. CASE State(n) # "Connected"
        <3>1. h.type = "UA" => State(n) = "Connecting"
            <4> SUFFICES ASSUME State(n) = "Disconnected" PROVE h.type = "SABM"
                BY <1>2, <2>1, <2>3 DEF EndInv
            <4>1. AllSabm(line[n])
                BY <1>1, <1>2 DEF HandshakeInv, m
            <4> QED BY <1>5, <1>7, <4>1 DEF AllSabm
        <3>2. /\ t.peers[0].state = "Connected" /\ t.peers[0].control = ResetControl
              /\ t.peers[0].retries = Retries /\ ~ t.peers[0].i_elapsed
              /\ t.i_queue = st[n].i_queue /\ t.tx = st[n].tx
              /\ AtMostOne(t.s_queue)
              /\ h.type = "UA" => Occupied(t.s_queue) = {}
              /\ h.type = "SABM" => Waiting(t) = {ua}
            <4>1. st[n].peers[0].control = ResetControl
                BY <1>2, <2>3 DEF HandshakeInv, ControlOf
            <4>2. st[n].peers[0].state \in {"Disconnected", "Connecting"}
                BY <1>2, <2>3 DEF EndInv, State
            <4>3. \/ h.type = "SABM"
                  \/ h.type = "UA" /\ st[n].peers[0].state = "Connecting"
                BY <2>1, <3>1 DEF State
            <4> DEFINE s == st[n]
            <4>4. /\ s \in Good(LocalAddr(n)) /\ Occupied(s.s_queue) = {}
                  /\ s.peers[0].state \in {"Disconnected", "Connecting"}
                  /\ s.peers[0].control = ResetControl
                  /\ \/ h.type = "SABM"
                     \/ h.type = "UA" /\ s.peers[0].state = "Connecting"
                BY <1>2, <1>5, <4>1, <4>2, <4>3
            <4> HIDE DEF s
            <4>5. LET r == OnFrameReceived(s, h)
                  IN  /\ r.peers[0].state = "Connected" /\ r.peers[0].control = ResetControl
                      /\ r.peers[0].retries = Retries /\ ~ r.peers[0].i_elapsed
                      /\ r.i_queue = s.i_queue /\ r.tx = s.tx
                      /\ AtMostOne(r.s_queue)
                      /\ h.type = "UA" => Occupied(r.s_queue) = {}
                      /\ h.type = "SABM" => Waiting(r) = {ua}
                BY <2>1, <4>4, HelloConnects
            <4> QED BY <4>5 DEF s, t
        <3>3. h.type = "UA" => Waiting(t) = {}
            BY <3>2 DEF Waiting
        <3>4. ControlOf(n) = ResetControl
            BY <1>2, <2>3 DEF HandshakeInv
        <3> QED BY <1>2, <2>1, <2>3, <3>2, <3>3, <3>4 DEF EndInv
    <2> QED BY <2>2, <2>3
<1>10. ua \in LinkFrame /\ ua.type = "UA" /\ ua.type \in Hello
    <2>1. ua \in ServiceFrame
        BY FrameTypes, SeqModAssumption DEF UType, Addr, Address, SeqNum
    <2> QED BY <2>1 DEF LinkFrame, SentFrame, UFrame, Hello
<1> HIDE DEF ua
<1>11. /\ State(n)' = "Connected" /\ ControlOf(n)' = ControlOf(n) /\ dropped' = dropped
       /\ State(m)' = State(m) /\ ControlOf(m)' = ControlOf(m)
    BY <1>5, <1>9 DEF State, ControlOf
<1>12. EndInv(n)' /\ EndInv(m)'
    BY <1>2, <1>5, <1>9, <1>10, <1>11 DEF EndInv
<1>13. HandshakeInv(n)'
    BY <1>11 DEF HandshakeInv
<1>14. HandshakeInv(m)'
    <2> SUFFICES ASSUME State(m) # "Connected" PROVE HandshakeInv(m)'
        BY <1>11 DEF HandshakeInv
    <2>1. /\ ControlOf(m) = ResetControl /\ Waiting(st[m]) = {}
          /\ accepted[m] = 0 /\ delivered[m] = <<>> /\ AllSabm(line[n])
          /\ line[m] # <<>> => line[m][1].type \in Hello
          /\ State(m) # "Disconnected"
          /\ State(m) = "Connecting" => ~ st[m].peers[0].frame_elapsed
        BY <1>1, <1>2, <1>5 DEF HandshakeInv
    <2>2. h.type = "SABM"
        BY <1>5, <1>7, <2>1 DEF AllSabm
    <2>3. Greets(n)'
        BY <1>5, <1>9, <1>10, <2>2 DEF Greets
    <2>4. AllSabm(line[n])'
        BY <1>5, <1>6, <2>1, TailMembers DEF AllSabm
    <2> QED BY <1>1, <1>5, <1>11, <2>1, <2>3, <2>4 DEF HandshakeInv
<1>15. \A k \in Node : \A i \in 1 .. Len(line'[k]) :
           \E j \in 1 .. Len(line[k]) : line'[k][i] = line[k][j]
    <2> DEFINE Kept(k) == \A i \in 1 .. Len(line'[k]) :
                              \E j \in 1 .. Len(line[k]) : line'[k][i] = line[k][j]
    <2>1. Kept(n)
        <3> DEFINE way == line[n]
                   rest == line'[n]
        <3>1. way \in Seq(SentFrame) /\ way # <<>> /\ rest = Tail(way)
            BY <1>5, <1>6
        <3> HIDE DEF way, rest
        <3>2. \A i \in 1 .. Len(rest) : \E j \in 1 .. Len(way) : rest[i] = way[j]
            BY <3>1, TailMembers
        <3> QED BY <3>2 DEF way, rest
    <2>2. Kept(m)
        BY <1>5
    <2> HIDE DEF Kept
    <2>3. \A k \in Node : Kept(k)
        BY <1>1, <2>1, <2>2
    <2> QED BY <2>3 DEF Kept
<1>16. Direction(n, c)'
    <2>1. Numbers(n, c)'
        BY <1>1, <1>3, <1>5, <1>6, <1>11 DEF Direction, Numbers, m
    <2>2. Acked(line'[n], c, Got(n))
        BY <1>3, <1>5, <1>6, AckedTail DEF Direction, Flow
    <2>3. Flow(n, c)'
        BY <1>1, <1>3, <1>5, <1>6, <1>9, <2>2 DEF Direction, Flow, m
    <2>4. ~ st'[n].peers[0].i_elapsed
        BY <1>3, <1>5, <1>8, <1>9 DEF Direction, TimedOut
    <2>5. Rewound(n, c)'
        <3> SUFFICES ASSUME st'[n].peers[0].retries < Retries
                     PROVE  /\ Fresh(n)' /\ c = Got(n) /\ c < accepted[n]
                            /\ ControlOf(n)'.next_ns = ControlOf(n)'.confirm_ns
            BY <1>5, <1>6, <2>4 DEF Rewound
        <3>1. State(n) = "Connected" /\ st[n].peers[0].retries < Retries
            BY <1>5, <1>9, RetriesAssumption
        <3> QED BY <1>3, <1>6, <1>11, <1>15, <3>1, FreshLess DEF Direction, Rewound
    <2> QED BY <2>1, <2>3, <2>4, <2>5 DEF Direction, TimedOut
<1>17. Direction(m, d)'
    <2>1. Numbers(m, d)'
        BY <1>1, <1>4, <1>5, <1>6, <1>11 DEF Direction, Numbers
    <2>2. OnWay(line'[n], accepted[m], Got(m))
        BY <1>1, <1>4, <1>5, <1>6, WayTail DEF Direction, Flow
    <2>3. UpToDate(Waiting(st'[n]), Got(m))
        BY <1>5, <1>9, <1>10 DEF UpToDate
    <2>4. Flow(m, d)'
        BY <1>1, <1>4, <1>5, <1>6, <2>2, <2>3 DEF Direction, Flow
    <2>5. TimedOut(m, d)'
        BY <1>4, <1>5, <1>8, <1>11 DEF Direction, TimedOut
    <2>6. Rewound(m, d)'
        BY <1>1, <1>4, <1>5, <1>6, <1>11, <1>15, FreshLess DEF Direction, Rewound
    <2> QED BY <2>1, <2>4, <2>5, <2>6 DEF Direction
<1>18. \A a \in Node : \E e \in Nat : Direction(a, e)'
    BY <1>1, <1>16, <1>17
<1> QED BY <1>1, <1>5, <1>9, <1>12, <1>13, <1>14, <1>18 DEF LinkInv

(* A frame of the connection.                                              *)
LEMMA ReceiveSession ==
    ASSUME Disciplined, LinkInv, NEW n \in Node, Receive(n), Head(line[n]).type \notin Hello
    PROVE  /\ LinkInv'
           /\ \E seqs : st'[n].i_queue = FreeByNs(st[n].i_queue, Addr, seqs)
<1> DEFINE m == Peer(n)
           h == Head(line[n])
           t == OnFrameReceived(st[n], h)
           takes == h.type = "I" /\ h.ns = ControlOf(n).next_nr
           got == Got(m)
<1>1. m \in Node /\ m # n /\ Peer(m) = n /\ \A k \in Node : k = n \/ k = m
    BY NodeType
<1>2. st[n] \in Good(LocalAddr(n)) /\ EndInv(n) /\ EndInv(m) /\ HandshakeInv(n) /\ HandshakeInv(m)
    BY <1>1 DEF LinkInv, ShapeInv
<1>3. PICK c \in Nat : Direction(n, c)
    BY DEF LinkInv
<1>4. PICK d \in Nat : Direction(m, d)
    BY <1>1 DEF LinkInv
<1>5. /\ line[n] # <<>> /\ line'[n] = Tail(line[n]) /\ line'[m] = line[m]
      /\ h \in LinkFrame /\ h = line[n][1] /\ line'[n] \in Seq(LinkFrame)
      /\ Occupied(st[n].s_queue) = {} /\ Waiting(st[n]) = {}
    BY ReceiveBasics
<1>6. /\ accepted[n] \in Nat /\ accepted[m] \in Nat /\ delivered[n] \in Seq(Payload)
      /\ Got(n) \in Nat /\ got \in Nat /\ got = Len(delivered[n])
      /\ line[n] \in Seq(SentFrame) /\ line[m] \in Seq(SentFrame)
    <2>1. /\ accepted \in [Node -> Nat] /\ delivered \in [Node -> Seq(Payload)]
          /\ line \in [Node -> Seq(SentFrame)]
        BY DEF LinkInv, ShapeInv
    <2>2. Got(n) \in Nat /\ Got(m) \in Nat /\ got = Len(delivered[n])
        BY <1>1, <2>1, LenProperties DEF Got
    <2> QED BY <1>1, <2>1, <2>2
<1>7. Len(line[n]) \in Nat /\ 1 \in 1 .. Len(line[n])
    BY <1>5, <1>6, TailIndex
<1>8. State(n) = "Connected" /\ State(m) = "Connected"
    <2>1. State(n) = "Connected"
        BY <1>2, <1>5 DEF HandshakeInv
    <2>2. State(m) # "Connected" => h.type = "SABM"
        BY <1>1, <1>2, <1>5, <1>7 DEF HandshakeInv, AllSabm
    <2> QED BY <2>1, <2>2 DEF Hello
<1>9. /\ ShapeInv' /\ BudgetInv'
      /\ st'[n] = t /\ st'[m] = st[m]
      /\ accepted' = accepted /\ delivered'[m] = delivered[m]
      /\ delivered'[n] = IF takes THEN Append(delivered[n], h.data) ELSE delivered[n]
      /\ t.peers[0].state # "Disconnected" => dropped' = dropped
    BY <1>8, ReceiveBasics
<1> HIDE DEF t, m, h
<1>10. h \in Frame /\ h.addr = Addr /\ h.type \in {"RR", "REJ", "I"} /\ h \in SentFrame
    BY <1>5, LinkFrameType DEF LinkFrame, h
<1>11. /\ t.peers[0].state = "Connected"
       /\ Control0(t).last_ns = ControlOf(n).last_ns
       /\ Control0(t).confirm_ns = h.nr
       /\ Control0(t).next_ns = IF h.type = "REJ" THEN h.nr ELSE ControlOf(n).next_ns
       /\ Control0(t).next_nr = IF takes THEN Succ(ControlOf(n).next_nr)
                                ELSE ControlOf(n).next_nr
       /\ t.peers[0].i_elapsed = st[n].peers[0].i_elapsed
       /\ t.peers[0].retries = IF h.type = "RR" THEN Retries ELSE st[n].peers[0].retries
       /\ t.i_queue = FreeByNs(st[n].i_queue, Addr, Confirmed(ControlOf(n), h.nr))
       /\ t.tx = NoFrame
       /\ AtMostOne(t.s_queue) /\ Waiting(t) \subseteq AnswerFrame(t)
    <2>1. st[n].tx = NoFrame /\ st[n].peers[0].state = "Connected"
        BY <1>2, <1>8 DEF EndInv, State
    <2>2. ControlOf(n) = Control0(st[n])
        BY DEF ControlOf, Control0
    <2> DEFINE s == st[n]
    <2>3. s \in Good(LocalAddr(n)) /\ Occupied(s.s_queue) = {} /\ s.peers[0].state = "Connected"
        BY <1>2, <1>5, <2>1
    <2> HIDE DEF s
    <2>4. LET r == OnFrameReceived(s, h)
              accepts == h.type = "I" /\ h.ns = Control0(s).next_nr
          IN  /\ r.peers[0].state = "Connected"
              /\ Control0(r).last_ns = Control0(s).last_ns
              /\ Control0(r).confirm_ns = h.nr
              /\ Control0(r).next_ns = IF h.type = "REJ" THEN h.nr ELSE Control0(s).next_ns
              /\ Control0(r).next_nr = IF accepts THEN Succ(Control0(s).next_nr)
                                       ELSE Control0(s).next_nr
              /\ r.peers[0].i_elapsed = s.peers[0].i_elapsed
              /\ r.peers[0].retries = IF h.type = "RR" THEN Retries ELSE s.peers[0].retries
              /\ r.i_queue = FreeByNs(s.i_queue, Addr, Confirmed(Control0(s), h.nr))
              /\ r.tx = s.tx
              /\ AtMostOne(r.s_queue) /\ Waiting(r) \subseteq AnswerFrame(r)
        BY <1>10, <2>3, SessionOutcome
    <2> QED BY <2>1, <2>2, <2>4 DEF s, t
<1>12. /\ State(n)' = "Connected" /\ ControlOf(n)' = Control0(t) /\ dropped' = dropped
       /\ State(m)' = "Connected" /\ ControlOf(m)' = ControlOf(m)
    BY <1>8, <1>9, <1>11 DEF State, ControlOf, Control0
<1>13. \A f \in Waiting(t) : /\ f \in LinkFrame /\ f.type \notin Hello
                             /\ f.nr = ControlOf(n)'.next_nr
    <2>1. Control0(t).next_nr \in SeqNum
        <3>1. ControlOf(n)'.next_nr \in SeqNum
            BY <1>9, OnePeer DEF ShapeInv, PeerInfo, Control, ControlOf
        <3> QED BY <1>12, <3>1
    <2> SUFFICES ASSUME NEW type \in {"RR", "REJ"}
                 PROVE  LET f == SFrame(type, Addr, Control0(t).next_nr)
                        IN  /\ f \in LinkFrame /\ f.type \notin Hello
                            /\ f.nr = Control0(t).next_nr
        BY <1>11, <1>12 DEF AnswerFrame
    <2> DEFINE nr == Control0(t).next_nr
               f == SFrame(type, Addr, nr)
    <2> HIDE DEF nr
    <2>2. f.type = type /\ f.addr = Addr /\ f.nr = nr
        BY DEF SFrame, UFrame
    <2>3. f \in ServiceFrame
        BY <2>1, FrameTypes, SeqModAssumption DEF SType, Addr, Address, SeqNum, nr
    <2> HIDE DEF f
    <2>4. f \in LinkFrame /\ f.type \notin Hello
        BY <2>2, <2>3 DEF LinkFrame, SentFrame, Hello
    <2> QED BY <2>2, <2>4 DEF f, nr
<1>14. EndInv(n)' /\ EndInv(m)'
    <2>1. EndInv(n)'
        <3>1. Waiting(t) \subseteq LinkFrame
            BY <1>13
        <3> QED BY <1>2, <1>5, <1>9, <1>11, <1>12, <3>1 DEF EndInv
    <2>2. EndInv(m)'
        BY <1>1, <1>2, <1>5, <1>9, <1>12 DEF EndInv
    <2> QED BY <2>1, <2>2
<1>15. HandshakeInv(n)' /\ HandshakeInv(m)'
    BY <1>12 DEF HandshakeInv
<1>16. \A k \in Node : \A i \in 1 .. Len(line'[k]) :
           \E j \in 1 .. Len(line[k]) : line'[k][i] = line[k][j]
    <2> DEFINE Kept(k) == \A i \in 1 .. Len(line'[k]) :
                              \E j \in 1 .. Len(line[k]) : line'[k][i] = line[k][j]
    <2>1. Kept(n)
        <3> DEFINE way == line[n]
                   rest == line'[n]
        <3>1. way \in Seq(SentFrame) /\ way # <<>> /\ rest = Tail(way)
            BY <1>5, <1>6
        <3> HIDE DEF way, rest
        <3>2. \A i \in 1 .. Len(rest) : \E j \in 1 .. Len(way) : rest[i] = way[j]
            BY <3>1, TailMembers
        <3> QED BY <3>2 DEF way, rest
    <2>2. Kept(m)
        BY <1>5
    <2> HIDE DEF Kept
    <2>3. \A k \in Node : Kept(k)
        BY <1>1, <2>1, <2>2
    <2> QED BY <2>3 DEF Kept
<1>17. NoHello => NoHello'
    <2> SUFFICES ASSUME NoHello PROVE NoHello'
        OBVIOUS
    <2>1. ~ Greets(n)' /\ ~ Greets(m)'
        BY <1>1, <1>9, <1>13 DEF Greets, NoHello
    <2>2. \A k \in Node : \A i \in 1 .. Len(line'[k]) : line'[k][i].type \notin Hello
        BY <1>16 DEF NoHello
    <2> QED BY <1>1, <2>1, <2>2 DEF NoHello
<1>18. /\ c <= Got(n) /\ Got(n) <= accepted[n] /\ accepted[n] <= c + (SeqMod - 1)
       /\ ControlOf(n).last_ns = accepted[n] % SeqMod
       /\ ControlOf(n).confirm_ns = c % SeqMod
       /\ d <= got /\ got <= accepted[m] /\ accepted[m] <= d + (SeqMod - 1)
       /\ ControlOf(n).next_nr = got % SeqMod
       /\ \A i \in 1 .. got : delivered[n][i] = i
    BY <1>1, <1>3, <1>4 DEF Direction, Numbers
<1>19. PICK u \in c .. Got(n) : h.nr = u % SeqMod /\ Acked(line'[n], u, Got(n))
    <2>1. Acked(line[n], c, Got(n))
        BY <1>3 DEF Direction, Flow
    <2> QED BY SMTT(30), <1>5, <1>6, <2>1, AckedTail DEF h
<1>20. u \in Nat /\ c <= u /\ u <= Got(n)
    BY <1>6, <1>19
<1>21. Got(n)' = Got(n)
    BY <1>1, <1>9 DEF Got, m
<1>22. Direction(n, u)'
    <2>1. accepted[n] <= u + (SeqMod - 1)
        <3>1. accepted[n] <= c + (SeqMod - 1)
            BY <1>18
        <3> QED BY <1>6, <1>20, <3>1, SeqModAssumption
    <2>2. Numbers(n, u)'
        <3>1. /\ ControlOf(m).next_nr = Got(n) % SeqMod
              /\ \A i \in 1 .. Got(n) : delivered[m][i] = i
            BY <1>3 DEF Direction, Numbers, m
        <3>2. /\ ControlOf(n)'.last_ns = accepted[n] % SeqMod
              /\ ControlOf(n)'.confirm_ns = u % SeqMod
            BY <1>11, <1>12, <1>18, <1>19
        <3> QED BY <1>9, <1>12, <1>18, <1>20, <1>21, <2>1, <3>1, <3>2 DEF Numbers, m
    <2>3. Holds(st'[n].i_queue, u, accepted[n])
        <3>1. st[n].i_queue \in FrameQueueOf(Window, DataFrame)
            BY <1>2, OnePeer DEF Station
        <3>2. Holds(st[n].i_queue, c, accepted[n])
            BY <1>3 DEF Direction, Flow
        <3>3. u \in c .. accepted[n]
            <4>1. Got(n) <= accepted[n]
                BY <1>18
            <4> QED BY <1>6, <1>20, <4>1
        <3>4. Holds(FreeByNs(st[n].i_queue, Addr, Confirmed(ControlOf(n), u % SeqMod)),
                    u, accepted[n])
            BY <1>6, <1>18, <3>1, <3>2, <3>3, HoldsLess
        <3> QED BY <1>9, <1>11, <1>19, <3>4
    <2>4. Flow(n, u)'
        BY <1>1, <1>3, <1>5, <1>9, <1>19, <1>21, <2>3 DEF Direction, Flow, m
    <2>5. Fresh(n) => Fresh(n)' /\ u = Got(n)
        <3> SUFFICES ASSUME Fresh(n) PROVE Fresh(n)' /\ u = Got(n)
            OBVIOUS
        <3>1. Fresh(n)'
            BY <1>16, <1>21, FreshLess
        <3>2. h.nr = Got(n) % SeqMod
            BY <1>5, <1>7 DEF Fresh, h
        <3>3. u - Got(n) < SeqMod /\ Got(n) - u < SeqMod
            <4>1. Got(n) <= accepted[n] /\ accepted[n] <= u + (SeqMod - 1)
                BY <1>18, <2>1
            <4> QED BY SMTT(30), <1>6, <1>20, <4>1, SeqModAssumption
        <3>4. u = Got(n)
            BY <1>6, <1>19, <1>20, <3>2, <3>3, ModDistinct
        <3> QED BY <3>1, <3>4
    <2>6. TimedOut(n, u)'
        BY <1>1, <1>3, <1>8, <1>9, <1>11, <1>12, <1>17, <1>21, <2>5 DEF Direction, TimedOut, m
    <2>7. Rewound(n, u)'
        <3> SUFFICES ASSUME st'[n].peers[0].retries < Retries
                     PROVE  /\ ~ st'[n].peers[0].i_elapsed
                            /\ Fresh(n)' /\ u = Got(n) /\ u < accepted[n]
                            /\ ControlOf(n)'.next_ns = ControlOf(n)'.confirm_ns
            BY <1>9, <1>21 DEF Rewound
        <3>1. h.type # "RR" /\ st[n].peers[0].retries < Retries
            BY <1>9, <1>11, RetriesAssumption
        <3>2. /\ ~ st[n].peers[0].i_elapsed /\ Fresh(n) /\ c = Got(n) /\ c < accepted[n]
              /\ ControlOf(n).next_ns = ControlOf(n).confirm_ns
            BY <1>3, <1>8, <3>1 DEF Direction, Rewound
        <3>3. u = c /\ h.nr = ControlOf(n).confirm_ns
            BY <1>18, <1>19, <2>5, <3>2
        <3> QED BY <1>9, <1>11, <1>12, <2>5, <3>2, <3>3
    <2> QED BY <2>2, <2>4, <2>6, <2>7 DEF Direction
<1>23. takes => h.data = got + 1 /\ got + 1 <= accepted[m]
    <2> SUFFICES ASSUME takes PROVE h.data = got + 1 /\ got + 1 <= accepted[m]
        OBVIOUS
    <2>1. OnWay(line[n], accepted[m], got)
        BY <1>1, <1>4 DEF Direction, Flow
    <2>2. h.data = got + 1
        <3>1. line[n] # <<>> /\ Head(line[n]) = h /\ h.type = "I" /\ h.ns = got % SeqMod
            BY <1>5, <1>18 DEF h
        <3>2. d <= got /\ got <= accepted[m] /\ accepted[m] <= d + (SeqMod - 1)
            BY <1>18
        <3> HIDE DEF got
        <3> QED BY <1>6, <2>1, <3>1, <3>2, WayHead
    <2>3. h.data \in 1 .. accepted[m]
        BY <1>5, <1>7, <2>1 DEF OnWay
    <2> QED BY <1>6, <2>2, <2>3
<1>24. takes => ~ Fresh(m)
    <2>1. h.type = "I" => ~ Fresh(m)
        BY <1>1, <1>5, <1>7 DEF Fresh
    <2> QED BY <2>1
<1> DEFINE next == IF takes THEN got + 1 ELSE got
<1>25. /\ Got(m)' = next /\ next \in Nat /\ d <= next /\ next <= accepted[m]
       /\ \A i \in 1 .. next : delivered'[n][i] = i
    <2>1. CASE takes
        <3>1. delivered'[n] = Append(delivered[n], got + 1)
            BY <1>9, <1>23, <2>1
        <3>2. Len(delivered'[n]) = got + 1
            BY <1>6, <3>1
        <3>3. \A i \in 1 .. got + 1 : delivered'[n][i] = i
            BY <1>6, <1>18, <3>1
        <3>4. Got(m)' = got + 1
            BY <1>1, <3>2 DEF Got
        <3> QED BY <1>6, <1>18, <1>23, <2>1, <3>3, <3>4
    <2>2. CASE ~ takes
        <3>1. Got(m)' = got
            BY <1>1, <1>6, <1>9, <2>2 DEF Got
        <3> QED BY <1>6, <1>9, <1>18, <2>2, <3>1
    <2> QED BY <2>1, <2>2
<1>26. ControlOf(n)'.next_nr = next % SeqMod
    <2>1. (got + 1) % SeqMod = Succ(got % SeqMod)
        BY <1>6, ModSucc
    <2> QED BY <1>11, <1>12, <1>18, <2>1
<1>27. Direction(m, d)'
    <2>1. Numbers(m, d)'
        <3>1. /\ ControlOf(m).last_ns = accepted[m] % SeqMod
              /\ ControlOf(m).confirm_ns = d % SeqMod
            BY <1>4 DEF Direction, Numbers
        <3> HIDE DEF next
        <3> QED BY <1>1, <1>9, <1>12, <1>18, <1>25, <1>26, <3>1 DEF Numbers
    <2>2. OnWay(line'[n], accepted[m], next)
        <3>1. OnWay(line[n], accepted[m], got)
            BY <1>1, <1>4 DEF Direction, Flow
        <3>2. OnWay(Tail(line[n]), accepted[m], got)
            BY <1>5, <1>6, <3>1, WayTail
        <3>3. takes => OnWay(Tail(line[n]), accepted[m], got + 1)
            BY <1>5, <1>6, <1>23, <3>1, WayTail DEF h
        <3> QED BY <1>5, <3>2, <3>3
    <2>3. Acked(line[m], d, next)
        <3>1. Acked(line[m], d, got)
            BY <1>4 DEF Direction, Flow
        <3>2. Acked(line[m], d, got + 1)
            BY <1>6, <3>1, AckedMore
        <3> QED BY <3>1, <3>2
    <2>4. UpToDate(Waiting(st'[n]), next)
        <3> HIDE DEF next
        <3> QED BY <1>9, <1>13, <1>26 DEF UpToDate
    <2>5. Flow(m, d)'
        <3>1. Holds(st[m].i_queue, d, accepted[m])
            BY <1>4 DEF Direction, Flow
        <3> HIDE DEF next
        <3> QED BY <1>1, <1>5, <1>9, <1>25, <2>2, <2>3, <2>4, <3>1 DEF Flow
    <2>6. Fresh(m) => Fresh(m)' /\ Got(m)' = got
        <3> SUFFICES ASSUME Fresh(m) PROVE Fresh(m)' /\ Got(m)' = got
            OBVIOUS
        <3>1. Got(m)' = Got(m)
            BY <1>24, <1>25
        <3> QED BY <1>1, <1>16, <3>1, FreshLess
    <2>7. TimedOut(m, d)'
        BY <1>1, <1>4, <1>8, <1>9, <1>12, <1>17, <2>6 DEF Direction, TimedOut
    <2>8. Rewound(m, d)'
        BY <1>4, <1>8, <1>9, <1>12, <2>6 DEF Direction, Rewound
    <2> QED BY <2>1, <2>5, <2>7, <2>8 DEF Direction
<1>28. \A a \in Node : \E e \in Nat : Direction(a, e)'
    BY <1>1, <1>20, <1>22, <1>27
<1>29. \E seqs : st'[n].i_queue = FreeByNs(st[n].i_queue, Addr, seqs)
    BY <1>9, <1>11
<1> QED BY <1>1, <1>9, <1>14, <1>15, <1>28, <1>29 DEF LinkInv

-------------------------------------------------------------------------------
(* The invariant holds.                                                    *)

LEMMA NextLink ==
    ASSUME Disciplined, LinkInv, [Next]_vars
    PROVE  LinkInv'
<1>1. ASSUME NEW n \in Node, SendPacketOf(n) PROVE LinkInv'
    BY <1>1, SendLink
<1>2. ASSUME NEW n \in Node, DisconnectOf(n) PROVE LinkInv'
    BY <1>2 DEF DisconnectOf, LinkInv, BudgetInv
<1>3. ASSUME NEW n \in Node, Receive(n) PROVE LinkInv'
    BY <1>3, ReceiveHello, ReceiveSession
<1>4. ASSUME NEW n \in Node, Transmit(n) PROVE LinkInv'
    BY <1>4, TransmitIdle, TransmitUp
<1>5. ASSUME NEW n \in Node, Lose(n) PROVE LinkInv'
    BY <1>5, LoseLink
<1>6. ASSUME NEW n \in Node, NEW timer \in {"i", "frame"}, TimeElapses(n, timer) PROVE LinkInv'
    BY <1>6, TimeLink
<1>7. CASE UNCHANGED vars
    <2>1. /\ st' = st /\ line' = line /\ accepted' = accepted /\ delivered' = delivered
          /\ dropped' = dropped /\ budget' = budget
        BY <1>7 DEF vars
    <2>2. ShapeInv' /\ BudgetInv'
        BY <2>1 DEF LinkInv, ShapeInv, BudgetInv
    <2> QED BY <2>1, <2>2, SameLink
<1> QED BY <1>1, <1>2, <1>3, <1>4, <1>5, <1>6, <1>7 DEF Next

(* The inductive invariant: what the queues, the lines and the numbers of  *)
(* both ends have to do with each other at any time.                       *)
LEMMA AlwaysLink ==
    ASSUME Disciplined
    PROVE  Spec => []LinkInv
<1>1. Init => LinkInv
    BY InitLink
<1>2. LinkInv /\ [Next]_vars => LinkInv'
    BY NextLink
<1> QED BY <1>1, <1>2, PTL DEF Spec

(* confirm_sent_frames may well do without checking its argument: no N(R)  *)
(* that reaches an end in a connection confirms what it has not sent, or   *)
(* has had confirmed already.                                              *)
THEOREM NrStaysInWindow ==
    ASSUME Disciplined
    PROVE  Spec => []NrInWindow
<1>1. ASSUME LinkInv PROVE NrInWindow
    <2> SUFFICES ASSUME NEW n \in Node, line[n] # <<>>, Head(line[n]).type \notin UType
                 PROVE  Head(line[n]).nr \in Unconfirmed(ControlOf(n)) \cup {ControlOf(n).last_ns}
        BY DEF NrInWindow
    <2> DEFINE sent == accepted[n]
               got == Got(n)
               control == ControlOf(n)
               h == Head(line[n])
    <2>1. PICK c \in Nat : Direction(n, c)
        BY <1>1 DEF LinkInv
    <2>2. /\ c <= got /\ got <= sent /\ sent <= c + (SeqMod - 1)
          /\ control.last_ns = sent % SeqMod
          /\ control.confirm_ns = c % SeqMod
          /\ Acked(line[n], c, got)
        BY <2>1 DEF Direction, Numbers, Flow
    <2>3. sent \in Nat /\ got \in Nat /\ line[n] \in Seq(SentFrame)
        <3>1. /\ accepted \in [Node -> Nat] /\ delivered \in [Node -> Seq(Payload)]
              /\ line \in [Node -> Seq(SentFrame)]
            BY <1>1 DEF LinkInv, ShapeInv
        <3> QED BY <3>1, NodeType, LenProperties DEF Got
    <2>4. h.type \notin Hello
        BY DEF Hello, UType
    <2> HIDE DEF sent, got, control
    <2>5. PICK u \in c .. got : h.nr = u % SeqMod
        <3>1. Acked(line[n], c, got) /\ line[n] # <<>>
            BY <2>2
        <3> QED BY <2>3, <2>4, <3>1, AckedTail
    <2>6. u \in Nat /\ c <= u /\ u <= sent
        <3>1. got <= sent
            BY <2>2
        <3> QED BY <2>3, <2>5, <3>1
    <2>7. CASE u = sent
        BY <2>2, <2>5, <2>7 DEF control
    <2>8. CASE u < sent
        <3>1. sent < c + SeqMod /\ u < c + SeqMod /\ c <= sent
            <4>1. sent <= c + (SeqMod - 1)
                BY <2>2
            <4> QED BY <2>3, <2>6, <2>8, <4>1, SeqModAssumption
        <3>2. control.confirm_ns = c % SeqMod
            BY <2>2
        <3>3. u % SeqMod \in Confirmed(control, sent % SeqMod)
            BY <2>3, <2>6, <2>8, <3>1, <3>2, ModConfirmed
        <3> QED BY <2>2, <2>5, <3>3 DEF Unconfirmed, control
    <2> QED BY <2>3, <2>6, <2>7, <2>8
<1> QED BY <1>1, AlwaysLink, PTL

(* Walking from the number of c to number x counts Distance packets.       *)
LEMMA ModWalk ==
    ASSUME NEW c \in Nat, NEW x \in SeqNum
    PROVE  /\ Distance(c % SeqMod, x) \in Nat
           /\ (c + Distance(c % SeqMod, x)) % SeqMod = x
<1> DEFINE p == c \div SeqMod
           r == c % SeqMod
           e == Distance(r, x)
<1>1. c = p * SeqMod + r /\ p \in Int /\ r \in 0 .. SeqMod - 1
    BY Division
<1>2. x \in 0 .. SeqMod - 1
    BY DEF SeqNum
<1> HIDE DEF p, r
<1>3. CASE r <= x
    <2>1. e = x - r
        BY <1>3 DEF Distance
    <2>2. e \in Nat /\ c + e = p * SeqMod + x
        BY <1>1, <1>2, <1>3, <2>1, SeqModAssumption
    <2>3. (c + e) % SeqMod = x
        BY <1>1, <1>2, <2>2, Remainder
    <2> QED BY <2>2, <2>3 DEF r
<1>4. CASE ~ (r <= x)
    <2>1. e = x + SeqMod - r
        BY <1>4 DEF Distance
    <2>2. e \in Nat /\ c + e = (p + 1) * SeqMod + x /\ p + 1 \in Int
        BY <1>1, <1>2, <1>4, <2>1, SeqModAssumption
    <2>3. (c + e) % SeqMod = x
        BY <1>2, <2>2, Remainder
    <2> QED BY <2>2, <2>3 DEF r
<1> QED BY <1>3, <1>4

(* Each slot its number.                                                   *)
LEMMA DistinctNumbers ==
    ASSUME NEW q \in FrameQueueOf(Window, DataFrame),
           \A i, j \in Occupied(q) : q.frames[i].ns = q.frames[j].ns => i = j
    PROVE  Cardinality(Occupied(q)) = Cardinality({q.frames[i].ns : i \in Occupied(q)})
<1> DEFINE S == Occupied(q)
           T == {q.frames[i].ns : i \in S}
           F == [i \in S |-> q.frames[i].ns]
<1>1. IsFiniteSet(S)
    <2>1. Window - 1 \in Int /\ 0 \in Int
        BY WindowType
    <2>2. IsFiniteSet(0 .. Window - 1)
        BY <2>1, FS_Interval
    <2>3. S \in SUBSET (0 .. Window - 1)
        BY SlotType DEF Slots
    <2> QED BY <2>2, <2>3, FS_Subset
<1>2. F \in [S -> T] /\ \A i, j \in S : F[i] = F[j] => i = j
    OBVIOUS
<1>3. \A t \in T : \E i \in S : F[i] = t
    OBVIOUS
<1> HIDE DEF S, T, F
<1>4. F \in Bijection(S, T)
    BY <1>2, <1>3 DEF Bijection, Injection, IsInjective, Surjection
<1>5. ExistsBijection(S, T)
    BY <1>4 DEF ExistsBijection
<1> QED BY <1>1, <1>5, FS_Bijection DEF S, T

(* The I-frame queue and the sequence numbers never drift apart: in a      *)
(* connection each unconfirmed number has its one frame in the queue.      *)
THEOREM QueueStaysWindow ==
    ASSUME Disciplined
    PROVE  Spec => []QueueIsWindow
<1>1. ASSUME LinkInv PROVE QueueIsWindow
    <2> SUFFICES ASSUME NEW n \in Node
                 PROVE  LET q == st[n].i_queue
                        IN  /\ {q.frames[i].ns : i \in Occupied(q)} = Unconfirmed(ControlOf(n))
                            /\ Cardinality(Occupied(q)) = Cardinality(Unconfirmed(ControlOf(n)))
        BY DEF QueueIsWindow
    <2> DEFINE sent == accepted[n]
               control == ControlOf(n)
               q == st[n].i_queue
               N == {q.frames[i].ns : i \in Occupied(q)}
    <2>1. PICK c \in Nat : Direction(n, c)
        BY <1>1 DEF LinkInv
    <2>2. sent \in Nat /\ q \in FrameQueueOf(Window, DataFrame)
        BY <1>1, OnePeer DEF LinkInv, ShapeInv, Station
    <2>3. /\ control.last_ns = sent % SeqMod
          /\ control.confirm_ns = c % SeqMod
          /\ Holds(q, c, sent)
        BY <2>1 DEF Direction, Numbers, Flow
    <2>4. c <= sent /\ sent <= c + (SeqMod - 1)
        <3>1. Got(n) \in Nat
            BY <1>1, NodeType, LenProperties DEF LinkInv, ShapeInv, Got
        <3>2. c <= Got(n) /\ Got(n) <= sent /\ sent <= c + (SeqMod - 1)
            BY <2>1 DEF Direction, Numbers
        <3> HIDE DEF sent
        <3> QED BY <2>2, <3>1, <3>2
    <2> HIDE DEF sent, control, q
    <2>5. sent < c + SeqMod
        BY <2>2, <2>4, SeqModAssumption
    <2>6. \A i \in Occupied(q) : q.frames[i].ns \in Confirmed(control, sent % SeqMod)
        <3> TAKE i \in Occupied(q)
        <3> DEFINE k == q.frames[i].data - 1
        <3>1. q.frames[i].data \in c + 1 .. sent /\ q.frames[i].ns = k % SeqMod
            BY <2>3 DEF Holds
        <3>2. k \in Nat /\ c <= k /\ k < sent /\ k < c + SeqMod
            BY <2>2, <2>5, <3>1, SeqModAssumption
        <3> HIDE DEF k
        <3>3. control.confirm_ns = c % SeqMod
            BY <2>3
        <3>4. k % SeqMod \in Confirmed(control, sent % SeqMod)
            BY <2>2, <2>4, <2>5, <3>2, <3>3, ModConfirmed
        <3> QED BY <3>1, <3>4
    <2>7. Confirmed(control, sent % SeqMod) \subseteq N
        <3> SUFFICES ASSUME NEW x \in Confirmed(control, sent % SeqMod)
                     PROVE  x \in N
            OBVIOUS
        <3> DEFINE e == Distance(c % SeqMod, x)
        <3>1. x \in SeqNum /\ e < Distance(c % SeqMod, sent % SeqMod)
            BY <2>3 DEF Confirmed
        <3>2. Distance(c % SeqMod, sent % SeqMod) = sent - c
            BY <2>2, <2>4, <2>5, ModDistance
        <3>3. e \in Nat /\ (c + e) % SeqMod = x
            BY <3>1, ModWalk
        <3> HIDE DEF e
        <3>4. e < sent - c
            BY <3>1, <3>2
        <3>5. c + e \in Nat /\ c + e + 1 \in c + 1 .. sent /\ c + e + 1 - 1 = c + e
            BY <2>2, <3>3, <3>4
        <3>6. PICK i \in Occupied(q) : q.frames[i].data = c + e + 1
            BY <2>3, <3>5 DEF Holds
        <3>7. q.frames[i].ns = (c + e) % SeqMod
            BY <2>3, <3>5, <3>6 DEF Holds
        <3> QED BY <3>3, <3>7
    <2>8. N = Unconfirmed(control)
        BY <2>3, <2>6, <2>7 DEF Unconfirmed
    <2>9. ASSUME NEW i \in Occupied(q), NEW j \in Occupied(q), q.frames[i].ns = q.frames[j].ns
          PROVE  i = j
        <3>1. /\ Matching(q, Addr, q.frames[i].ns) = {i}
              /\ Matching(q, Addr, q.frames[j].ns) = {j}
            BY <2>2, <2>3, <2>4, HoldsOne
        <3> QED BY <2>9, <3>1
    <2>10. Cardinality(Occupied(q)) = Cardinality(N)
        BY <2>2, <2>9, DistinctNumbers
    <2> QED BY <2>8, <2>10 DEF control, q
<1> QED BY <1>1, AlwaysLink, PTL

-------------------------------------------------------------------------------
(* Each direction of the link implements ReliableStream.  What a step      *)
(* means for the packets of a:                                             *)

Held(a) == Queued(st[a])

Arrival(a) == {delivered[Peer(a)][i] : i \in DOMAIN delivered[Peer(a)]}

AcceptStep(a) ==
    /\ accepted'[a] = accepted[a] + 1
    /\ Held(a)' = Held(a) \cup {accepted[a] + 1}
    /\ delivered'[Peer(a)] = delivered[Peer(a)]

DeliverStep(a) ==
    /\ Got(a) + 1 \in 1 .. accepted[a]
    /\ delivered'[Peer(a)] = Append(delivered[Peer(a)], Got(a) + 1)
    /\ accepted'[a] = accepted[a] /\ Held(a)' = Held(a)

ConfirmStep(a) ==
    /\ Held(a)' \subseteq Held(a) /\ Held(a) \ Held(a)' \subseteq Arrival(a)
    /\ accepted'[a] = accepted[a] /\ delivered'[Peer(a)] = delivered[Peer(a)]

(* What has arrived, and what the sender still holds.                      *)
StreamInv(a) ==
    /\ Arrival(a) = 1 .. Got(a) /\ Got(a) \in Nat /\ accepted[a] \in Nat
    /\ \A i \in 1 .. Got(a) : delivered[Peer(a)][i] = i
    /\ Got(a) <= accepted[a] /\ dropped[a] = {}
    /\ delivered[Peer(a)] \in Seq(Payload)
    /\ \E c \in 0 .. Got(a) : Held(a) = c + 1 .. accepted[a]

LEMMA StreamState ==
    ASSUME LinkInv, NEW a \in Node
    PROVE  StreamInv(a)
<1>1. PICK c \in Nat : Direction(a, c)
    BY DEF LinkInv
<1>2. /\ accepted[a] \in Nat /\ delivered[Peer(a)] \in Seq(Payload)
      /\ Got(a) \in Nat /\ DOMAIN delivered[Peer(a)] = 1 .. Got(a)
    BY NodeType, LenProperties DEF LinkInv, ShapeInv, Got
<1>3. /\ c <= Got(a) /\ Got(a) <= accepted[a]
      /\ \A i \in 1 .. Got(a) : delivered[Peer(a)][i] = i
      /\ Holds(st[a].i_queue, c, accepted[a])
    BY <1>1 DEF Direction, Numbers, Flow
<1>4. Arrival(a) = 1 .. Got(a)
    BY <1>2, <1>3 DEF Arrival
<1>5. Held(a) = c + 1 .. accepted[a]
    BY <1>3 DEF Held, Queued, Holds
<1>6. dropped[a] = {}
    BY DEF LinkInv, EndInv
<1>7. c \in 0 .. Got(a)
    BY <1>2, <1>3
<1> QED BY <1>2, <1>3, <1>4, <1>5, <1>6, <1>7 DEF StreamInv

LEMMA NextStreamState ==
    ASSUME NEW a \in Node
    PROVE  LinkInv' => StreamInv(a)'
<1>1. LinkInv => StreamInv(a)
    BY StreamState
<1> QED BY <1>1, PTL

(* A step that only touches the queue of a to free slots confirms.         *)
LEMMA ConfirmOnly ==
    ASSUME LinkInv, LinkInv', NEW a \in Node,
           accepted'[a] = accepted[a], delivered'[Peer(a)] = delivered[Peer(a)],
           Held(a)' \subseteq Held(a)
    PROVE  ConfirmStep(a)
<1>1. Got(a)' = Got(a)
    BY DEF Got
<1>2. Arrival(a) = 1 .. Got(a) /\ Got(a) \in Nat /\ accepted[a] \in Nat
    BY StreamState DEF StreamInv
<1>3. PICK c \in 0 .. Got(a) : Held(a) = c + 1 .. accepted[a]
    BY StreamState DEF StreamInv
<1>4. PICK d \in 0 .. Got(a) : Held(a)' = d + 1 .. accepted[a]
    BY <1>1, NextStreamState DEF StreamInv
<1>5. Held(a) \ Held(a)' \subseteq Arrival(a)
    BY <1>2, <1>3, <1>4
<1> QED BY <1>5 DEF ConfirmStep

LEMMA StreamStep ==
    ASSUME Disciplined, LinkInv, LinkInv', [Next]_vars, NEW a \in Node
    PROVE  AcceptStep(a) \/ DeliverStep(a) \/ ConfirmStep(a)
<1> DEFINE b == Peer(a)
<1>1. b \in Node /\ b # a /\ Peer(b) = a /\ \A k \in Node : k = a \/ k = b
    BY NodeType
<1>2. /\ DOMAIN st = Node /\ accepted \in [Node -> Nat] /\ st[a] \in Good(LocalAddr(a))
      /\ st[a].i_queue \in FrameQueueOf(Window, DataFrame)
    BY OnePeer DEF LinkInv, ShapeInv, Station
<1> HIDE DEF b
<1>3. ASSUME st'[a].i_queue = st[a].i_queue, accepted'[a] = accepted[a],
             delivered'[b] = delivered[b]
      PROVE  ConfirmStep(a)
    <2>1. Held(a)' = Held(a)
        BY <1>3 DEF Held, Queued
    <2> QED BY <1>3, <2>1, ConfirmOnly DEF b
<1>4. CASE UNCHANGED vars
    BY <1>3, <1>4 DEF vars
<1>5. CASE SendPacketOf(a)
    <2> DEFINE data == accepted[a] + 1
               frame == IFrame(Addr, ControlOf(a).last_ns, 0, data)
               q == st[a].i_queue
               r == st'[a].i_queue
    <2>1. /\ accepted' = [accepted EXCEPT ![a] = data] /\ delivered' = delivered
          /\ HasFreeSlots(q) /\ accepted[a] < MaxSend[a] /\ accepted[a] \in Nat
        BY <1>2, <1>5 DEF SendPacketOf, CanSendPacket
    <2>2. data \in Payload /\ accepted'[a] = data
        <3>1. MaxSend[a] \in Nat
            BY BudgetAssumption
        <3>2. data \in 1 .. MaxSend[a]
            BY <2>1, <3>1
        <3> QED BY <1>2, <2>1, <3>2, PayloadAssumption
    <2>3. st'[a] = SendPacket(st[a], 0, data)
        BY <1>5, SendShape DEF LinkInv
    <2> HIDE DEF data
    <2>4. r = Allocate(q, Window, frame)
        <3> DEFINE s == st[a]
        <3> HIDE DEF s
        <3>1. SendPacket(s, 0, data).i_queue
                  = Allocate(s.i_queue, Window, IFrame(Addr, Control0(s).last_ns, 0, data))
            BY ZenonT(40), <1>2, <2>2, SendOutcome DEF s
        <3> QED BY <2>3, <3>1 DEF ControlOf, Control0, s
    <2>5. frame \in DataFrame /\ frame.data = data
        <3>1. ControlOf(a).last_ns \in SeqNum
            BY <1>2, OnePeer DEF PeerInfo, Control, ControlOf
        <3> QED BY <2>2, <3>1, FrameTypes, SeqModAssumption
                DEF IFrame, DataFrame, SeqNum, Addr, Address
    <2> HIDE DEF frame, q, r
    <2>6. PICK i \in Slots(Window) : q.frames[i] = NoFrame /\ r.frames = [q.frames EXCEPT ![i] = frame]
        BY <1>2, <2>1, <2>4, WindowType, AllocateFills DEF q
    <2>7. frame # NoFrame /\ DOMAIN q.frames = Slots(Window)
        BY <1>2, <2>5, NoFrameAssumption DEF SentFrame, FrameQueueOf, q
    <2>8. /\ Occupied(r) = Occupied(q) \cup {i} /\ i \notin Occupied(q)
          /\ r.frames[i] = frame
          /\ \A j \in Occupied(q) : r.frames[j] = q.frames[j]
        BY <2>6, <2>7 DEF Occupied
    <2>9. Held(a)' = Held(a) \cup {data}
        BY <2>5, <2>8 DEF Held, Queued, q, r
    <2> QED BY <2>1, <2>2, <2>9 DEF AcceptStep, data
<1>6. CASE SendPacketOf(b)
    <2>1. st'[a] = st[a] /\ delivered' = delivered
        BY <1>1, <1>6, SendShape DEF LinkInv, SendPacketOf
    <2>2. accepted'[a] = accepted[a]
        BY <1>1, <1>2, <1>6 DEF SendPacketOf
    <2> QED BY <1>3, <2>1, <2>2
<1>7. ASSUME NEW n \in Node, DisconnectOf(n) PROVE FALSE
    BY <1>7 DEF DisconnectOf, LinkInv, BudgetInv
<1>8. CASE Receive(a)
    <2>1. accepted' = accepted /\ delivered'[b] = delivered[b]
        BY <1>8, ReceiveBasics DEF b
    <2>2. Held(a)' \subseteq Held(a)
        <3>1. CASE st'[a].i_queue = st[a].i_queue
            BY <3>1 DEF Held, Queued
        <3>2. CASE \E seqs : st'[a].i_queue = FreeByNs(st[a].i_queue, Addr, seqs)
            <4>1. PICK seqs : st'[a].i_queue = FreeByNs(st[a].i_queue, Addr, seqs)
                BY <3>2
            <4> DEFINE q == st[a].i_queue
                       r == st'[a].i_queue
            <4>2. PICK freed : r.frames = [i \in DOMAIN q.frames |->
                                              IF i \in freed THEN NoFrame ELSE q.frames[i]]
                BY <1>2, <4>1 DEF FreeByNs, FrameQueueOf
            <4> HIDE DEF q, r
            <4>3. \A i \in Occupied(r) : i \in Occupied(q) /\ r.frames[i] = q.frames[i]
                BY <4>2 DEF Occupied
            <4> QED BY <4>3 DEF Held, Queued, q, r
        <3> QED BY <1>8, <3>1, <3>2, ReceiveHello, ReceiveSession
    <2> QED BY <2>1, <2>2, ConfirmOnly DEF b
<1>9. CASE Receive(b)
    <2>1. /\ st'[a] = st[a] /\ accepted' = accepted
          /\ \E data : delivered'[b] \in {delivered[b], Append(delivered[b], data)}
        BY <1>1, <1>9, ReceiveBasics
    <2>2. PICK data : delivered'[b] \in {delivered[b], Append(delivered[b], data)}
        BY <2>1
    <2>3. CASE delivered'[b] = delivered[b]
        BY <1>3, <2>1, <2>3
    <2>4. CASE delivered'[b] = Append(delivered[b], data)
        <3>1. /\ Got(a) \in Nat /\ accepted[a] \in Nat /\ delivered[b] \in Seq(Payload)
              /\ Got(a) = Len(delivered[b])
            BY StreamState DEF StreamInv, Got, b
        <3>2. Got(a)' = Got(a) + 1 /\ delivered'[b][Got(a) + 1] = data
            BY <2>4, <3>1 DEF Got, b
        <3>3. /\ Got(a)' <= accepted'[a]
              /\ \A i \in 1 .. Got(a)' : delivered'[b][i] = i
            BY NextStreamState DEF StreamInv, b
        <3>4. Got(a) + 1 \in 1 .. accepted[a] /\ data = Got(a) + 1
            BY <2>1, <3>1, <3>2, <3>3
        <3>5. Held(a)' = Held(a)
            BY <2>1 DEF Held
        <3> QED BY <2>1, <2>4, <3>4, <3>5 DEF DeliverStep, b
    <2> QED BY <2>2, <2>3, <2>4
<1>10. CASE Transmit(a)
    <2>1. accepted' = accepted /\ delivered' = delivered
        BY <1>10 DEF Transmit
    <2>2. st'[a].i_queue = st[a].i_queue
        BY <1>10, TransmitIdle, TransmitUp
    <2> QED BY <1>3, <2>1, <2>2
<1>11. CASE Transmit(b)
    <2>1. accepted' = accepted /\ delivered' = delivered /\ st'[a] = st[a]
        BY <1>1, <1>11, TransmitBasics
    <2> QED BY <1>3, <2>1
<1>12. ASSUME NEW n \in Node, Lose(n) PROVE ConfirmStep(a)
    BY <1>3, <1>12 DEF Lose
<1>13. ASSUME NEW n \in Node, NEW timer \in {"i", "frame"}, TimeElapses(n, timer)
       PROVE  ConfirmStep(a)
    <2>1. accepted' = accepted /\ delivered' = delivered
        BY <1>13 DEF TimeElapses
    <2>2. st'[n] = Elapse(st[n], 0, timer) /\ st'[Peer(n)] = st[Peer(n)]
        BY <1>13, TimeShape DEF LinkInv
    <2>3. Elapse(st[a], 0, timer).i_queue = st[a].i_queue
        BY <1>2, OnePeer DEF Elapse, Station
    <2>4. st'[a].i_queue = st[a].i_queue
        BY <1>1, <2>2, <2>3, NodeType
    <2> QED BY <1>3, <2>1, <2>4
<1> QED BY <1>1, <1>4, <1>5, <1>6, <1>7, <1>8, <1>9, <1>10, <1>11, <1>12, <1>13 DEF Next

(* No packet of the primary vanishes while the connection lasts.           *)
THEOREM LosesNothing ==
    ASSUME Disciplined
    PROVE  Spec => []NothingLost
<1>1. ASSUME LinkInv PROVE NothingLost
    <2>1. Primary \in Node /\ Peer(Primary) = Secondary
        BY DEF Node, Peer
    <2>2. /\ Arrival(Primary) = 1 .. Got(Primary)
          /\ Got(Primary) \in Nat /\ accepted[Primary] \in Nat
          /\ \E c \in 0 .. Got(Primary) : Held(Primary) = c + 1 .. accepted[Primary]
        BY <1>1, <2>1, StreamState DEF StreamInv
    <2>3. 1 .. accepted[Primary] \subseteq Arrival(Primary) \cup Held(Primary)
        BY <2>2
    <2> QED BY <2>1, <2>3
            DEF NothingLost, FromPrimary!NoSilentLoss, FromPrimary!Packets,
                FromPrimary!Arrived, Arrival, Held
<1> QED BY <1>1, AlwaysLink, PTL

(* Each application gets the packets of the other at most once, in order   *)
(* and without a gap.                                                      *)
THEOREM KeepsOrder ==
    ASSUME Disciplined
    PROVE  Spec => [](/\ FromPrimary!InOrder /\ FromPrimary!NoGap
                      /\ FromSecondary!InOrder /\ FromSecondary!NoGap)
<1>1. ASSUME LinkInv, NEW a \in Node
      PROVE  /\ \A i, j \in DOMAIN delivered[Peer(a)] :
                    i < j => delivered[Peer(a)][i] < delivered[Peer(a)][j]
             /\ \A k \in Arrival(a) : \A i \in 1 .. k - 1 : i \in Arrival(a)
    <2>1. /\ Arrival(a) = 1 .. Got(a) /\ Got(a) \in Nat
          /\ \A i \in 1 .. Got(a) : delivered[Peer(a)][i] = i
          /\ delivered[Peer(a)] \in Seq(Payload)
        BY <1>1, StreamState DEF StreamInv
    <2>2. DOMAIN delivered[Peer(a)] = 1 .. Got(a)
        BY <2>1 DEF Got
    <2> QED BY <2>1, <2>2
<1>2. /\ Primary \in Node /\ Peer(Primary) = Secondary
      /\ Secondary \in Node /\ Peer(Secondary) = Primary
    BY DEF Node, Peer
<1>3. LinkInv => FromPrimary!InOrder /\ FromPrimary!NoGap
    BY <1>1, <1>2 DEF FromPrimary!InOrder, FromPrimary!NoGap, FromPrimary!Arrived, Arrival
<1>4. LinkInv => FromSecondary!InOrder /\ FromSecondary!NoGap
    BY <1>1, <1>2 DEF FromSecondary!InOrder, FromSecondary!NoGap, FromSecondary!Arrived, Arrival
<1> QED BY <1>3, <1>4, AlwaysLink, PTL

(* What the primary sends reaches the application of the secondary as a    *)
(* reliable stream: every step of the link is a step of ReliableStream or  *)
(* does not show.                                                          *)
THEOREM PrimaryIsReliable ==
    ASSUME Disciplined
    PROVE  Spec => PrimaryStream
<1>1. Primary \in Node /\ Peer(Primary) = Secondary
    BY DEF Node, Peer
<1>2. ASSUME Init, LinkInv PROVE FromPrimary!Init
    <2>1. accepted[Primary] = 0 /\ delivered[Secondary] = <<>> /\ dropped[Primary] = {}
        BY <1>2 DEF Init, Node
    <2>2. Held(Primary) = {}
        <3>1. Got(Primary) = 0
            BY <1>1, <2>1 DEF Got
        <3>2. \E c \in 0 .. 0 : Held(Primary) = c + 1 .. 0
            BY <1>1, <1>2, <2>1, <3>1, StreamState DEF StreamInv
        <3> QED BY <3>2
    <2> QED BY <2>1, <2>2 DEF FromPrimary!Init, Held
<1>3. ASSUME LinkInv, LinkInv', [Next]_vars
      PROVE  [FromPrimary!Next]_(FromPrimary!vars)
    <2>1. /\ Arrival(Primary) = 1 .. Got(Primary)
          /\ Got(Primary) \in Nat /\ dropped[Primary] = {} /\ dropped'[Primary] = {}
        BY <1>1, <1>3, StreamState, NextStreamState DEF StreamInv
    <2>2. CASE AcceptStep(Primary)
        BY <1>1, <2>1, <2>2 DEF AcceptStep, FromPrimary!Next, FromPrimary!Accept, Held
    <2>3. CASE DeliverStep(Primary)
        <3> DEFINE k == Got(Primary) + 1
        <3>1. /\ k \in FromPrimary!Packets
              /\ \A i \in FromPrimary!Arrived : i < k
              /\ \A i \in 1 .. k - 1 : i \in FromPrimary!Arrived
            <4>1. FromPrimary!Arrived = 1 .. Got(Primary)
                BY <1>1, <2>1 DEF FromPrimary!Arrived, Arrival
            <4>2. FromPrimary!Packets = 1 .. accepted[Primary] /\ k \in 1 .. accepted[Primary]
                BY <2>3 DEF DeliverStep, FromPrimary!Packets
            <4> QED BY <2>1, <4>1, <4>2
        <3>2. /\ delivered'[Secondary] = Append(delivered[Secondary], k)
              /\ accepted'[Primary] = accepted[Primary] /\ Held(Primary)' = Held(Primary)
            BY <1>1, <2>3 DEF DeliverStep
        <3> HIDE DEF k
        <3>3. FromPrimary!Deliver
            BY <2>1, <3>1, <3>2 DEF FromPrimary!Deliver, Held
        <3> QED BY <3>3 DEF FromPrimary!Next
    <2>4. CASE ConfirmStep(Primary)
        BY <1>1, <2>1, <2>4
           DEF ConfirmStep, FromPrimary!Next, FromPrimary!Confirm, FromPrimary!Arrived,
               Held, Arrival
    <2> QED BY <1>1, <1>3, <2>2, <2>3, <2>4, StreamStep
<1>4. Init => LinkInv
    BY InitLink
<1> QED BY <1>2, <1>3, <1>4, AlwaysLink, PTL DEF Spec, PrimaryStream, FromPrimary!Spec

(* And what the secondary sends, on the same line and in the same frames   *)
(* that confirm the packets of the primary.                                *)
THEOREM SecondaryIsReliable ==
    ASSUME Disciplined
    PROVE  Spec => SecondaryStream
<1>1. Secondary \in Node /\ Peer(Secondary) = Primary
    BY DEF Node, Peer
<1>2. ASSUME Init, LinkInv PROVE FromSecondary!Init
    <2>1. accepted[Secondary] = 0 /\ delivered[Primary] = <<>> /\ dropped[Secondary] = {}
        BY <1>2 DEF Init, Node
    <2>2. Held(Secondary) = {}
        <3>1. Got(Secondary) = 0
            BY <1>1, <2>1 DEF Got
        <3>2. \E c \in 0 .. 0 : Held(Secondary) = c + 1 .. 0
            BY <1>1, <1>2, <2>1, <3>1, StreamState DEF StreamInv
        <3> QED BY <3>2
    <2> QED BY <2>1, <2>2 DEF FromSecondary!Init, Held
<1>3. ASSUME LinkInv, LinkInv', [Next]_vars
      PROVE  [FromSecondary!Next]_(FromSecondary!vars)
    <2>1. /\ Arrival(Secondary) = 1 .. Got(Secondary)
          /\ Got(Secondary) \in Nat /\ dropped[Secondary] = {} /\ dropped'[Secondary] = {}
        BY <1>1, <1>3, StreamState, NextStreamState DEF StreamInv
    <2>2. CASE AcceptStep(Secondary)
        BY <1>1, <2>1, <2>2 DEF AcceptStep, FromSecondary!Next, FromSecondary!Accept, Held
    <2>3. CASE DeliverStep(Secondary)
        <3> DEFINE k == Got(Secondary) + 1
        <3>1. /\ k \in FromSecondary!Packets
              /\ \A i \in FromSecondary!Arrived : i < k
              /\ \A i \in 1 .. k - 1 : i \in FromSecondary!Arrived
            <4>1. FromSecondary!Arrived = 1 .. Got(Secondary)
                BY <1>1, <2>1 DEF FromSecondary!Arrived, Arrival
            <4>2. FromSecondary!Packets = 1 .. accepted[Secondary] /\ k \in 1 .. accepted[Secondary]
                BY <2>3 DEF DeliverStep, FromSecondary!Packets
            <4> QED BY <2>1, <4>1, <4>2
        <3>2. /\ delivered'[Primary] = Append(delivered[Primary], k)
              /\ accepted'[Secondary] = accepted[Secondary] /\ Held(Secondary)' = Held(Secondary)
            BY <1>1, <2>3 DEF DeliverStep
        <3> HIDE DEF k
        <3>3. FromSecondary!Deliver
            BY <2>1, <3>1, <3>2 DEF FromSecondary!Deliver, Held
        <3> QED BY <3>3 DEF FromSecondary!Next
    <2>4. CASE ConfirmStep(Secondary)
        BY <1>1, <2>1, <2>4
           DEF ConfirmStep, FromSecondary!Next, FromSecondary!Confirm, FromSecondary!Arrived,
               Held, Arrival
    <2> QED BY <1>1, <1>3, <2>2, <2>3, <2>4, StreamStep
<1>4. Init => LinkInv
    BY InitLink
<1> QED BY <1>2, <1>3, <1>4, AlwaysLink, PTL DEF Spec, SecondaryStream, FromSecondary!Spec

===============================================================================
