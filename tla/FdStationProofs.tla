---------------------------- MODULE FdStationProofs ----------------------------
(***************************************************************************)
(* What TLC checks of FdStation on small instances, proved for every       *)
(* window, queue size, number of peers, modulus, mode and set of frames.   *)
(*                                                                         *)
(* Type correctness, the event and the cold sequence numbers are proved    *)
(* together, as membership in Good: the last two are kept by every call,   *)
(* but only of an endpoint that is well formed.                            *)
(*                                                                         *)
(* What a method may do to the two queues and to the peers it is not about *)
(* is Effect, the relation between an endpoint before and after any part   *)
(* of a method that neither queues an I-frame nor transmits; it is         *)
(* transitive, so that a method has it when its parts have it.             *)
(***************************************************************************)
EXTENDS FdStation, TinyFdLemmas

(* q becomes r and no frame is lost, or no frame is new.                   *)
OnlyAdds(q, r) ==
    /\ DOMAIN r.frames = DOMAIN q.frames
    /\ \A i \in DOMAIN q.frames : q.frames[i] # NoFrame => r.frames[i] = q.frames[i]

OnlyFrees(q, r) ==
    /\ DOMAIN r.frames = DOMAIN q.frames
    /\ \A i \in DOMAIN q.frames : r.frames[i] \in {q.frames[i], NoFrame}

(* s becomes t in a part of a method that is about the peers of S.         *)
Effect(local, s, t, S) ==
    /\ OnlyFrees(s.i_queue, t.i_queue)
    /\ OnlyAdds(s.s_queue, t.s_queue)
    /\ \A p \in Peers(local) \ S :
           /\ t.peers[p] = s.peers[p]
           /\ \A i \in QueuedFor(s, p) : t.i_queue.frames[i] = s.i_queue.frames[i]
    /\ \A p \in Peers(local) :
           InSession(s.peers[p]) /\ ~ InSession(t.peers[p]) => QueuedFor(t, p) = {}

-------------------------------------------------------------------------------

(* Both relations imply that no frame is overwritten, also one after the   *)
(* other.                                                                  *)
LEMMA AddThenFree ==
    ASSUME NEW q, NEW r, NEW u, OnlyAdds(q, r), OnlyFrees(r, u)
    PROVE  KeepsFrames(q, u)
BY DEF OnlyAdds, OnlyFrees, KeepsFrames

LEMMA KeepsItself ==
    ASSUME NEW q
    PROVE  OnlyAdds(q, q) /\ OnlyFrees(q, q)
BY DEF OnlyAdds, OnlyFrees

(* Two peers have two addresses.                                           *)
LEMMA AddressDistinct ==
    ASSUME NEW local \in Address, NEW s \in Station(local),
           NEW p \in Peers(local), NEW o \in Peers(local), o # p
    PROVE  PeerToAddressField(s, o) # PeerToAddressField(s, p)
<1>1. s.local_addr = local
    BY DEF Station
<1>2. CASE local = PrimaryAddr
    <2>1. p \in Nat /\ o \in Nat
        BY PeersType
    <2> QED BY <1>1, <1>2, <2>1 DEF PeerToAddressField
<1>3. CASE local # PrimaryAddr
    BY <1>3 DEF Peers, NumPeers
<1> QED BY <1>2, <1>3

LEMMA EffectTransitive ==
    ASSUME NEW local \in Address, NEW s \in Station(local), NEW t \in Station(local),
           NEW u \in Station(local), NEW S, Effect(local, s, t, S), Effect(local, t, u, S)
    PROVE  Effect(local, s, u, S)
<1>1. \A p : /\ PeerToAddressField(t, p) = PeerToAddressField(s, p)
             /\ PeerToAddressField(u, p) = PeerToAddressField(s, p)
    BY DEF PeerToAddressField, Station
<1>2. OnlyFrees(s.i_queue, u.i_queue) /\ OnlyAdds(s.s_queue, u.s_queue)
    BY DEF Effect, OnlyFrees, OnlyAdds
<1>3. ASSUME NEW p \in Peers(local) \ S
      PROVE  /\ u.peers[p] = s.peers[p]
             /\ \A i \in QueuedFor(s, p) : u.i_queue.frames[i] = s.i_queue.frames[i]
    <2>1. u.peers[p] = s.peers[p]
        BY <1>3 DEF Effect
    <2>2. ASSUME NEW i \in QueuedFor(s, p)
          PROVE  u.i_queue.frames[i] = s.i_queue.frames[i]
        <3>1. t.i_queue.frames[i] = s.i_queue.frames[i]
            BY <1>3 DEF Effect
        <3>2. DOMAIN t.i_queue.frames = DOMAIN s.i_queue.frames
            BY DEF Effect, OnlyFrees
        <3>3. i \in QueuedFor(t, p)
            BY <1>1, <3>1, <3>2 DEF QueuedFor, Occupied
        <3> QED BY <1>3, <3>1, <3>3 DEF Effect
    <2> QED BY <2>1, <2>2
<1>4. ASSUME NEW p \in Peers(local), InSession(s.peers[p]), ~ InSession(u.peers[p])
      PROVE  QueuedFor(u, p) = {}
    <2>1. CASE InSession(t.peers[p])
        BY <1>4, <2>1 DEF Effect
    <2>2. CASE ~ InSession(t.peers[p])
        <3>1. QueuedFor(t, p) = {}
            BY <1>4, <2>2 DEF Effect
        <3>2. OnlyFrees(t.i_queue, u.i_queue)
            BY DEF Effect
        <3>3. QueuedFor(u, p) \subseteq QueuedFor(t, p)
            BY <1>1, <3>2 DEF QueuedFor, Occupied, OnlyFrees
        <3> QED BY <3>1, <3>3
    <2> QED BY <2>1, <2>2
<1> QED BY <1>2, <1>3, <1>4 DEF Effect

(* What is about one peer is about a set with that peer.                   *)
LEMMA EffectWider ==
    ASSUME NEW local, NEW s, NEW t, NEW S, NEW p \in S, Effect(local, s, t, {p})
    PROVE  Effect(local, s, t, S)
BY DEF Effect

(* A part that leaves the I-frame queue alone and ends no session.         *)
LEMMA QuietEffect ==
    ASSUME NEW local, NEW s, NEW t, NEW p,
           t.i_queue = s.i_queue, OnlyAdds(s.s_queue, t.s_queue),
           \A o \in Peers(local) \ {p} : t.peers[o] = s.peers[o],
           InSession(s.peers[p]) => InSession(t.peers[p])
    PROVE  Effect(local, s, t, {p})
BY KeepsItself DEF Effect

LEMMA NoEffect ==
    ASSUME NEW local, NEW s, NEW S
    PROVE  Effect(local, s, s, S)
BY KeepsItself DEF Effect

-------------------------------------------------------------------------------

LEMMA PutSUFrameEffect ==
    ASSUME NEW local \in Address, NEW s \in Good(local), NEW frame
    PROVE  /\ OnlyAdds(s.s_queue, PutSUFrame(s, frame).s_queue)
           /\ PutSUFrame(s, frame).i_queue = s.i_queue
           /\ PutSUFrame(s, frame).peers = s.peers
<1>1. s.s_queue \in FrameQueueOf(SQueueSize, ServiceFrame)
    BY DEF Good, Station
<1>2. CASE ~ HasFreeSlots(s.s_queue)
    BY <1>2, KeepsItself DEF PutSUFrame
<1>3. CASE HasFreeSlots(s.s_queue)
    <2> DEFINE q == Allocate(s.s_queue, SQueueSize, frame)
    <2>1. \A i \in DOMAIN s.s_queue.frames :
              s.s_queue.frames[i] # NoFrame => q.frames[i] = s.s_queue.frames[i]
        BY <1>1, WindowType, AllocateKeeps
    <2>2. DOMAIN q.frames = DOMAIN s.s_queue.frames
        BY <1>1, <1>3 DEF Allocate, FrameQueueOf
    <2>3. /\ PutSUFrame(s, frame).s_queue = q
          /\ PutSUFrame(s, frame).i_queue = s.i_queue
          /\ PutSUFrame(s, frame).peers = s.peers
        BY <1>3 DEF PutSUFrame, Good, Station
    <2> HIDE DEF q
    <2> QED BY <2>1, <2>2, <2>3 DEF OnlyAdds
<1> QED BY <1>2, <1>3

LEMMA OfferFreeSlotsEffect ==
    ASSUME NEW local \in Address, NEW s \in Station(local)
    PROVE  /\ OfferFreeSlots(s).i_queue = s.i_queue
           /\ OfferFreeSlots(s).s_queue = s.s_queue
           /\ OfferFreeSlots(s).peers = s.peers
           /\ OfferFreeSlots(s).local_addr = s.local_addr
BY DEF OfferFreeSlots, Station

LEMMA SwitchToConnectedEffect ==
    ASSUME NEW local \in Address, NEW s \in Good(local), NEW p \in Peers(local)
    PROVE  Effect(local, s, SwitchToConnected(s, p), {p})
<1> DEFINE peer == [ResetConnection(s.peers[p]) EXCEPT
                        !.state = "Connected", !.retries = Retries, !.i_elapsed = FALSE]
           t == [s EXCEPT !.peers[p] = peer, !.events = @ \cup {"TX_DATA_AVAILABLE"}]
<1>1. CASE s.peers[p].state = "Connected"
    BY <1>1, NoEffect DEF SwitchToConnected
<1>2. CASE s.peers[p].state # "Connected"
    <2>1. SwitchToConnected(s, p) = OfferFreeSlots(t)
        BY <1>2 DEF SwitchToConnected
    <2>2. peer \in PeerInfo /\ InSession(peer)
        <3>1. ResetConnection(s.peers[p]) \in PeerInfo
            BY ResetConnectionType DEF Good, Station
        <3>2. Retries \in 0 .. Retries /\ "Connected" \in FdState
            BY WindowType DEF FdState
        <3> QED BY <3>1, <3>2 DEF PeerInfo, InSession
    <2> HIDE DEF peer
    <2>3. /\ t \in Station(local)
          /\ t.i_queue = s.i_queue /\ t.s_queue = s.s_queue
          /\ t.peers = [s.peers EXCEPT ![p] = peer]
        BY <2>2 DEF Good, Station, Event
    <2> HIDE DEF t
    <2>4. /\ OfferFreeSlots(t).i_queue = s.i_queue
          /\ OfferFreeSlots(t).s_queue = s.s_queue
          /\ OfferFreeSlots(t).peers = [s.peers EXCEPT ![p] = peer]
        BY <2>3, OfferFreeSlotsEffect
    <2>5. /\ \A o \in Peers(local) \ {p} : OfferFreeSlots(t).peers[o] = s.peers[o]
          /\ OfferFreeSlots(t).peers[p] = peer
        BY <2>4 DEF Good, Station
    <2> QED BY <2>1, <2>2, <2>4, <2>5, QuietEffect, KeepsItself
<1> QED BY <1>1, <1>2

(* The frames of the peer go with its session, the others stay.            *)
LEMMA SwitchToDisconnectedEffect ==
    ASSUME NEW local \in Address, NEW s \in Good(local), NEW p \in Peers(local)
    PROVE  Effect(local, s, SwitchToDisconnected(s, p), {p})
<1> DEFINE peer == [ResetConnection(s.peers[p]) EXCEPT !.state = "Disconnected"]
           q == ResetFor(s.i_queue, PeerToAddressField(s, p))
           t == [s EXCEPT !.peers[p] = peer, !.i_queue = q]
<1>1. CASE s.peers[p].state = "Disconnected"
    BY <1>1, NoEffect DEF SwitchToDisconnected
<1>2. CASE s.peers[p].state # "Disconnected"
    <2>1. SwitchToDisconnected(s, p) = t
        BY <1>2 DEF SwitchToDisconnected
    <2>2. /\ t.s_queue = s.s_queue /\ t.i_queue = q /\ t.local_addr = s.local_addr
          /\ \A o \in Peers(local) \ {p} : t.peers[o] = s.peers[o]
        BY DEF Good, Station
    <2>3. OnlyFrees(s.i_queue, q)
        BY DEF ResetFor, OnlyFrees, Good, Station, FrameQueueOf
    <2>4. s.i_queue \in FrameQueueOf(Window, DataFrame)
        BY DEF Good, Station
    <2>5. QueuedFor(t, p) = {}
        <3>1. \A i \in Occupied(q) : q.frames[i].addr # PeerToAddressField(s, p)
            BY <2>4, ResetForType
        <3>2. PeerToAddressField(t, p) = PeerToAddressField(s, p)
            BY <2>2 DEF PeerToAddressField
        <3> HIDE DEF q, t
        <3> QED BY <2>2, <3>1, <3>2 DEF QueuedFor
    <2>6. ASSUME NEW o \in Peers(local) \ {p}, NEW i \in QueuedFor(s, o)
          PROVE  q.frames[i] = s.i_queue.frames[i]
        <3>1. PeerToAddressField(s, o) # PeerToAddressField(s, p)
            BY AddressDistinct DEF Good
        <3> QED BY <2>4, <3>1 DEF QueuedFor, Occupied, ResetFor, FrameQueueOf
    <2> HIDE DEF t, q
    <2>7. \A o \in Peers(local) :
              InSession(s.peers[o]) /\ ~ InSession(t.peers[o]) => QueuedFor(t, o) = {}
        BY <2>2, <2>5
    <2> QED BY <2>1, <2>2, <2>3, <2>6, <2>7, KeepsItself DEF Effect
<1> QED BY <1>1, <1>2

LEMMA PutUFrameEffect ==
    ASSUME NEW local \in Address, NEW s \in Good(local), NEW p, NEW type
    PROVE  Effect(local, s, PutUFrame(s, p, type), {p})
BY PutSUFrameEffect, QuietEffect DEF PutUFrame

LEMMA OnUFrameReceivedEffect ==
    ASSUME NEW local \in Address, NEW s \in Good(local), NEW p \in Peers(local), NEW frame
    PROVE  Effect(local, s, OnUFrameReceived(s, p, frame), {p})
<1> DEFINE t == PutUFrame(s, p, "UA")
<1>1. t \in Good(local) /\ Effect(local, s, t, {p})
    BY PutUFrameGood, PutUFrameEffect DEF UType
<1>2. /\ Effect(local, s, SwitchToConnected(s, p), {p})
      /\ Effect(local, s, SwitchToDisconnected(s, p), {p})
    BY SwitchToConnectedEffect, SwitchToDisconnectedEffect
<1> HIDE DEF t
<1>3. Effect(local, s, SwitchToConnected(t, p), {p})
    <2>1. Effect(local, t, SwitchToConnected(t, p), {p}) /\ SwitchToConnected(t, p) \in Good(local)
        BY <1>1, SwitchToConnectedEffect, SwitchToConnectedGood
    <2> QED BY <1>1, <2>1, EffectTransitive DEF Good
<1>4. Effect(local, s, SwitchToDisconnected(t, p), {p})
    <2>1. /\ Effect(local, t, SwitchToDisconnected(t, p), {p})
          /\ SwitchToDisconnected(t, p) \in Good(local)
        BY <1>1, SwitchToDisconnectedEffect, SwitchToDisconnectedGood
    <2> QED BY <1>1, <2>1, EffectTransitive DEF Good
<1> QED BY <1>2, <1>3, <1>4, NoEffect DEF OnUFrameReceived, t

(* Another record for a peer that does not leave a session.                *)
LEMMA ChangePeerEffect ==
    ASSUME NEW local \in Address, NEW s \in Station(local), NEW p \in Peers(local), NEW peer,
           InSession(s.peers[p]) => InSession(peer)
    PROVE  Effect(local, s, [s EXCEPT !.peers[p] = peer], {p})
<1> DEFINE t == [s EXCEPT !.peers[p] = peer]
<1>1. /\ t.i_queue = s.i_queue /\ t.s_queue = s.s_queue
      /\ \A o \in Peers(local) \ {p} : t.peers[o] = s.peers[o]
      /\ t.peers[p] = peer
    BY DEF Station
<1> HIDE DEF t
<1>2. Effect(local, s, t, {p})
    BY <1>1, QuietEffect, KeepsItself
<1> QED BY <1>2 DEF t

(* free_by_ns frees slots of the peer that confirms.                       *)
LEMMA ConfirmAndFreeEffect ==
    ASSUME NEW local \in Address, NEW s \in Good(local), NEW p \in Peers(local), NEW nr
    PROVE  Effect(local, s, ConfirmAndFree(s, p, nr), {p})
<1> DEFINE q == FreeByNs(s.i_queue, PeerToAddressField(s, p),
                         Confirmed(s.peers[p].control, nr))
           peer == [s.peers[p] EXCEPT !.control = ConfirmSentFrames(@, nr)]
           t == [s EXCEPT !.i_queue = q, !.peers[p] = peer]
           u == ConfirmAndFree(s, p, nr)
<1>1. s.i_queue \in FrameQueueOf(Window, DataFrame) /\ s.peers[p] \in PeerInfo
    BY DEF Good, Station
<1>2. u.i_queue = q /\ u.s_queue = s.s_queue /\ u.peers = [s.peers EXCEPT ![p] = peer]
    <2>1. u = OfferFreeSlots(t)
        BY DEF ConfirmAndFree, Good, Station
    <2>2. t.i_queue = q /\ t.s_queue = s.s_queue /\ t.peers = [s.peers EXCEPT ![p] = peer]
        BY DEF Good, Station
    <2>3. /\ OfferFreeSlots(t).i_queue = t.i_queue
          /\ OfferFreeSlots(t).s_queue = t.s_queue
          /\ OfferFreeSlots(t).peers = t.peers
        BY DEF OfferFreeSlots, Good, Station
    <2> HIDE DEF t, q, peer, u
    <2> QED BY <2>1, <2>2, <2>3
<1>3. OnlyFrees(s.i_queue, q)
    BY <1>1 DEF FreeByNs, OnlyFrees, FrameQueueOf
<1>4. ASSUME NEW o \in Peers(local) \ {p}, NEW i \in QueuedFor(s, o)
      PROVE  q.frames[i] = s.i_queue.frames[i]
    <2>1. PeerToAddressField(s, o) # PeerToAddressField(s, p)
        BY AddressDistinct DEF Good
    <2> QED BY <1>1, <2>1, FreeByNsAddress, WindowType DEF QueuedFor
<1>5. peer.state = s.peers[p].state
    BY <1>1 DEF PeerInfo
<1> HIDE DEF u, q, peer
<1>6. /\ \A o \in Peers(local) \ {p} : u.peers[o] = s.peers[o]
      /\ u.peers[p] = peer
    BY <1>2 DEF Good, Station
<1>7. \A o \in Peers(local) : InSession(s.peers[o]) => InSession(u.peers[o])
    BY <1>5, <1>6 DEF InSession
<1>8. OnlyAdds(s.s_queue, u.s_queue)
    BY <1>2, KeepsItself
<1> QED BY <1>2, <1>3, <1>4, <1>6, <1>7, <1>8 DEF Effect, u

(* Another record for the peer, then an S-frame.                           *)
LEMMA PutSFrameEffect ==
    ASSUME NEW local \in Address, NEW s \in Good(local), NEW p \in Peers(local),
           NEW peer, [s EXCEPT !.peers[p] = peer] \in Good(local),
           InSession(s.peers[p]) => InSession(peer), NEW type, NEW nr
    PROVE  Effect(local, s, PutSFrame([s EXCEPT !.peers[p] = peer], p, type, nr), {p})
<1> DEFINE t == [s EXCEPT !.peers[p] = peer]
           frame == SFrame(type, PeerToAddressField(t, p), nr)
<1>1. /\ t.i_queue = s.i_queue /\ t.s_queue = s.s_queue
      /\ \A o \in Peers(local) \ {p} : t.peers[o] = s.peers[o]
      /\ t.peers[p] = peer
    BY DEF Good, Station
<1>2. PutSFrame(t, p, type, nr) = PutSUFrame(t, frame)
    BY DEF PutSFrame
<1> HIDE DEF t, frame
<1>3. /\ OnlyAdds(t.s_queue, PutSUFrame(t, frame).s_queue)
      /\ PutSUFrame(t, frame).i_queue = t.i_queue
      /\ PutSUFrame(t, frame).peers = t.peers
    BY PutSUFrameEffect DEF t
<1>4. Effect(local, s, PutSUFrame(t, frame), {p})
    BY <1>1, <1>3, QuietEffect
<1> QED BY <1>2, <1>4 DEF t

LEMMA AnswerIFrameEffect ==
    ASSUME NEW local \in Address, NEW s \in Good(local), NEW p \in Peers(local),
           InSession(s.peers[p])
    PROVE  /\ Effect(local, s, RejectIFrame(s, p), {p})
           /\ Effect(local, s, AcceptIFrame(s, p), {p})
<1> DEFINE c == MoveToNextFrameToReceive(s.peers[p].control)
           rejects == [s.peers[p] EXCEPT !.sent_reject = TRUE]
           accepts == [s.peers[p] EXCEPT !.control = c, !.sent_reject = FALSE]
<1>1. s.peers[p] \in PeerInfo /\ s.peers[p].control \in Control
    BY DEF Good, Station, PeerInfo
<1>2. c \in Control
    <2>1. 0 \in SeqNum
        BY SeqModAssumption DEF SeqNum
    <2> QED BY <1>1, <2>1, ControlType
<1> HIDE DEF c
<1>3. ASSUME NEW peer \in {rejects, accepts}
      PROVE  InSession(peer) /\ [s EXCEPT !.peers[p] = peer] \in Good(local)
    <2>1. peer \in PeerInfo /\ InSession(peer)
        BY <1>1, <1>2, <1>3 DEF PeerInfo, InSession
    <2>2. Cold(peer)
        BY <2>1 DEF Cold
    <2> QED BY <2>1, <2>2, ChangePeer
<1>4. RejectIFrame(s, p) \in
          {s, PutSFrame([s EXCEPT !.peers[p] = rejects], p, "REJ", s.peers[p].control.next_nr)}
    BY DEF RejectIFrame, Good, Station
<1>5. AcceptIFrame(s, p) = PutSFrame([s EXCEPT !.peers[p] = accepts], p, "RR", c.next_nr)
    BY DEF AcceptIFrame, c, Good, Station
<1> HIDE DEF rejects, accepts
<1> QED BY <1>3, <1>4, <1>5, PutSFrameEffect, NoEffect

LEMMA OnIFrameReceivedEffect ==
    ASSUME NEW local \in Address, NEW s \in Good(local), NEW p \in Peers(local),
           NEW frame \in Frame, InSession(s.peers[p])
    PROVE  Effect(local, s, OnIFrameReceived(s, p, frame), {p})
<1> DEFINE t == ConfirmAndFree(s, p, frame.nr)
<1>1. t \in Good(local) /\ InSession(t.peers[p])
    BY ConfirmAndFreeGood DEF Frame
<1>2. Effect(local, s, t, {p})
    BY ConfirmAndFreeEffect
<1>3. OnIFrameReceived(s, p, frame) \in {AcceptIFrame(t, p), RejectIFrame(t, p)}
    BY DEF OnIFrameReceived
<1> HIDE DEF t
<1>4. ASSUME NEW u \in {AcceptIFrame(t, p), RejectIFrame(t, p)}
      PROVE  Effect(local, s, u, {p})
    <2>1. Effect(local, t, u, {p})
        BY <1>1, <1>4, AnswerIFrameEffect
    <2>2. u \in Good(local)
        BY <1>1, <1>4, AcceptIFrameGood, RejectIFrameGood
    <2> QED BY <1>1, <1>2, <2>1, <2>2, EffectTransitive DEF Good
<1> QED BY <1>3, <1>4

LEMMA OnSFrameReceivedEffect ==
    ASSUME NEW local \in Address, NEW s \in Good(local), NEW p \in Peers(local),
           NEW frame \in Frame, InSession(s.peers[p])
    PROVE  Effect(local, s, OnSFrameReceived(s, p, frame), {p})
<1> DEFINE t == ConfirmAndFree(s, p, frame.nr)
           u == OnSFrameReceived(s, p, frame)
<1>1. t \in Good(local) /\ Effect(local, s, t, {p})
    BY ConfirmAndFreeGood, ConfirmAndFreeEffect DEF Frame
<1>2. u \in Good(local)
    BY OnSFrameReceivedGood
<1> DEFINE confirmed == [t.peers[p] EXCEPT !.retries = Retries]
           rewound == [t.peers[p] EXCEPT
                          !.control = RetransmitFrame(t.peers[p].control, frame.nr)]
<1>3. \/ u = t
      \/ u = [t EXCEPT !.peers[p] = confirmed]
      \/ u = [t EXCEPT !.peers[p] = rewound, !.events = @ \cup {"TX_DATA_AVAILABLE"}]
    BY <1>1 DEF OnSFrameReceived, Good, Station
<1> HIDE DEF t, u
<1>4. /\ confirmed.state = t.peers[p].state
      /\ rewound.state = t.peers[p].state
    BY <1>1 DEF Good, Station, PeerInfo
<1> HIDE DEF confirmed, rewound
<1>5. ASSUME NEW peer \in {confirmed, rewound},
             \/ u = [t EXCEPT !.peers[p] = peer]
             \/ u = [t EXCEPT !.peers[p] = peer, !.events = @ \cup {"TX_DATA_AVAILABLE"}]
      PROVE  Effect(local, t, u, {p})
    <2>1. /\ u.i_queue = t.i_queue /\ u.s_queue = t.s_queue
          /\ \A o \in Peers(local) \ {p} : u.peers[o] = t.peers[o]
          /\ u.peers[p] = peer
        BY <1>1, <1>5 DEF Good, Station
    <2> QED BY <1>4, <1>5, <2>1, QuietEffect, KeepsItself DEF InSession
<1>6. Effect(local, t, u, {p})
    BY <1>3, <1>5, NoEffect
<1>7. Effect(local, s, u, {p})
    BY <1>1, <1>2, <1>6, EffectTransitive DEF Good
<1> QED BY <1>7 DEF u

LEMMA ReceiveFromPeerEffect ==
    ASSUME NEW local \in Address, NEW s \in Good(local), NEW p \in Peers(local),
           NEW frame \in Frame
    PROVE  Effect(local, s, ReceiveFromPeer(s, p, frame), {p})
BY OnUFrameReceivedEffect, OnIFrameReceivedEffect, OnSFrameReceivedEffect, PutUFrameEffect
    DEF ReceiveFromPeer

(* A received frame is about the peer whose address it bears.              *)
LEMMA OnFrameReceivedEffect ==
    ASSUME NEW local \in Address, NEW s \in Good(local), NEW frame \in Frame
    PROVE  Effect(local, s, OnFrameReceived(s, frame), AddressFieldToPeer(s, frame.addr))
<1> DEFINE S == AddressFieldToPeer(s, frame.addr)
<1>1. CASE S = {}
    BY <1>1, NoEffect DEF OnFrameReceived
<1>2. CASE S # {}
    <2>1. S \subseteq Peers(local) /\ S \in SUBSET Nat
        BY AddressFieldToPeerType, PeersType
    <2>2. OnFrameReceived(s, frame) = ReceiveFromPeer(s, Lowest(S), frame)
        BY <1>2 DEF OnFrameReceived
    <2> HIDE DEF S
    <2>3. Lowest(S) \in S /\ Lowest(S) \in Peers(local)
        BY <1>2, <2>1, LowestMember
    <2>4. Effect(local, s, OnFrameReceived(s, frame), {Lowest(S)})
        BY <2>2, <2>3, ReceiveFromPeerEffect
    <2>5. Effect(local, s, OnFrameReceived(s, frame), S)
        BY <2>3, <2>4, EffectWider
    <2> QED BY <2>5 DEF S
<1> QED BY <1>1, <1>2

-------------------------------------------------------------------------------

LEMMA SendSabmEffect ==
    ASSUME NEW local \in Address, NEW s \in Good(local), NEW p \in Peers(local)
    PROVE  /\ Effect(local, s, SendSabm(s, p), {p})
           /\ SendSabm(s, p).peers[p].state = s.peers[p].state
<1> DEFINE t == PutUFrame(s, p, "SABM")
           peer == [s.peers[p] EXCEPT !.frame_elapsed = FALSE]
<1>1. t \in Good(local) /\ t.peers = s.peers /\ Effect(local, s, t, {p})
    BY PutUFrameGood, PutUFrameEffect DEF UType
<1>2. s.peers[p] \in PeerInfo /\ peer.state = s.peers[p].state
    BY DEF Good, Station, PeerInfo
<1>3. SendSabm(s, p) = [t EXCEPT !.peers[p] = peer]
    BY <1>1 DEF SendSabm, Good, Station
<1>4. SendSabm(s, p) \in Good(local) /\ SendSabm(s, p).peers[p] = peer
    BY SendSabmGood
<1> HIDE DEF t, peer
<1>5. Effect(local, t, SendSabm(s, p), {p})
    BY <1>1, <1>2, <1>3, ChangePeerEffect DEF InSession, Good
<1>6. Effect(local, s, SendSabm(s, p), {p})
    BY <1>1, <1>4, <1>5, EffectTransitive DEF Good
<1> QED BY <1>2, <1>4, <1>6

LEMMA RetryConnectEffect ==
    ASSUME NEW local \in Address, NEW s \in Good(local), NEW p \in Peers(local),
           ~ InSession(s.peers[p])
    PROVE  Effect(local, s, RetryConnect(s, p), {p})
<1> DEFINE u == RetryConnect(s, p)
           less == [s.peers[p] EXCEPT !.retries = s.peers[p].retries - 1]
           t == [s EXCEPT !.peers[p] = less]
<1>1. s.peers[p] \in PeerInfo
    BY DEF Good, Station
<1>2. CASE s.peers[p].retries = 0
    <2>1. u = [s EXCEPT !.peers[p] = [s.peers[p] EXCEPT !.state = "Disconnected"]]
        BY <1>2 DEF RetryConnect, Good, Station
    <2> HIDE DEF u
    <2>2. Effect(local, s, u, {p})
        BY <2>1, ChangePeerEffect DEF Good
    <2> QED BY <2>2 DEF u
<1>3. CASE s.peers[p].retries # 0
    <2>1. s.peers[p].retries - 1 \in 0 .. Retries
        BY <1>1, <1>3, WindowType DEF PeerInfo
    <2>2. /\ less \in PeerInfo
          /\ less.control = s.peers[p].control
          /\ less.sent_reject = s.peers[p].sent_reject
          /\ less.state = s.peers[p].state
        BY <1>1, <2>1 DEF PeerInfo
    <2>3. u = SendSabm(t, p)
        BY <1>3 DEF RetryConnect, Good, Station
    <2> HIDE DEF less, u
    <2>4. Cold(s.peers[p])
        BY DEF Good
    <2>5. Cold(less)
        BY <2>2, <2>4, ColdKept DEF InSession
    <2>6. t \in Good(local) /\ Effect(local, s, t, {p})
        BY <2>2, <2>5, ChangePeer, ChangePeerEffect DEF Good
    <2> HIDE DEF t
    <2>7. u \in Good(local) /\ Effect(local, t, u, {p})
        BY <2>3, <2>6, SendSabmGood, SendSabmEffect
    <2>8. Effect(local, s, u, {p})
        BY <2>6, <2>7, EffectTransitive DEF Good
    <2> QED BY <2>8 DEF u
<1> QED BY <1>2, <1>3

LEMMA RetryIFramesEffect ==
    ASSUME NEW local \in Address, NEW s \in Good(local), NEW p \in Peers(local)
    PROVE  Effect(local, s, RetryIFrames(s, p), {p})
<1> DEFINE c == s.peers[p].control
           u == RetryIFrames(s, p)
           peer == [s.peers[p] EXCEPT !.retries = s.peers[p].retries - 1,
                                      !.control = RetransmitFrame(c, c.confirm_ns),
                                      !.i_elapsed = FALSE]
<1>1. CASE s.peers[p].retries = 0
    BY <1>1, SwitchToDisconnectedEffect DEF RetryIFrames
<1>2. CASE s.peers[p].retries # 0
    <2>1. u = [s EXCEPT !.peers[p] = peer, !.events = @ \cup {"TX_DATA_AVAILABLE"}]
        BY <1>2 DEF RetryIFrames
    <2>2. s.peers[p] \in PeerInfo /\ peer.state = s.peers[p].state
        BY DEF Good, Station, PeerInfo
    <2> HIDE DEF peer, u
    <2>3. /\ u.i_queue = s.i_queue /\ u.s_queue = s.s_queue
          /\ \A o \in Peers(local) \ {p} : u.peers[o] = s.peers[o]
          /\ u.peers[p] = peer
        BY <2>1 DEF Good, Station
    <2>4. Effect(local, s, u, {p})
        BY <2>2, <2>3, QuietEffect, KeepsItself DEF InSession
    <2> QED BY <2>4 DEF u
<1> QED BY <1>1, <1>2

LEMMA CheckPeerEffect ==
    ASSUME NEW local \in Address, NEW s \in Good(local), NEW p \in Peers(local)
    PROVE  Effect(local, s, CheckPeer(s, p), {p})
<1> DEFINE t == SendSabm(s, p)
           u == CheckPeer(s, p)
           peer == [t.peers[p] EXCEPT !.state = "Connecting"]
<1>1. CASE s.peers[p].state \in {"Disconnected", "Idle"}
    <2>1. /\ t \in Good(local) /\ Effect(local, s, t, {p})
          /\ t.peers[p].state = s.peers[p].state
        BY SendSabmGood, SendSabmEffect
    <2>2. u \in {s, [t EXCEPT !.peers[p] = peer]}
        BY <1>1, <2>1 DEF CheckPeer, Good, Station
    <2>3. u \in Good(local)
        BY CheckPeerGood
    <2> HIDE DEF t, u, peer
    <2>4. Effect(local, t, [t EXCEPT !.peers[p] = peer], {p})
        BY <1>1, <2>1, ChangePeerEffect DEF InSession, Good
    <2>5. Effect(local, s, u, {p})
        BY <2>1, <2>2, <2>3, <2>4, NoEffect, EffectTransitive DEF Good
    <2> QED BY <2>5 DEF u
<1>2. CASE s.peers[p].state = "Connecting"
    <2>1. u \in {s, RetryConnect(s, p)} /\ ~ InSession(s.peers[p])
        BY <1>2 DEF CheckPeer, InSession
    <2> QED BY <2>1, NoEffect, RetryConnectEffect
<1>3. CASE s.peers[p].state = "Connected"
    <2>1. u \in {s, RetryIFrames(s, p)}
        BY <1>3 DEF CheckPeer
    <2> QED BY <2>1, NoEffect, RetryIFramesEffect
<1>4. CASE s.peers[p].state \notin {"Disconnected", "Idle", "Connecting", "Connected"}
    BY <1>4, NoEffect DEF CheckPeer
<1> QED BY <1>1, <1>2, <1>3, <1>4

(* The loop over the peers may be about any of them.                       *)
LEMMA CheckTimeoutsEffect ==
    ASSUME NEW local \in Address, NEW s \in Good(local)
    PROVE  Effect(local, s, CheckTimeouts(s), Peers(local))
<1> DEFINE N == NumPeers(local)
<1>1. N \in Nat
    BY PeersType
<1>2. PICK f : /\ f = [n \in 0 .. N |-> IF n = 0 THEN s ELSE CheckPeer(f[n - 1], n - 1)]
               /\ CheckTimeouts(s) = f[N]
    BY CheckTimeoutsLoop
<1> DEFINE T == {m \in 0 .. N : f[m] \in Good(local) /\ Effect(local, s, f[m], Peers(local))}
<1>3. 0 \in T
    BY <1>1, <1>2, NoEffect
<1>4. \A m \in 0 .. N : m \in T /\ m # N => m + 1 \in T
    <2> SUFFICES ASSUME NEW m \in 0 .. N, m \in T, m # N PROVE m + 1 \in T
        OBVIOUS
    <2>1. m \in Peers(local) /\ m + 1 \in 0 .. N
        BY <1>1 DEF Peers
    <2>2. f[m + 1] = CheckPeer(f[m], m)
        BY <1>1, <1>2, <2>1
    <2>3. f[m + 1] \in Good(local)
        BY <2>1, <2>2, CheckPeerGood
    <2>4. Effect(local, f[m], f[m + 1], Peers(local))
        <3>1. Effect(local, f[m], f[m + 1], {m})
            BY <2>1, <2>2, CheckPeerEffect
        <3> QED BY <2>1, <3>1, EffectWider
    <2>5. Effect(local, s, f[m + 1], Peers(local))
        BY <2>3, <2>4, EffectTransitive DEF Good
    <2> QED BY <2>1, <2>3, <2>5
<1>5. N \in T
    <2> HIDE DEF T, N
    <2> QED BY <1>1, <1>3, <1>4, SetInduction
<1> QED BY <1>2, <1>5

-------------------------------------------------------------------------------

IInv == st \in Good(LocalAddr)

(* TinyFd::new gives a good endpoint.                                      *)
LEMMA InitGood == Init => IInv
BY LocalAddrAssumption, NewStationGood DEF Init, IInv

(* Every call, and the passing of time, keep it good.                      *)
LEMMA NextGood == IInv /\ [Next]_st => IInv'
<1> SUFFICES ASSUME IInv, [Next]_st PROVE IInv'
    OBVIOUS
<1> USE LocalAddrAssumption DEF IInv
<1>1. ASSUME NEW p \in Peers(LocalAddr), NEW data \in Payload, SendPacketTo(p, data)
      PROVE  IInv'
    BY <1>1, SendPacketGood DEF SendPacketTo
<1>2. CASE DisconnectFirst
    BY <1>2, DisconnectGood DEF DisconnectFirst
<1>3. ASSUME NEW frame \in Line, ReceiveFrame(frame) PROVE IInv'
    BY <1>3, LineAssumption, OnFrameReceivedGood DEF ReceiveFrame
<1>4. CASE GetTxData
    BY <1>4, PrepareTxGood, FinishTxGood DEF GetTxData
<1>5. CASE GetTxDataPart
    BY <1>5, PrepareTxGood DEF GetTxDataPart
<1>6. ASSUME NEW p \in Peers(LocalAddr), NEW timer \in {"i", "frame"},
             TimePasses(p, timer)
      PROVE  IInv'
    BY <1>6, ElapseGood DEF TimePasses
<1>7. CASE UNCHANGED st
    BY <1>7
<1> QED BY <1>1, <1>2, <1>3, <1>4, <1>5, <1>6, <1>7 DEF Next

(* The inductive invariant of an endpoint holds in every state.            *)
THEOREM AlwaysGood == Spec => []IInv
BY InitGood, NextGood, PTL DEF Spec

(* Whatever arrives and whatever the application calls, the endpoint keeps *)
(* its shape: no sequence number leaves its range, retries never wraps     *)
(* below zero and no slot holds anything but a frame.                      *)
THEOREM TypeCorrect == Spec => []TypeOK
<1>1. IInv => TypeOK
    BY DEF IInv, Good, TypeOK
<1> QED BY <1>1, AlwaysGood, PTL

(* QUEUE_HAS_FREE_SLOTS is never set while every slot of the I-frame queue *)
(* is taken.                                                               *)
THEOREM SenderFindsSlot == Spec => []FreeSlotEvent
<1>1. IInv => FreeSlotEvent
    BY DEF IInv, Good, Slotted, FreeSlotEvent
<1> QED BY <1>1, AlwaysGood, PTL

(* Nothing of a session outlives it in the sequence numbers.               *)
THEOREM SessionsStartCold == Spec => []ColdControl
<1>1. IInv => ColdControl
    BY DEF IInv, Good, Cold, ColdControl
<1> QED BY <1>1, AlwaysGood, PTL

-------------------------------------------------------------------------------

(* send_packet puts its frame into a free slot.                            *)
LEMMA SendPacketKeeps ==
    ASSUME NEW p \in Peers(LocalAddr), NEW data, IInv, SendPacketTo(p, data)
    PROVE  /\ KeepsFrames(st.i_queue, st'.i_queue)
           /\ st'.s_queue = st.s_queue
           /\ \A o \in Peers(LocalAddr) : st'.peers[o].state = st.peers[o].state
<1> DEFINE frame == IFrame(PeerToAddressField(st, p), st.peers[p].control.last_ns, 0, data)
           q == Allocate(st.i_queue, Window, frame)
           peer == [st.peers[p] EXCEPT !.control = MoveToNextNs(st.peers[p].control)]
<1>1. st.i_queue \in FrameQueueOf(Window, DataFrame) /\ st.peers[p] \in PeerInfo
    BY DEF IInv, Good, Station
<1>2. peer.state = st.peers[p].state
    BY <1>1 DEF PeerInfo
<1>3. PutIFrame(st, p, data) = [st EXCEPT !.i_queue = q, !.peers[p] = peer]
    BY DEF PutIFrame, IInv, Good, Station
<1> HIDE DEF q, peer
<1>4. st'.i_queue = q /\ st'.s_queue = st.s_queue /\ st'.peers = [st.peers EXCEPT ![p] = peer]
    BY <1>3 DEF SendPacketTo, SendPacket, IInv, Good, Station
<1>5. \A i \in DOMAIN st.i_queue.frames :
          st.i_queue.frames[i] # NoFrame => q.frames[i] = st.i_queue.frames[i]
    BY <1>1, AllocateKeeps, WindowType DEF q
<1> QED BY <1>2, <1>4, <1>5 DEF KeepsFrames, IInv, Good, Station

(* get_tx_data: what check_timeouts does, then a frame may leave s_queue.  *)
LEMMA TransmitFrees ==
    ASSUME NEW local \in Address, NEW s \in Good(local)
    PROVE  /\ GenerateTxFrames(s).i_queue = s.i_queue
           /\ OnlyFrees(s.s_queue, GenerateTxFrames(s).s_queue)
           /\ \A p \in Peers(local) : GenerateTxFrames(s).peers[p].state = s.peers[p].state
<1>1. CASE GenerateTxFrames(s) = s
    BY <1>1, KeepsItself
<1>2. CASE GenerateTxFrames(s) = TransmitService(s)
    <2>1. s.s_queue \in FrameQueueOf(SQueueSize, ServiceFrame)
        BY DEF Good, Station
    <2>2. /\ TransmitService(s).i_queue = s.i_queue
          /\ TransmitService(s).peers = s.peers
          /\ TransmitService(s).s_queue = Free(s.s_queue, Lowest(Occupied(s.s_queue)))
        BY DEF TransmitService, Good, Station
    <2>3. OnlyFrees(s.s_queue, Free(s.s_queue, Lowest(Occupied(s.s_queue))))
        BY <2>1 DEF Free, OnlyFrees, FrameQueueOf
    <2> QED BY <1>2, <2>2, <2>3
<1>3. CASE /\ GenerateTxFrames(s) = TransmitIFrame(s, Lowest(ReadyPeers(s)))
           /\ ReadyPeers(s) # {}
    <2> DEFINE p == Lowest(ReadyPeers(s))
               peer == [s.peers[p] EXCEPT !.control = AdvanceNextNs(s.peers[p].control),
                                          !.i_elapsed = FALSE, !.frame_elapsed = FALSE,
                                          !.retries = Retries]
    <2>1. /\ TransmitIFrame(s, p).i_queue = s.i_queue
          /\ TransmitIFrame(s, p).s_queue = s.s_queue
          /\ TransmitIFrame(s, p).peers = [s.peers EXCEPT ![p] = peer]
        BY DEF TransmitIFrame, Good, Station
    <2>2. p \in Peers(local)
        <3>1. ReadyPeers(s) \subseteq Peers(local) /\ ReadyPeers(s) \in SUBSET Nat
            BY PeersType DEF ReadyPeers, Good, Station
        <3> QED BY <1>3, <3>1, LowestMember
    <2>3. peer.state = s.peers[p].state
        BY <2>2 DEF Good, Station, PeerInfo
    <2> HIDE DEF p, peer
    <2>4. \A o \in Peers(local) : TransmitIFrame(s, p).peers[o].state = s.peers[o].state
        BY <2>1, <2>2, <2>3 DEF Good, Station
    <2>5. GenerateTxFrames(s) = TransmitIFrame(s, p)
        BY <1>3 DEF p
    <2> QED BY <2>1, <2>4, <2>5, KeepsItself
<1> QED BY <1>1, <1>2, <1>3 DEF GenerateTxFrames

LEMMA GetTxDataKeeps ==
    ASSUME NEW s \in Good(LocalAddr)
    PROVE  /\ OnlyFrees(s.i_queue, PrepareTx(s).i_queue)
           /\ KeepsFrames(s.s_queue, PrepareTx(s).s_queue)
           /\ \A p \in Peers(LocalAddr) :
                  InSession(s.peers[p]) /\ ~ InSession(PrepareTx(s).peers[p])
                      => QueuedFor(PrepareTx(s), p) = {}
<1> DEFINE t == CheckTimeouts(s)
           u == GenerateTxFrames(t)
<1>1. t \in Good(LocalAddr) /\ Effect(LocalAddr, s, t, Peers(LocalAddr))
    BY LocalAddrAssumption, CheckTimeoutsGood, CheckTimeoutsEffect
<1> HIDE DEF t
<1>2. /\ u.i_queue = t.i_queue
      /\ OnlyFrees(t.s_queue, u.s_queue)
      /\ \A p \in Peers(LocalAddr) : u.peers[p].state = t.peers[p].state
    BY <1>1, LocalAddrAssumption, TransmitFrees
<1>3. u \in Good(LocalAddr)
    BY <1>1, LocalAddrAssumption, GenerateTxFramesGood
<1>4. PrepareTx(s) = u
    BY DEF PrepareTx, t
<1> HIDE DEF u
<1>5. KeepsFrames(s.s_queue, u.s_queue)
    BY <1>1, <1>2, AddThenFree DEF Effect
<1>6. \A p : PeerToAddressField(u, p) = PeerToAddressField(t, p)
    BY <1>1, <1>3 DEF PeerToAddressField, Good, Station
<1>7. \A p : QueuedFor(u, p) = QueuedFor(t, p)
    BY <1>2, <1>6 DEF QueuedFor
<1>8. \A p \in Peers(LocalAddr) : InSession(u.peers[p]) <=> InSession(t.peers[p])
    BY <1>2 DEF InSession
<1> QED BY <1>1, <1>2, <1>4, <1>5, <1>7, <1>8 DEF Effect

LEMMA DisconnectKeeps ==
    ASSUME IInv, DisconnectFirst
    PROVE  Effect(LocalAddr, st, st', {0})
<1> USE LocalAddrAssumption
<1> DEFINE t == PutUFrame(st, 0, "DISC")
           peer == [t.peers[0] EXCEPT !.state = "Disconnecting"]
<1>1. st \in Good(LocalAddr) /\ 0 \in Peers(LocalAddr)
    BY PeersType DEF IInv
<1>2. t \in Good(LocalAddr) /\ Effect(LocalAddr, st, t, {0})
    BY <1>1, PutUFrameGood, PutUFrameEffect DEF UType
<1>3. st' = [t EXCEPT !.peers[0] = peer] /\ st' \in Good(LocalAddr)
    BY <1>1, DisconnectGood DEF DisconnectFirst, Disconnect
<1>4. InSession(peer)
    BY <1>1, <1>2 DEF InSession, Good, Station, PeerInfo
<1> HIDE DEF t, peer
<1>5. Effect(LocalAddr, t, st', {0})
    BY <1>1, <1>2, <1>3, <1>4, ChangePeerEffect DEF Good
<1> QED BY <1>1, <1>2, <1>3, <1>5, EffectTransitive DEF Good

(* What the two action properties say of one step.                         *)
StepKeeps ==
    /\ KeepsFrames(st.i_queue, st'.i_queue)
    /\ KeepsFrames(st.s_queue, st'.s_queue)
    /\ \A p \in Peers(LocalAddr) :
           InSession(st.peers[p]) /\ ~ InSession(st'.peers[p]) => QueuedFor(st', p) = {}

LEMMA EffectKeeps ==
    ASSUME NEW S, Effect(LocalAddr, st, st', S)
    PROVE  StepKeeps
BY DEF Effect, StepKeeps, OnlyAdds, OnlyFrees, KeepsFrames

LEMMA NextKeeps == IInv /\ [Next]_st => StepKeeps
<1> SUFFICES ASSUME IInv, [Next]_st PROVE StepKeeps
    OBVIOUS
<1> USE LocalAddrAssumption
<1>0. st \in Good(LocalAddr)
    BY DEF IInv
<1>1. ASSUME NEW p \in Peers(LocalAddr), NEW data \in Payload, SendPacketTo(p, data)
      PROVE  StepKeeps
    BY <1>1, SendPacketKeeps DEF StepKeeps, KeepsFrames, InSession
<1>2. CASE DisconnectFirst
    BY <1>2, DisconnectKeeps, EffectKeeps
<1>3. ASSUME NEW frame \in Line, ReceiveFrame(frame) PROVE StepKeeps
    BY <1>0, <1>3, LineAssumption, OnFrameReceivedEffect, EffectKeeps DEF ReceiveFrame
<1>4. CASE GetTxData
    <2> DEFINE u == PrepareTx(st)
    <2>1. u \in Good(LocalAddr)
        BY <1>0, PrepareTxGood
    <2>2. /\ OnlyFrees(st.i_queue, u.i_queue)
          /\ KeepsFrames(st.s_queue, u.s_queue)
          /\ \A p \in Peers(LocalAddr) :
                 InSession(st.peers[p]) /\ ~ InSession(u.peers[p]) => QueuedFor(u, p) = {}
        BY <1>0, GetTxDataKeeps
    <2>3. st' = FinishTx(u)
        BY <1>4 DEF GetTxData
    <2> HIDE DEF u
    <2>4. /\ st'.i_queue = u.i_queue /\ st'.s_queue = u.s_queue
          /\ st'.peers = u.peers /\ st'.local_addr = u.local_addr
        BY <2>1, <2>3 DEF FinishTx, Good, Station
    <2>5. \A p : QueuedFor(st', p) = QueuedFor(u, p)
        BY <2>4 DEF QueuedFor, PeerToAddressField
    <2> QED BY <2>2, <2>4, <2>5 DEF StepKeeps, OnlyFrees, KeepsFrames
<1>5. CASE GetTxDataPart
    BY <1>0, <1>5, GetTxDataKeeps DEF GetTxDataPart, StepKeeps, OnlyFrees, KeepsFrames
<1>6. ASSUME NEW p \in Peers(LocalAddr), NEW timer \in {"i", "frame"},
             TimePasses(p, timer)
      PROVE  StepKeeps
    <2>1. st'.i_queue = st.i_queue /\ st'.s_queue = st.s_queue
        BY <1>0, <1>6 DEF TimePasses, Elapse, Good, Station
    <2>2. \A o \in Peers(LocalAddr) : st'.peers[o].state = st.peers[o].state
        BY <1>0, <1>6 DEF TimePasses, Elapse, Good, Station, PeerInfo
    <2> QED BY <2>1, <2>2 DEF StepKeeps, KeepsFrames, InSession
<1>7. CASE UNCHANGED st
    BY <1>7 DEF StepKeeps, KeepsFrames
<1> QED BY <1>1, <1>2, <1>3, <1>4, <1>5, <1>6, <1>7 DEF Next

(* No call writes over a queued frame, in either queue.                    *)
THEOREM QueuedFramesStay == Spec => NoOverwrite
<1>1. StepKeeps =>
          [KeepsFrames(st.i_queue, st'.i_queue) /\ KeepsFrames(st.s_queue, st'.s_queue)]_st
    BY DEF StepKeeps
<1> QED BY <1>1, AlwaysGood, NextKeeps, PTL DEF Spec, NoOverwrite

(* The end of a session frees every slot with a frame for that peer.       *)
THEOREM SessionTakesItsFrames == Spec => SessionEndPurges
<1> DEFINE Purges == \A p \in Peers(LocalAddr) :
                        InSession(st.peers[p]) /\ st'.peers[p].state = "Disconnected"
                            => QueuedFor(st', p) = {}
<1>1. StepKeeps => [Purges]_st
    BY DEF StepKeeps, InSession
<1> QED BY <1>1, AlwaysGood, NextKeeps, PTL DEF Spec, SessionEndPurges

(* A frame from one peer of a primary leaves the others alone.             *)
LEMMA GoodIsIsolated == IInv => PeerIsolation
<1> SUFFICES ASSUME IInv, NEW frame \in Line
             PROVE  LET after == OnFrameReceived(st, frame)
                    IN  \A p \in Peers(LocalAddr) \ AddressFieldToPeer(st, frame.addr) :
                            /\ after.peers[p] = st.peers[p]
                            /\ \A i \in QueuedFor(st, p) :
                                   after.i_queue.frames[i] = st.i_queue.frames[i]
    BY DEF PeerIsolation
<1>1. Effect(LocalAddr, st, OnFrameReceived(st, frame), AddressFieldToPeer(st, frame.addr))
    BY LocalAddrAssumption, LineAssumption, OnFrameReceivedEffect DEF IInv
<1> QED BY <1>1 DEF Effect

(* So it is in every state of an endpoint.                                 *)
THEOREM PeersAreIsolated == Spec => []PeerIsolation
BY GoodIsIsolated, AlwaysGood, PTL

===============================================================================
