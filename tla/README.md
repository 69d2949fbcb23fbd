# tinyproto: TLA+ models and proofs

A verification development for the Rust implementation of tinyproto (`src/src/proto`).
It models the full-duplex protocol (`TinyFd`) between two endpoints and on a multi-drop bus, its
header bytes and checksums, the byte level under it (`HdlcLl`) and the two simpler protocols
(`Hdlc`, `Light`), checks them with TLC on small instances and proves, with TLAPS, what holds for every value of the
constants: of one full-duplex endpoint whatever it receives, of the bus, of a link of two endpoints
(no packet lost, repeated or out of order), of every frame on its way through bytes, and of `Light` and
`Hdlc` on any line.

## 1. The system

| part | source | state | operations |
|---|---|---|---|
| sequence numbers | `fd/i_queue_control.rs` | `last_ns`, `confirm_ns`, `next_ns`, `next_nr`, all 3 bits | confirm, rewind, advance, accept |
| frame queues | `fd/frame_queue.rs`, `fd/frames.rs` | a slot array and the index where the next allocation starts | `allocate`, `get_next`, `free`, `free_by_ns`, `reset_for` |
| peers | `fd/peers.rs`, `fd/defines.rs` | per peer: connection state, numbers, `sent_reject`, `retries`, two timestamps | `reset_connection`, address conversions |
| header bytes | `fd/frames.rs`, `fd/defines.rs`, `fd/protocol.rs` | none | address and control byte, both ways |
| full-duplex endpoint | `fd/protocol.rs` | peers, an I-frame queue, an S/U-frame queue, event bits, a `HdlcLl` | `send_packet`, `disconnect`, `on_rx_data`, `get_tx_data` |
| HDLC byte level | `hdlc/low_level_ll.rs` | receive: phase, buffer, escape; transmit: phase, frame, position, escape; received frames, notifications of sent ones | `put_frame`, `run_tx`, `run_rx`, `reset` |
| HDLC one-shot encoder | `hdlc/low_level.rs` | none | `encode`, `decode` |
| HDLC with events | `hdlc/high_level.rs` | a `HdlcLl`, four event bits | `send`, `run_tx`, `get_tx_data`, `run_rx`, `reset` |
| frame and node pipeline | `hdlc/frame.rs`, `hdlc/node.rs` | a list of nodes | not used by the protocols |
| light protocol | `light.rs` | a `HdlcLl` | blocking `send` and `read` |
| checksums | `crc.rs`, `calculate_crc` | none | byte sum, FCS16, FCS32 |
| errors, crate surface | `error.rs`, `lib.rs`, `mod.rs` | none | codes, texts, re-exports |

How they interact. The application calls `send_packet` and `disconnect` on `TinyFd`; a
receiving thread feeds it bytes with `on_rx_data`, a transmitting thread asks it for bytes
with `get_tx_data`. All take `&mut self`, so calls never overlap: one call is one step.
`TinyFd` reaches the application through two callbacks, `on_read_cb` (a payload) and
`on_connect_event_cb` (up or down). Endpoints only meet on the line: two of them, or a primary
and as many secondaries as it has peers, all of which hear every frame. `TinyFd`, `Light`
and `Hdlc` each own a `HdlcLl`.

What is hard here:

- the two ends run on their own clocks: frames cross, get lost, and timeouts fire before
  or after the answer they wait for;
- sequence numbers are three bits wide and compared with nothing but walking and equality;
- the same fact is kept twice: what is unconfirmed is in the numbers *and* in the slots of
  the queue, room for senders is in the slots *and* in an event bit, and every handler
  has to change both;
- the peers of a primary share both queues, and are served from the first one on, each time;
- a station may be taken off the bus and replaced by one that starts afresh at its address;
- every field of the two header bytes is shifted and masked by hand, in both directions, and an
  altered bit may end a frame, join two, or escape a byte before any checksum is looked at;
- a service queue of four slots is filled round-robin and emptied from slot 0;
- a session may end (DISC, DM, UA, exhausted retries) at any moment of a transfer;
- the byte stream has no structure but its flags, one flag value opens and closes, and either
  end may give up anywhere inside a frame;
- whether the transmitter is free is in `HdlcLl` *and* in an event bit, and a notification of a
  sent frame may outlive the call it was meant for.

What makes it correct:

- *link*: packets are delivered at most once, in order, none is lost without the disconnect
  event; they arrive eventually if the line loses finitely many frames; a sender is let in
  again and again; both ends get connected and stay so;
- *bus*: what happens at one address does not reach another: a peer that is gone keeps neither
  its packets nor the slots it holds in the way of the others for ever;
- *bytes*: what one station means is what one other station reads, or nothing is read;
- *numbers*: whatever N(R) arrives lies between the oldest unconfirmed number and the next
  new one; the I-frame queue holds exactly the unconfirmed frames;
- *endpoint*: well-formed under any input, a sender that is let in finds a slot, no queued
  frame is overwritten, a session leaves nothing to the next one, peers do not disturb each
  other;
- *byte level*: whatever came before, a frame that follows a whole frame is received as sent;
  a receiver in step makes nothing up; the two encoders of the crate write the same bytes (all
  but in the setting `HdlcCrcDefault`);
- *Light*: `send` returns Ok only for a frame all of whose bytes were written;
- *Hdlc*: the same for a driven `send`; the event bit tells whether the transmitter is free,
  and it keeps coming free.

`PROJECT.json` lists the hazards at their lines, each with the properties that watch it or the
reason why none does yet.

## 2. The modules

```
IQueueControl   FrameQueue               operators on one record each
        \         /
          TinyFd                         one operator per method of TinyFd
      /     |     \
FdStation  FdLink  FdHeader  Checksum    one endpoint / two / header bytes / FCS
    |  \      \         \      /
    |  FdBus   \         FdWire -------- HdlcLl
    |     |     \           |            /      \
    |     |   MCFdLink   MCFdWire   HdlcEncoder  Hdlc -- MCHdlc
    |  MCFdBus                           |
MCFdStation                          LightLink -- MCLightLink

ReliableStream    refined by FdLink, per direction, and by FdBus

TinyFdLemmas -> FdStationProofs -> FdBusProofs       what a call makes of an endpoint; theorems
             -> FdLinkProofs
HdlcLlLemmas -> LightLinkProofs                      what a byte makes of a HdlcLl; theorems
             -> HdlcProofs
             -> FdWireProofs                         header bytes, checksums and the wire; theorems
```

**IQueueControl** models `IQueueControl` with the mask `& 7` as `% SeqMod`. The loop of
`confirm_sent_frames` is given by the set of numbers it visits (`Confirmed`); it does not
test whether N(R) is in the window, and neither does the model. `move_to_previous_ns` has no
caller.

**FrameQueue** models the slot array with its order: `allocate` looks from `lookup` on and
goes round, every other search starts at slot 0, one `free_by_ns` frees one slot.

**TinyFd** has an operator from endpoint to endpoint for each method and for each private
method with a state change. Header bytes are a record (type, address, N(S), N(R)); payloads
are members of a set; `FdHeader` says which bytes they are. An endpoint may receive any `Frame`, but
its I-frame queue only holds a `DataFrame`, with a payload, and its service queue only a
`ServiceFrame`: that is what `put_i_frame` and `put_u_s_frame` are called with.
Time is two flags per peer, "`retry_timeout` has gone by since `last_sent_i_ts`" and the same
for `last_sent_frame_ts`; a fresh `Instant::now()` clears one, `Elapse` sets one. `tx` is the
frame given to `HdlcLl` and not yet written out. `get_tx_data` is `PrepareTx` (timeouts, then
at most one frame) followed by `FinishTx` when the caller's buffer took the whole frame.
Not modelled: the `DataTooLarge` and `UnknownPeer` refusals (they change nothing), the waiting
inside `send_packet` and `get_tx_data` (nothing else can run meanwhile).

**FdStation** is one endpoint whose application calls anything and to which any frame of a
constant set may come at any time. What holds here needs no good will of the other side.

**FdLink** is two endpoints and a FIFO in each direction. It adds what the applications see:
`accepted`, `delivered`, `dropped` (packets purged at an `on_connect_event_cb(false)`). A frame
that arrives damaged is rejected by the CRC and so lost (`Lose`). Loss and disconnects draw on
budgets.

**FdBus** extends `FdStation`: its endpoint is the primary, at address 0, and beside it stand
`PeersCount` secondaries of the same kind. Every station hears every frame and sorts it by its
address (`Hears`). A flow is a pair of applications; packets are traced per flow. Secondaries may
be unplugged and replaced by a new endpoint, all but the last one, `Steady`, which is the last
the primary looks at when it chooses an I-frame to send: what the others suffer must not reach it.

**ReliableStream** is what `send_packet` promises, without any protocol: accept, deliver in
order, forget what arrived, give up with a notice. `FdLink` implements it in each direction
under the mapping `pending <- ` the payloads in the I-frame queue; TLC checks that as
`PrimaryStream` and `SecondaryStream`. On the bus the flow to `Steady` implements it
(`SteadyStream`), a payload that strays in from another flow counting as number 0, which no
stream delivers.

**FdHeader** has the address byte `(addr << 2) | E` in eight bits, `is_primary_address`, both
address conversions on bytes, the control byte each method writes and what the masks of
`on_frame_received` and its two branches make of any two bytes. The P/F bit is written as the code
writes it (not in DM and RR) and masked away as the code masks it.

**Checksum** has the byte sum and both FCS, bytes and words being sets of bit positions. The two
tables of `crc.rs` are linear, so eight entries stand for 256. `ReferenceFcs` is the definition of
the FCS in RFC 1662: a remainder of polynomials over two elements.

**FdWire** takes one frame from `TinyFd` at one station to `TinyFd` at another: `FdHeader`, then
`HdlcLl` instantiated with the 256 byte values, the real flag and escape and `Checksum`, byte by
byte over a line that alters bits, then `on_rx_data`. It is what entitles `FdLink` and `FdBus` to
frames that arrive as they were sent or not at all.

**HdlcLl** has the receiving and the transmitting half of `HdlcLl` as two records, and an operator
for one byte of `run_rx` (`RxByte`) and of `run_tx` (`TxOut`, the byte, and `TxStep`, the state
after it). Byte values, the flag, the escape character and its bit, the buffer size and the
checksum are constants. The receive phase `End` exists only inside `run_rx`; the transmit phases
`Data` and `Crc` do the same to different bytes and are one here.

**HdlcEncoder** gives `encode` and `decode` as functions on byte sequences. They take their own
checksum, `EncoderCrc`: that of `HdlcLl`, but zeros in the setting `HdlcCrcDefault`, which is the
constant `CrcDefault`.

**LightLink** is one `Light` endpoint in `send` and another in `read`. A turn of either loop is a
step, so writing, reading, timeouts and failing callbacks interleave byte by byte; between two
bytes the line may lose, alter or make up any number. `whole` and `synced` are history: whether the
frame on the line has passed undamaged so far, and whether a whole frame has passed since the
last damage. A `send` that returns Busy changes nothing and is no step.

**Hdlc** is one endpoint with its event bits. All methods take `&mut self`: no other call runs
during a loop of `send` or `run_tx`, and the condition variable behind the events cannot be
signalled during a wait.

The definitions named `X_Something` just before `X` are seeded faults: a plausible mistake in
that method, used to see that each property notices one.

## 3. What TLC checks

| run | states | what it shows |
|---|---|---|
| `station` | 541 977 | ABM endpoint, any calls, any frame: `TypeOK`, `FreeSlotEvent`, `ColdControl`, `NoOverwrite`, `SessionEndPurges` |
| `link_transfer` | 96 014 | connection, four packets one way and one the other over a lossy line: `TypeOK`, `NrInWindow`, `QueueIsWindow`, both streams, `EventualDelivery`, `EventuallyConnected` |
| `link_disconnect` | 129 301 | three packets one way and two the other, and a disconnect by either side at any moment: `NrInWindow`, `QueueIsWindow`, both streams, `SenderGetsIn`, `EventuallyConnected` |
| `bus` | 120 382 | a primary and two secondaries, the first of them unplugged and replaced: `BusTypeOK`, `PeerIsolation`, `SteadyStream`, `BusSettles` |
| `wire` | 105 593 | every frame as bytes, under every checksum, with bits altered: `WireTypeOK`, `NothingForged`, `Faithful`, `OneTaker`, `StandardCrc` |
| `pipelined` | – | refutes `NothingLost`, see section 4 |
| `early_send` | – | refutes `EventualDelivery` |
| `hotplug` | – | refutes `HotPlug` |
| `lost_reject` | – | refutes `SenderGetsIn` |
| `light_link` | 1 924 112 | a sender, a receiver and a line that damages without limit: `TypeOK`, `Resync`, `NothingInvented`, `OkMeansWritten`, `DecoderReads` |
| `hdlc` | 296 056 | any calls on an `Hdlc`, two failing writes: `TypeOK`, `AcceptMeansIdle`, `DrivenMeansSentUnlessStale`, `KeepsAccepting` |
| `hdlc_failed_write` | – | refutes `DrivenMeansSent`, see section 4 |

**Bounds.** `SeqMod` is 8 in the code. Most passing runs use 2, 3 or 4 so that the numbers
wrap: `link_transfer` sends 4 packets modulo 3, `station` reaches every number modulo 2. The
largest window a modulus allows is `SeqMod - 1`, and that is the one used where the window
matters (`link_transfer`: 2 of 3, `bus`: 2 of 3, `station`: 1 of 2). In
`link_disconnect` both sides send at least two packets: one that is skipped, doubled or out of order
shows in either stream. In `link_transfer`, where frames are lost, the same goes for the primary's
four packets; the one that comes back can only be skipped or doubled. That more of them keep their order
is the theorem `SecondaryIsReliable`, for losses after the setup. (With two packets back the run has
462 340 states; its safety properties hold there, and liveness takes too long.) `pipelined`, `early_send` and
`lost_reject` use the code's 8, and so does `wire`. `SQueueSize` is the code's 4 in the runs with
several endpoints and smaller in `station`, where a full queue is wanted. `ChanCap` = 6 is never
the reason why an end cannot transmit for good: `Transmit` waits, as a writer on a full serial
line does. Payloads are numbered so that every delivery can be traced. `Retries` is 1, so that
giving up is reached within the loss budget. In `bus` one packet goes to the secondary that is
unplugged and two to the other, through a queue of two slots: the second must get past a slot
that a peer without an answer holds. One secondary is unplugged once; plugging in may happen at
any later time or never.

`wire` has 63 secondaries, the most that eight bits tell apart (`EightBits`; the 64th is described
in section 4). The station with the address 3 receives and sends every frame type with every
number, without payload, with one that is a flag and with one that is an escape sequence; all
under all five checksums. One bit is altered anywhere, two in some frames with a payload under the
two FCS. Without a checksum nothing is altered, and under the byte sum only frames without a
payload: section 4 says why. Each of the 63 stations also sends and receives a SABM.

`light_link` and `hdlc` have four byte values: two plain ones, the flag and the escape character, so that
payload, checksum and noise all meet the special cases. The receive buffer of `light_link` holds
three bytes; the payloads include one that needs it all, one that is too long for it, one whose
checksum is a flag, one whose checksum is the escape character, and the empty one. The checksum
of one byte is weak: it accepts every fourth damaged frame, and the properties must not lean on
it, so `Resync` and `NothingInvented` speak of what happens in step and not of what a checksum
lets through. `MaxStale` bounds the notifications nobody fetches. `hdlc` has no checksum and a
buffer of one byte, since nothing it checks depends on what is received.

**Assumptions of the link runs.** Each is a constant of `FdLink`:

- `SendsWhenConnected`: applications wait for `on_connect_event_cb(true)` before they send.
  `early_send` shows what happens otherwise.
- `Alternates`: an end writes out the answers it has queued before it reads the next frame,
  as `exchange()` in the tests (`protocol.rs:857`) and the loop of `examples/fd_loopback.rs`
  do. `pipelined` shows what happens otherwise.
- `SlowTimer`: `retry_timeout` is longer than a round trip, so a timeout means a loss.
- `MaxSetupLoss` = 1 of `MaxLoss` = 2 in `link_transfer`: two losses while the connection comes up
  can leave one end connected and the other not; the SABM that follows meets an end already in
  `Connected`, which is the situation of the `hotplug` finding.
- A window of 2 in `link_transfer` and `link_disconnect`: with a window of 1 two losses suffice for
  the deadlock of `lost_reject`; with 2 there is room for one frame more, whose acceptance clears
  `sent_reject`.

`FdBus` makes the first three part of its actions, and its line loses nothing but what is on its
way to a station that is unplugged.

**Fairness.** `FairSpec` of `FdLink` assumes weak fairness of three things at each end: a frame on
the line is read (`TakeFrame`, the part of `Receive` that decides whether it can), the transmitter
is polled (`Transmit`), time goes by (`TimeElapses`). That is what the driver threads of the
examples do: each is a loop around `on_rx_data` or `get_tx_data` that never waits on a condition of
the protocol. Nothing is assumed of the applications or the line. `FairBusSpec` assumes the first
for each station and, more weakly than `FairSpec`, the other two together; it does not assume that
anyone is unplugged or plugged in. In `hdlc`, `FairSpec` assumes that a loop inside a call
goes on and that the program calls `run_tx` again and again between its other calls, which is how
the comment of `HdlcLl::run_tx` ("Call this repeatedly") says an endpoint is driven.

**Deadlock** is checked in every run but `wire`, where a frame's way ends; there is none, since
`get_tx_data` may always be called.

## 4. Where code and documentation disagree

1. `pipelined`. Two RRs queued between two calls of `get_tx_data` can leave in the wrong order,
   because slots are taken round-robin and sent from slot 0 (`protocol.rs:672`). The older N(R)
   then arrives last and `confirm_sent_frames` walks all the way round to it, freeing frames
   that were never delivered, on a line that loses nothing.
2. `early_send`. `send_packet` before the connection succeeds, but `switch_to_connected` resets
   the numbers and not the queue; the packet is never transmitted and never reported.
3. `hotplug`. A primary that is still `Connected` answers the SABM of a replaced station with UA and
   keeps its old numbers while the new station starts from 0: what it sends next is never accepted.
4. `lost_reject`. Two faults meet. A receiver that has answered with REJ answers no other frame out
   of sequence until it accepts one (`sent_reject`, `protocol.rs:500`); if the RR of a frame and
   the REJ for its repetition are lost, it never will, for the only frame that comes is one it
   has. And every transmission of an I-frame sets `retries` back to its maximum
   (`protocol.rs:706`), so the documented limit never ends the session, from which it would
   recover. Both ends stay connected, the sender repeats one frame, and `send_packet` times out.
5. `hdlc_failed_write`. A `send_fn` that fails on the closing flag makes `send` return Failed, but the
   notification of that frame is already queued and `reset` does not remove it
   (`low_level_ll.rs:160`). The next `send` takes it for its own after one byte and returns Ok; its
   frame is still in `HdlcLl` while `TX_ACCEPT` is set. `DrivenMeansSentUnlessStale` shows that
   nothing else makes a driven send lie.

Observed while modelling, and kept out of the passing runs by their bounds:

- `disconnect()` always means peer 0: a primary cannot disconnect from any other. And it does not
  ask for the state. Called while `Disconnected` it enters
  `Disconnecting`, where I- and S-frames are accepted; two calls that cross on the line break
  `NrInWindow`. `link_disconnect` allows one call.
- `Disconnecting` has no timeout: a lost DISC or UA leaves the end there until the other side
  sends something that ends it. When that is a SABM (the UA was lost) it goes to `Connected`
  without having purged its queue, and the old frames stay behind as in `early_send`.
  `link_disconnect` loses nothing.
- In NRM nobody connects: `check_timeouts` sends SABM in ABM only and SNRM is never sent.
- With a timer shorter than a round trip an end may give up while the other stays connected.
- `switch_to_disconnected` frees slots without setting `QUEUE_HAS_FREE_SLOTS`, so a waiting
  sender times out although there is room. `SenderGetsIn` shows that this ends with the next
  connection, `FreeSlotEvent` states the other direction.
- A peer that is gone keeps its slots of the common I-frame queue, since its retries never run
  out. `bus` shows that the others get through as long as one slot is left; with all taken every
  `send_packet` of the primary times out.
- The address byte of station 64 is that of the primary, and station 65 has that of station 1;
  `TinyFd::new` refuses neither, nor `peers_count` > 63.
- Under the byte sum a bit that turns a payload byte into an escape character, or an escape
  character into another byte, can leave the sum as it was: a frame is then delivered that was
  never sent. `NothingForged` holds for both FCS.
- `TX_DATA_AVAILABLE` is never cleared: after the first frame the wait in `get_tx_data` returns at
  once and a transmit loop with a timeout spins.
- `Light::send` leaves its frame in `HdlcLl` when `write_fn` fails: every later `send` of a payload
  returns Busy, and only a `send` of nothing writes the rest out.
- `Light::send` fetches one notification per call and none when it times out, so a timeout after
  the closing flag keeps that frame in memory.
- A `send` that timed out inside a frame costs the next frame too: its opening flag closes the
  unfinished one (`Resync` says that no more is lost).
- `run_rx` keeps the first bytes of a frame that is too long and the `DataTooLarge` branch cannot be
  reached; the checksum is what rejects the rest. With `HdlcCrcOff` the shortened frame is returned.
- `Hdlc::send` in multithread mode waits for `TX_DATA_SENT` while it holds `&mut self`: it times out,
  or returns at once if an earlier `run_tx` has left the bit set.
- `Hdlc::send` of an empty payload takes `TX_ACCEPT` and queues nothing; no `run_tx` gives it back.
- `HdlcCrcDefault` "defaults to CRC-32" (`crc.rs:202`). In `HdlcLl` it does; `encode` and `decode` of
  `HdlcEncoder` have no arm for it (`low_level.rs:107` and `:182`) and leave the checksum at 0 in its four
  bytes. They understand each other (`DecodeReadsBack`), but `decode` answers WrongCrc to what `Light::send`
  wrote in the same setting: with `CrcDefault = TRUE` and a checksum that is not zero `DecoderReads` and
  `OkMeansWritten` are violated. The run `light_link` has `CrcDefault = FALSE`.

## 5. What is proved

### 5.1 One endpoint

For every value of the constants that satisfies the named assumptions of `IQueueControl`, `TinyFd`
and `FdStation` (`SeqMod >= 2`, `1 <= Window < SeqMod`, at least one slot in the service queue, at
least one peer, mode ABM or NRM, any set of well-formed frames on the line; `NoFrame` is no frame):

| theorem (`FdStationProofs`) | property |
|---|---|
| `TypeCorrect` | `TypeOK` |
| `SenderFindsSlot` | `FreeSlotEvent` |
| `SessionsStartCold` | `ColdControl` |
| `QueuedFramesStay` | `NoOverwrite` |
| `SessionTakesItsFrames` | `SessionEndPurges` |
| `PeersAreIsolated` | `PeerIsolation`, among any peers that send any frames |

**Invariant.** `IInv` says that the endpoint is `Good`: in `Station` (type), `Slotted` (the event
implies a slot) and every peer `Cold` (outside a session only `last_ns` may differ from 0). The
three need each other: that a slot is freed, or a number stays in range, is known only of a
well-typed endpoint, and a peer in state `Connecting` stays cold only because it was cold before.
`TinyFdLemmas` proves for each method that a good endpoint stays good, from three lemmas about
changing one peer, one queue or the events; `FdStationProofs.NextGood` then has a step per
action.

**Effects.** The three remaining properties relate two endpoints, before and after a call.
`FdStationProofs` defines one relation, `Effect(local, s, t, S)`: the I-frame queue only loses
frames, the S/U-frame queue only gains some, peers outside `S` and their frames are untouched,
and a peer that leaves its session leaves no frame. It is transitive, so each method has it
because its parts have it. `send_packet` and the transmission of a frame are the two steps
outside the relation (one adds to the I-frame queue, the other takes from the service queue)
and get lemmas of their own. Isolation uses that two peers never share an address
(`AddressDistinct`) and that `free_by_ns` compares it (`FreeByNsAddress`).

**Recursion.** `check_timeouts` loops over the peers; the model is a recursive function. That such
a function exists, and induction over the peers, are derived in `LoopExists` and
`TinyFdLemmas.SetInduction` from facts about finite sets.

### 5.2 The bus

| theorem (`FdBusProofs`) | property |
|---|---|
| `BusTypeCorrect` | `BusTypeOK` |
| `BusPeersAreIsolated` | `PeerIsolation`, for a primary among live secondaries |

For any number of secondaries, unplugged and plugged in at will. The invariant, `BusInv`, is that
every endpoint is good for its own address and that the line to each station holds frames an
endpoint may send. The second part is what lets the lemmas of 5.1 about received frames be used
here, and it holds because the first does: a good endpoint has nothing else in its queues.

That the flow to the last secondary is a `ReliableStream` (`SteadyStream`) is not proved; the run `bus` checks it.

### 5.3 The link

Under the assumptions of `TinyFd` and `FdLink` alone:

| theorem (`FdLinkProofs`) | property |
|---|---|
| `TypeCorrect` | `TypeOK` |

and under the hypothesis `Disciplined`, for every modulus, window, service queue, number of
packets, retries > 0 and number of losses on a connected link:

| theorem (`FdLinkProofs`) | property |
|---|---|
| `NrStaysInWindow` | `NrInWindow` |
| `QueueStaysWindow` | `QueueIsWindow` |
| `LosesNothing` | `NothingLost` (which `pipelined` refutes for threads that do not alternate) |
| `KeepsOrder` | `InOrder` and `NoGap` of both streams: at most once, in order, no packet passed over |
| `PrimaryIsReliable` | `PrimaryStream`, the refinement of `ReliableStream` |
| `SecondaryIsReliable` | `SecondaryStream` |

`Disciplined` is the set of assumptions of the link runs (section 3), without disconnects and
without losses during the setup:

- `Alternates` and `SendsWhenConnected`: `pipelined` and `early_send` are what happens otherwise;
- `SlowTimer`: with a timer shorter than a round trip an I-frame may be on its way so long that
  its number comes to stand for a later packet;
- `Retries > 0`: with none, the first timeout ends the session;
- `MaxDisconnect = 0`: with disconnects packets are given up, and the counts below start again while
  frames of the last session are under way; `link_disconnect` checks the same properties there;
- `MaxSetupLoss = 0`: a loss while the connection comes up can leave one end in it and not the other,
  which then ends the session of the first with a DM.
  `link_transfer` allows one; more can leave a connection whose ends count differently (`hotplug`).

The behaviours of `link_transfer` that lose nothing during the setup are those of an instance of these
theorems.

**Invariant.** `LinkInv`. The code keeps its numbers modulo `SeqMod`, in which nothing is earlier or
later than anything else; the invariant counts packets. For each sender there is a `c`, the packets
confirmed, with

    c <= Got <= accepted <= c + (SeqMod - 1)

`Got` being those delivered, and every number anywhere is one of these counts modulo `SeqMod`:
`confirm_ns` is `c`, the peer's `next_nr` is `Got`, `last_ns` is `accepted` (`Numbers`). The queue
holds the packets after `c`, each under its number (`Holds`); an I-frame on its way is at most
`SeqMod - 1` behind what has been delivered when it arrives (`OnWay`), so it cannot pass for a later
one; the N(R) on their way back stand for counts that never go down, between `c` and `Got`
(`Acked`); an answer not yet sent is up to date (`UpToDate`), which is what `Alternates` is for. Two
counts less than `SeqMod` apart with the same number are equal (`ModDistinct`), and that turns each
comparison of numbers in the code into one of counts.

Three more parts are needed to make this inductive. `HandshakeInv` says what may be on the line
while an end is not connected: it has sent and received nothing, and the frame that will connect it
is on the line or waits to be sent. `TimedOut` says that when `retry_timeout` is over nothing is under
way and no answer is out of date, so that a rewind does not bring back a packet whose number has
been used again. `Rewound` says that a counted retry is one whose frame has not been sent
yet: sending it resets `retries`, so they never run out and no session ends. (The latter is the
reason for finding 4 as well.)

**Steps.** `TinyFd` handlers work on the whole endpoint; lemmas named `...Outcome` say once what each
makes of an endpoint with one peer in the states the invariant allows. Then each action has a lemma per
part of the invariant, and `NextLink` combines them. The refinement follows from the invariant: a
step accepts, delivers or confirms, or does not show (`StreamStep`).

### 5.4 The byte level

| theorem (`LightLinkProofs`) | property |
|---|---|
| `TypeCorrect` | `TypeOK` |
| `OkWritten` | `OkMeansWritten`, if `~ CrcDefault` |
| `Resynchronises` | `Resync` |
| `InventsNothing` | `NothingInvented`, if `CutFails` |
| `DecoderFindsPayload` | `DecoderReads`, if `~ CrcDefault` |
| `DecodeReadsBack` (`HdlcLlLemmas`) | `decode` reads back what `encode` wrote, in every setting |

| theorem (`HdlcProofs`) | property |
|---|---|
| `TypeCorrect` | `TypeOK` |
| `AcceptIsIdle` | `AcceptMeansIdle`, if `NoEmptyPayload` |
| `DrivenIsSent` | `DrivenMeansSentUnlessStale`, if `NoEmptyPayload` |

For every alphabet with a flag, an escape character and an escape bit that behave as those of the
code do (`ByteAssumption`), every checksum of a fixed length, every set of payloads and every line.

- `~ CrcDefault`: the setting is any but `HdlcCrcDefault`. In that one `HdlcEncoder` takes another checksum
  than `HdlcLl`, and both properties fail (section 4). Both are about payloads that are
  not empty: `put_frame` takes an empty one for done and queues nothing, so `send` returns Ok without a
  frame of its own, while `encode` makes one of it.
- `CutFails`: a payload too long for the receiver, cut to the size of its buffer, does not match its
  checksum by chance. It is true of the alphabet and payloads of `light_link`. With
  `HdlcCrcOff` it is false of any payload that is too long, and the property fails as section 4 says: `run_rx` returns
  the first bytes of such a frame.
- `NoEmptyPayload`: the application does not call `Hdlc::send` with nothing, which takes `TX_ACCEPT`
  for good (section 4).

**Invariants.** `LightLinkProofs.IInv` has a part for each half. The transmitter's part, `GoodTx`, says
where in its frame it stands; `WrittenInv` that what `write_fn` has taken plus the byte in hand is
the encoding up to there. The receiver's part relates it to the transmitter: while the frame is
undamaged the receiver is `InStep`, its buffer holding the bytes before the transmitter's position
(as many as fit) and its escape flag set when the byte before was an escape; once damaged, it is
anywhere, until a closing flag brings it back to the start. For `Hdlc`, `AcceptInv` says when the
event bit and the state of `HdlcLl` agree; they part while a call has the frame, and after a write
that failed on a closing flag (`stale`).

`HdlcLlLemmas` has the two halves of `HdlcLl` by themselves: a byte written takes the transmitter one
step along its frame, a byte read keeps the receiver in step with it, and of the whole frame nothing
is left but its payload.

`decode` is another reader of the same bytes, in one loop. It is a recursive function over the bytes,
and the lemmas on `Decoded` follow it through an encoding: after the opening flag and the stuffed bytes
of a prefix it has collected that prefix, so at the closing flag all of the payload and its checksum.
The induction is over the length of the prefix: `CountingUp` derives it from the pigeonhole principle
for finite sets, as the library's induction theorems are out of the provers' reach.

### 5.5 The wire

| theorem (`FdWireProofs`) | property |
|---|---|
| `WireTypeCorrect` | `WireTypeOK` |
| `FaithfulWire` | `Faithful` |
| `SentHasOneTaker` | `OneTaker`, of a frame that arrives as it was sent (`NothingForged`) |
| `CleanWire` | `NothingForged` and `OneTaker`, while the line alters nothing |

| theorem (`FdWireProofs`) | |
|---|---|
| `AddressByteNamesPeer` | the peer found by comparing bytes is the one found by comparing station numbers |
| `ByteHasOneTaker` | each address byte between the primary and a secondary is taken by one station, whose application is told the right one |
| `FrameReadsBack` | `FromBytes(ToBytes(frame)) = {frame}` for every frame `TinyFd` makes |

For the code's `SeqMod` of 8 (`EightBits`), up to 63 secondaries, any MTU from 2 on, each of the five
checksum settings, every frame `TinyFd` makes between two stations, with any non-empty payload of bytes
that fits (`PayloadAssumption`, `JourneyAssumption`). TLC checks the same on the frames of `MCFdWire`.
These theorems entitle `TinyFd` to records in place of header bytes, `FdLink` and `FdBus` to frames that
arrive whole; what they leave to the checksum is said in 5.6.

**Header bytes.** `AddressByteNamesPeer`, `ByteHasOneTaker` and `FrameReadsBack` have no invariant:
they are about three numbers of at most six bits, put into eight and taken out again.

**Checksums.** The lemmas of 5.4 ask two things of a checksum: it yields bytes, and as many of them as
`GetCrcFieldSize` says. `CrcType` proves that of `Checksum`, whose values are sets of bit positions: a
set of positions below 8 is a byte (`OctetIsByte`), and the recursive function that sums the bytes
exists and stays one (`SumExists`, `ByteSumType`).

**Invariant.** `JourneyInv` is `Typed`, the shape of both halves of `HdlcLl`, which holds whatever the
line does, and, while it has altered nothing, `Whole`: the receiver is in step with the byte the
transmitter is at (`InStep` of 5.4), and once the closing flag has passed the frame is either in
`rx.frames` or in `given`. `CarryWhole` is the step that matters: since the frame fits `RxSize`, what
the receiver has kept at the closing flag is the frame and its checksum, so it completes one frame, the
one that was sent. `HdlcLl`, instantiated in `FdWire` with constants that depend on the journey
(checksum and buffer size), is shown to have the operators of the lemmas' instance, whose constants do
not change (`SameOperators`, `SameJourney`).

### 5.6 Only model-checked

- Everything under fairness (`EventualDelivery`, `EventuallyConnected`, `SenderGetsIn`, `BusSettles`,
  `KeepsAccepting`): the prover has no rule for it.
- The link properties with a loss during the setup (`link_transfer`) and with disconnects
  (`link_disconnect`), and the refinement on the bus (`SteadyStream`), where frames of an unplugged
  station are still about.
- `NothingForged` on a line that damages the frame. It is no theorem for every payload and number of
  bits: a bit that turns a byte into a flag ends the frame there, and a payload may hold a frame of its
  own with a checksum that fits. With `HdlcCrcOff` any such cut will do, and `Journeys` of the run
  alters nothing there. What a checksum of two or four bytes detects in the frames of the run is for
  TLC to try.
- `StandardCrc`: that the tables of `crc.rs` give the remainder RFC 1662 defines is a statement about
  polynomials of any length, an induction over the data on both sides. TLC compares the two on the
  frames of the run.

## 6. Not modelled

- Bytes and protocol at once: `FdWire` takes one frame at a time and `FdLink` takes frames whole. What
  `HdlcLl` makes of a stream in which frame follows frame and flags go missing is `LightLink`.
- The wait inside `send_packet` and `get_tx_data`; the event bits are there, the condition variable
  is not.
- `PeerManager::switch_to_next_peer`, `move_to_previous_ns`, `FrameQueue::reset` and
  `free_by_header`, which nothing calls.
- A wait for `TX_ACCEPT` without end, which cannot return. A `send_fn` that answers 0 for ever, from
  which the loops of `Hdlc` never come back (that of `Light` looks at the clock there).
- `hdlc/frame.rs` and `hdlc/node.rs`, which no protocol uses. `error.rs` and the crate surface have no
  state and decide nothing.
- Wrong configurations: `TinyFd::new` with a window of 0 or more than 7 fails, as the assumptions on
  the constants say; an `rx_buf_size` other than the MTU is a capacity only.

## 7. Left open

Three results that TLC has checked on small instances and for which there is no proof yet, in the order
in which they would say most:

1. The link with one loss during the setup. If it is the UA that is lost, the end that sent it is
   connected and may send packets, which the other, still `Connecting`, answers with DM: the session
   ends and its packets are given up. The counts of `LinkInv` then need a base for each session, and
   `HandshakeInv` the frames of the last one. With two losses the stream is not
   reliable (the situation of `hotplug`), so the invariant has to look at the budget.
2. The link with one disconnect, for which the same bases serve: which frames of the old session may
   still be on the line when the numbers start again.
3. `SteadyStream`: the invariant of section 5.3 for one flow among several, with frames of an unplugged
   station about.
