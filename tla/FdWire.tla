-------------------------------- MODULE FdWire --------------------------------
(***************************************************************************)
(* The way of one frame from a TinyFd endpoint to another: header bytes    *)
(* (FdHeader), checksum (Checksum), framing (HdlcLl), a line that alters   *)
(* bits, and back.  FdLink and FdBus take from here that a frame arrives   *)
(* as it was sent or not at all, at the station it is meant for.           *)
(***************************************************************************)
EXTENDS FdHeader, Checksum

CONSTANTS
    Journeys,    \* what may be sent: [crc, from, to, frame, flips]
    Mtu          \* mtu of TinyFdConfig, plus 2 for the header

Station64 == 64    \* its address byte is the primary's

Stations == 0 .. PeersCount

(* The end of a journey that is not the primary: every frame names it.     *)
SecondaryOf(j) == IF j.from = PrimaryAddr THEN j.to ELSE j.from

(* The frames that are exchanged with station n, as TinyFd makes them: an  *)
(* S-frame has an N(R) and no N(S), a U-frame neither.                     *)
FramesOf(n) ==
    {UFrame(t, n) : t \in UType} \cup {SFrame(t, n, nr) : t \in SType, nr \in SeqNum}
        \cup {IFrame(n, ns, nr, d) : ns \in SeqNum, nr \in SeqNum, d \in Payload \cup {NoData}}

ASSUME EightBits == SeqMod = 8 /\ PeersCount < Station64
ASSUME PayloadAssumption == Payload \subseteq Seq(0 .. ByteMod - 1) \ {<<>>}

(* A frame goes between the primary and another station, and send_packet   *)
(* has not refused its payload for its length.                             *)
ASSUME JourneyAssumption ==
    /\ Mtu \in Nat /\ Mtu >= 2
    /\ Journeys \subseteq [crc : HdlcCrcT, from : Stations, to : Stations,
                           frame : Frame, flips : Nat]
    /\ \A j \in Journeys :
           /\ (j.from = PrimaryAddr) # (j.to = PrimaryAddr)
           /\ j.frame \in FramesOf(SecondaryOf(j))
           /\ Len(ToBytes(j.frame)) <= Mtu

VARIABLES
    journey,    \* the frame under way, its ends and the checksum they use
    tx,         \* HdlcLl of the sender, sending half
    rx,         \* HdlcLl of the receiver, receiving half
    given,      \* the bytes on_frame_received has been given
    altered     \* bits altered so far

vars == <<journey, tx, rx, given, altered>>

(* HdlcLl as TinyFd::new sets it up, with the checksum of the journey.     *)
RxSize == Mtu + GetCrcFieldSize(journey.crc)

CrcOf(data) == CalculateCrc(journey.crc, data)

Ll == INSTANCE HdlcLl WITH
    Flag <- 126, Escape <- 125, EscapeBit <- 32, PhysMtu <- RxSize, Crc <- CrcOf

Sent == ToBytes(journey.frame)

Init ==
    /\ journey \in Journeys
    /\ tx = Ll!PutFrame(Ll!NewTx, Sent)
    /\ rx = Ll!NewRx
    /\ given = <<>>
    /\ altered = 0

(* run_tx at one end, run_rx at the other, which gets this byte.           *)
Carry(byte) ==
    /\ Ll!TxBusy(tx)
    /\ tx' = Ll!TxStep(tx)
    /\ rx' = Ll!RxByte(rx, byte)
    /\ UNCHANGED <<journey, given>>

Out == Ll!TxOut(tx)

PassByte == Carry(Out) /\ UNCHANGED altered

AlterByte(k) ==
    /\ altered < journey.flips
    /\ Carry(ByteOf(Xor(BitsOf(Out), {k})))
    /\ altered' = altered + 1

(* on_rx_data hands over what run_rx has completed.                        *)
OnRxData ==
    /\ rx.frames # <<>>
    /\ given' = Append(given, Head(rx.frames))
    /\ rx' = Ll!GetRxFrame(rx)
    /\ UNCHANGED <<journey, tx, altered>>

Next == PassByte \/ (\E k \in 0 .. 7 : AlterByte(k)) \/ OnRxData

Spec == Init /\ [][Next]_vars

-------------------------------------------------------------------------------

WireTypeOK ==
    /\ tx \in Ll!Tx /\ rx \in Ll!Rx
    /\ Len(rx.buf) <= RxSize
    /\ given \in Seq(Seq(0 .. ByteMod - 1))

Carried == ~ Ll!TxBusy(tx) /\ rx.frames = <<>>

(* Whatever bits the line alters, on_frame_received gets the frame that    *)
(* was sent or nothing: no part of it, no other frame.                     *)
NothingForged == \A i \in DOMAIN given : given[i] = Sent

(* A frame that is left alone arrives, and the bytes mean what the record  *)
(* says: its type, its numbers, its payload, and the peer that TinyFd      *)
(* finds for its address.                                                  *)
Faithful ==
    (Carried /\ altered = 0) =>
        /\ given = <<Sent>>
        /\ FromBytes(Sent) = {journey.frame}
        /\ AddressByteToPeer(journey.to, Sent[1])
               = AddressFieldToPeer([local_addr |-> journey.to], journey.frame.addr)

(* Of all stations that hear the frame just the one it is for takes it,    *)
(* and the application there answers to the application that sent it.      *)
OneTaker ==
    Carried => \A byte \in {given[i][1] : i \in DOMAIN given} :
        /\ {n \in Stations \ {journey.from} : AddressByteToPeer(n, byte) # {}} = {journey.to}
        /\ \A p \in AddressByteToPeer(journey.to, byte) :
               /\ UserAddress(journey.to, p) = journey.from
               /\ Addressee(journey.to, UserAddress(journey.to, p)) = {p}

(* The tables give the checksums of RFC 1662.                              *)
StandardCrc ==
    (Carried /\ altered = 0) =>
        /\ journey.crc = "HdlcCrc16" =>
               CalculateCrc(journey.crc, Sent) = LowBytes(ReferenceFcs(Generator16, 16, Sent), 2)
        /\ journey.crc \in {"HdlcCrc32", "HdlcCrcDefault"} =>
               CalculateCrc(journey.crc, Sent) = LowBytes(ReferenceFcs(Generator32, 32, Sent), 4)

===============================================================================
