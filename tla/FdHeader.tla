------------------------------- MODULE FdHeader -------------------------------
(***************************************************************************)
(* The two bytes before the payload: what TinyFd writes into them and what *)
(* on_frame_received (protocol.rs) and PeerManager (peers.rs) make of      *)
(* them.  In TinyFd a frame is a record and an address a station number;   *)
(* FdWire checks that the bytes carry exactly that.                        *)
(***************************************************************************)
EXTENDS TinyFd, Sequences

ByteMod == 256

(* (addr << 2) | HDLC_E_BIT in eight bits: the two highest are lost.       *)
(* Seeded fault: one bit less, and addresses reach into the C/R bit.       *)
AddressByte_ShiftedOnce(addr) == ((2 * addr) % ByteMod) + 1

AddressByte(addr) == ((4 * addr) % ByteMod) + 1

(* address & !HDLC_CR_BIT                                                  *)
WithoutCR(byte) == byte - 2 * ((byte \div 2) % 2)

IsPrimaryByte(byte) == WithoutCR(byte) = AddressByte(PrimaryAddr)

(* address_field_to_peer at the station with address local: the primary    *)
(* looks for the first of its peers with that address.                     *)
AddressByteToPeer(local, byte) ==
    IF IsPrimaryByte(AddressByte(local))
    THEN LET named == {p \in 0 .. PeersCount - 1 : AddressByte(p + 1) = WithoutCR(byte)}
         IN  IF named = {} THEN {} ELSE {Lowest(named)}
    ELSE {p \in {0} : WithoutCR(byte) = AddressByte(local) \/ IsPrimaryByte(byte)}

(* The peer send_packet(address, ..) means, and the address on_read_cb is  *)
(* called with.                                                            *)
Addressee(local, address) ==
    IF address = PrimaryAddr THEN {0} ELSE AddressByteToPeer(local, AddressByte(address))

UserAddress(local, p) ==
    IF IsPrimaryByte(AddressByte(local)) THEN AddressByte(p + 1) \div 4 ELSE PrimaryAddr

-------------------------------------------------------------------------------
(* The control byte.                                                       *)

PFBit == 16    \* HDLC_P_BIT and HDLC_F_BIT

UTypeBits == [SABM |-> 44, SNRM |-> 128, UA |-> 96, DISC |-> 64, DM |-> 12]

STypeBits == [RR |-> 0, RNR |-> 4, REJ |-> 8, SREJ |-> 12]

(* A DM and an RR go without the P/F bit, all others have it.              *)
ControlByte(frame) ==
    CASE frame.type = "I"     -> 32 * frame.ns + 2 * frame.nr
      [] frame.type \in SType ->
            1 + STypeBits[frame.type] + 32 * frame.nr + (IF frame.type = "REJ" THEN PFBit ELSE 0)
      [] frame.type \in UType ->
            3 + UTypeBits[frame.type] + (IF frame.type = "DM" THEN 0 ELSE PFBit)

ToBytes(frame) ==
    <<AddressByte(frame.addr), ControlByte(frame)>>
        \o (IF frame.data = NoData THEN <<>> ELSE frame.data)

(* control & HDLC_U_FRAME_TYPE_MASK: without the P/F bit and the low two.  *)
(* Seeded fault: the P/F bit is taken for a bit of the type.               *)
UTypeOf_WithPF(control) == {t \in UType : UTypeBits[t] = control - (control % 4)}

UTypeOf(control) ==
    {t \in UType : UTypeBits[t] = (control - (control % 4)) - PFBit * ((control \div PFBit) % 2)}

STypeOf(control) == {t \in SType : STypeBits[t] = 4 * ((control \div 4) % 4)}

(* The frames that on_frame_received takes these bytes for: one, or none   *)
(* and nothing happens.                                                    *)
FromBytes(bytes) ==
    IF Len(bytes) < 2 THEN {}
    ELSE LET addr == bytes[1] \div 4
             control == bytes[2]
             high == control \div 32
         IN  IF control % 4 = 3 THEN {UFrame(t, addr) : t \in UTypeOf(control)}
             ELSE IF control % 2 = 0
             THEN {IFrame(addr, high, (control \div 2) % 8,
                          IF Len(bytes) = 2 THEN NoData ELSE SubSeq(bytes, 3, Len(bytes)))}
             ELSE {SFrame(t, addr, high) : t \in STypeOf(control)}

===============================================================================
