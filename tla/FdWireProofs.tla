----------------------------- MODULE FdWireProofs -----------------------------
(***************************************************************************)
(* A frame on its way, for every station, frame, payload, checksum and MTU *)
(* that FdWire allows.  First the two header bytes; then the checksums as  *)
(* far as framing needs them; then the invariant of the journey, with what *)
(* HdlcLlLemmas says of HdlcLl.                                            *)
(***************************************************************************)
EXTENDS FdWire, TinyFdLemmas, SequenceTheorems

M == INSTANCE HdlcLlLemmas WITH
    Flag <- 126, Escape <- 125, EscapeBit <- 32, PhysMtu <- RxSize, Crc <- CrcOf,
    CrcDefault <- (journey.crc = "HdlcCrcDefault")

-------------------------------------------------------------------------------
(* The two header bytes, for all numbers.  Up to 63 secondaries have       *)
(* address bytes of their own; the byte of the 64th is the primary's.      *)

LEMMA AddressByteValue ==
    ASSUME NEW a \in 0 .. 63
    PROVE  /\ AddressByte(a) = 4 * a + 1
           /\ AddressByte(a) \in 0 .. ByteMod - 1
           /\ WithoutCR(AddressByte(a)) = AddressByte(a)
           /\ AddressByte(a) \div 4 = a
<1>1. AddressByte(a) = 4 * a + 1
    BY DEF AddressByte, ByteMod
<1>2. ((4 * a + 1) \div 2) % 2 = 0
    OBVIOUS
<1>3. (4 * a + 1) \div 4 = a
    OBVIOUS
<1> QED BY <1>1, <1>2, <1>3 DEF WithoutCR, ByteMod

LEMMA PrimaryByte ==
    ASSUME NEW a \in 0 .. 63
    PROVE  IsPrimaryByte(AddressByte(a)) <=> a = PrimaryAddr
BY AddressByteValue DEF IsPrimaryByte, PrimaryAddr

(* The peer a station finds for an address byte (address_field_to_peer,    *)
(* which compares bytes) is the one TinyFd finds for the station number.   *)
THEOREM AddressByteNamesPeer ==
    ASSUME NEW local \in 0 .. PeersCount, NEW a \in 0 .. PeersCount
    PROVE  AddressByteToPeer(local, AddressByte(a))
               = AddressFieldToPeer([local_addr |-> local], a)
<1>1. local \in 0 .. 63 /\ a \in 0 .. 63 /\ PeersCount \in Nat
    BY EightBits, PeersAssumption DEF Station64
<1>2. CASE local = PrimaryAddr
    <2> DEFINE named == {p \in 0 .. PeersCount - 1 : AddressByte(p + 1) = WithoutCR(AddressByte(a))}
               found == {p \in 0 .. PeersCount - 1 : p + 1 = a}
    <2>1. \A p \in 0 .. PeersCount - 1 :
              AddressByte(p + 1) = WithoutCR(AddressByte(a)) <=> p + 1 = a
        <3> TAKE p \in 0 .. PeersCount - 1
        <3>1. p + 1 \in 0 .. 63
            BY <1>1, EightBits DEF Station64
        <3> QED BY <1>1, <3>1, AddressByteValue
    <2>2. named = found
        BY <2>1
    <2>3. AddressByteToPeer(local, AddressByte(a)) = IF named = {} THEN {} ELSE {Lowest(named)}
        BY <1>1, <1>2, PrimaryByte DEF AddressByteToPeer
    <2>4. AddressFieldToPeer([local_addr |-> local], a) = found
        BY <1>2 DEF AddressFieldToPeer, Peers, NumPeers
    <2>5. found # {} => found = {Lowest(found)}
        <3>1. found \in SUBSET Nat /\ \A p, q \in found : p = q
            BY <1>1
        <3> HIDE DEF found
        <3>2. found # {} => Lowest(found) \in found
            BY <3>1, LowestMember
        <3> QED BY <3>1, <3>2
    <2> QED BY <2>2, <2>3, <2>4, <2>5
<1>3. CASE local # PrimaryAddr
    <2>1. AddressByteToPeer(local, AddressByte(a))
              = {p \in {0} : WithoutCR(AddressByte(a)) = AddressByte(local)
                               \/ IsPrimaryByte(AddressByte(a))}
        BY <1>1, <1>3, PrimaryByte DEF AddressByteToPeer
    <2>2. WithoutCR(AddressByte(a)) = AddressByte(local) <=> a = local
        BY <1>1, AddressByteValue
    <2>3. IsPrimaryByte(AddressByte(a)) <=> a = PrimaryAddr
        BY <1>1, PrimaryByte
    <2> QED BY <1>3, <2>1, <2>2, <2>3 DEF AddressFieldToPeer
<1> QED BY <1>2, <1>3

(* The address byte of a frame between the primary and a secondary, in     *)
(* either direction, is taken by the station it is meant for and by no     *)
(* other; the address its application is told leads back to the peer.      *)
THEOREM ByteHasOneTaker ==
    ASSUME NEW from \in 0 .. PeersCount, NEW to \in 0 .. PeersCount,
           (from = PrimaryAddr) # (to = PrimaryAddr)
    PROVE  LET byte == AddressByte(IF from = PrimaryAddr THEN to ELSE from)
           IN  /\ {n \in (0 .. PeersCount) \ {from} : AddressByteToPeer(n, byte) # {}} = {to}
               /\ \A p \in AddressByteToPeer(to, byte) :
                      /\ UserAddress(to, p) = from
                      /\ Addressee(to, UserAddress(to, p)) = {p}
<1> DEFINE a == IF from = PrimaryAddr THEN to ELSE from
<1>1. /\ PeersCount \in Nat /\ PeersCount < 64 /\ a \in 1 .. PeersCount
      /\ from \in 0 .. 63 /\ to \in 0 .. 63
    BY EightBits, PeersAssumption DEF Station64, PrimaryAddr
<1>2. \A n \in 0 .. PeersCount :
          AddressByteToPeer(n, AddressByte(a))
              = IF n = PrimaryAddr THEN {a - 1} ELSE {p \in {0} : a = n}
    <2> TAKE n \in 0 .. PeersCount
    <2>1. AddressByteToPeer(n, AddressByte(a)) = AddressFieldToPeer([local_addr |-> n], a)
        BY <1>1, AddressByteNamesPeer
    <2>2. {p \in 0 .. PeersCount - 1 : p + 1 = a} = {a - 1}
        BY <1>1
    <2>3. a # PrimaryAddr
        BY <1>1 DEF PrimaryAddr
    <2> HIDE DEF a
    <2>4. CASE n = PrimaryAddr
        BY <2>1, <2>2, <2>4 DEF AddressFieldToPeer, Peers, NumPeers
    <2>5. CASE n # PrimaryAddr
        BY <2>1, <2>3, <2>5 DEF AddressFieldToPeer
    <2> QED BY <2>4, <2>5
<1>3. CASE from = PrimaryAddr
    <2>1. to # PrimaryAddr /\ a = to /\ AddressByteToPeer(to, AddressByte(a)) = {0}
        BY <1>2, <1>3
    <2>2. UserAddress(to, 0) = from /\ Addressee(to, from) = {0}
        BY <1>1, <1>3, <2>1, PrimaryByte DEF UserAddress, Addressee
    <2> QED BY <1>2, <1>3, <2>1, <2>2 DEF PrimaryAddr
<1>4. CASE to = PrimaryAddr
    <2>1. from # PrimaryAddr /\ a = from /\ AddressByteToPeer(to, AddressByte(a)) = {a - 1}
        BY <1>2, <1>4
    <2>2. UserAddress(to, a - 1) = AddressByte(a) \div 4
        <3>1. a - 1 + 1 = a
            BY <1>1
        <3> HIDE DEF a
        <3> QED BY <1>1, <1>4, <3>1, PrimaryByte DEF UserAddress
    <2>3. AddressByte(a) \div 4 = a
        BY <1>1, <2>1, AddressByteValue
    <2>4. Addressee(to, from) = {a - 1}
        BY <2>1 DEF Addressee
    <2>5. {n \in (0 .. PeersCount) \ {from} : AddressByteToPeer(n, AddressByte(a)) # {}} = {to}
        BY <1>2, <1>4, <2>1 DEF PrimaryAddr
    <2> QED BY <2>1, <2>2, <2>3, <2>4, <2>5
<1> QED BY <1>3, <1>4

(* The frames TinyFd queues, as it makes them: an S-frame has an N(R) and  *)
(* no N(S), a U-frame neither.                                             *)
Written(data) ==
    {UFrame(t, a) : t \in UType, a \in 0 .. 63}
        \cup {SFrame(t, a, nr) : t \in SType, a \in 0 .. 63, nr \in SeqNum}
        \cup {IFrame(a, ns, nr, data) : a \in 0 .. 63, ns \in SeqNum, nr \in SeqNum}

LEMMA TwoBytes ==
    ASSUME NEW x, NEW y
    PROVE  /\ Len(<<x, y>> \o <<>>) = 2
           /\ (<<x, y>> \o <<>>)[1] = x /\ (<<x, y>> \o <<>>)[2] = y
OBVIOUS

LEMMA TwoBytesMore ==
    ASSUME NEW x \in Nat, NEW y \in Nat, NEW data \in Seq(Nat), data # <<>>
    PROVE  LET bytes == <<x, y>> \o data
           IN  /\ bytes \in Seq(Nat) /\ Len(bytes) > 2
               /\ bytes[1] = x /\ bytes[2] = y
               /\ SubSeq(bytes, 3, Len(bytes)) = data
<1> DEFINE bytes == <<x, y>> \o data
           rest == SubSeq(bytes, 3, Len(bytes))
<1>1. /\ bytes \in Seq(Nat) /\ Len(bytes) = Len(data) + 2 /\ Len(data) \in Nat \ {0}
      /\ bytes[1] = x /\ bytes[2] = y
      /\ \A i \in 1 .. Len(data) : bytes[i + 2] = data[i]
    BY EmptySeq
<1> HIDE DEF bytes
<1>2. /\ rest \in Seq(Nat) /\ Len(rest) = Len(data)
      /\ \A i \in 1 .. Len(rest) : rest[i] = bytes[i + 2]
    <2>1. Len(bytes) \in Nat /\ 3 <= Len(bytes) /\ Len(bytes) - 3 + 1 = Len(data)
        BY <1>1
    <2>2. /\ rest \in Seq(Nat) /\ Len(rest) = Len(bytes) - 3 + 1
          /\ \A i \in 1 .. Len(bytes) - 3 + 1 : rest[i] = bytes[3 + i - 1]
        BY <1>1, <2>1, SMTT(30), SubSeqProperties
    <2>3. \A i \in 1 .. Len(data) : 3 + i - 1 = i + 2
        BY <1>1
    <2> HIDE DEF rest
    <2> QED BY <2>1, <2>2, <2>3
<1> HIDE DEF rest
<1>3. rest = data
    BY <1>1, <1>2, SeqEqual
<1> QED BY <1>1, <1>3 DEF bytes, rest

LEMMA UControl ==
    ASSUME NEW t \in UType, NEW a \in Nat
    PROVE  LET c == ControlByte(UFrame(t, a))
           IN  c \in 0 .. ByteMod - 1 /\ c % 4 = 3 /\ UTypeOf(c) = {t}
<1> DEFINE c == ControlByte(UFrame(t, a))
<1>1. t \notin SType /\ t # "I"
    BY DEF UType, SType
<1>2. c = 3 + UTypeBits[t] + (IF t = "DM" THEN 0 ELSE PFBit)
    BY <1>1 DEF ControlByte, UFrame
<1>3. /\ t = "SABM" => c = 63
      /\ t = "SNRM" => c = 147
      /\ t = "UA"   => c = 115
      /\ t = "DISC" => c = 83
      /\ t = "DM"   => c = 15
    BY <1>2 DEF UTypeBits, PFBit
<1> HIDE DEF c
<1>4. \A u \in UType : UTypeBits[u] = (c - (c % 4)) - PFBit * ((c \div PFBit) % 2) <=> u = t
    BY <1>3 DEF UType, UTypeBits, PFBit
<1>5. c \in 0 .. ByteMod - 1 /\ c % 4 = 3
    BY <1>3 DEF UType, ByteMod
<1> QED BY <1>4, <1>5 DEF UTypeOf, c

LEMMA SControl ==
    ASSUME NEW t \in SType, NEW a \in Nat, NEW nr \in SeqNum
    PROVE  LET c == ControlByte(SFrame(t, a, nr))
           IN  /\ c \in 0 .. ByteMod - 1 /\ c % 4 = 1 /\ c % 2 = 1
               /\ c \div 32 = nr /\ STypeOf(c) = {t}
<1> DEFINE c == ControlByte(SFrame(t, a, nr))
<1>1. t # "I" /\ nr \in 0 .. 7
    BY EightBits DEF SType, SeqNum
<1>2. c = 1 + STypeBits[t] + 32 * nr + (IF t = "REJ" THEN PFBit ELSE 0)
    <2> DEFINE f == SFrame(t, a, nr)
    <2>1. f.type = t /\ f.nr = nr
        BY DEF SFrame, UFrame
    <2>2. t \notin UType
        BY DEF SType, UType
    <2> HIDE DEF f
    <2>3. ControlByte(f) = 1 + STypeBits[t] + 32 * nr + (IF t = "REJ" THEN PFBit ELSE 0)
        BY <1>1, <2>1, <2>2 DEF ControlByte
    <2> QED BY <2>3 DEF f
<1>3. /\ t = "RR"   => c = 32 * nr + 1
      /\ t = "RNR"  => c = 32 * nr + 5
      /\ t = "REJ"  => c = 32 * nr + 25
      /\ t = "SREJ" => c = 32 * nr + 13
    BY <1>1, <1>2 DEF STypeBits, PFBit
<1> HIDE DEF c
<1>4. /\ c \in 0 .. ByteMod - 1 /\ c % 4 = 1 /\ c % 2 = 1 /\ c \div 32 = nr
      /\ 4 * ((c \div 4) % 4) = STypeBits[t]
    BY <1>1, <1>3 DEF SType, STypeBits, ByteMod
<1>5. \A u \in SType : STypeBits[u] = STypeBits[t] <=> u = t
    BY DEF SType, STypeBits
<1> QED BY <1>4, <1>5 DEF STypeOf, c

LEMMA IControl ==
    ASSUME NEW a \in Nat, NEW ns \in SeqNum, NEW nr \in SeqNum, NEW data
    PROVE  LET c == ControlByte(IFrame(a, ns, nr, data))
           IN  /\ c \in 0 .. ByteMod - 1 /\ c % 4 # 3 /\ c % 2 = 0
               /\ c \div 32 = ns /\ (c \div 2) % 8 = nr
<1> DEFINE c == ControlByte(IFrame(a, ns, nr, data))
<1>1. ns \in 0 .. 7 /\ nr \in 0 .. 7
    BY EightBits DEF SeqNum
<1>2. c = 32 * ns + 2 * nr
    <2> DEFINE f == IFrame(a, ns, nr, data)
    <2>1. f.type = "I" /\ f.ns = ns /\ f.nr = nr
        BY DEF IFrame
    <2>2. "I" \notin SType /\ "I" \notin UType
        BY DEF SType, UType
    <2> HIDE DEF f
    <2>3. ControlByte(f) = 32 * ns + 2 * nr
        BY <2>1, <2>2 DEF ControlByte
    <2> QED BY <2>3 DEF f
<1> HIDE DEF c
<1>3. c \in 0 .. ByteMod - 1 /\ c % 2 = 0 /\ c % 4 # 3 /\ c \div 32 = ns
    BY <1>1, <1>2 DEF ByteMod
<1>4. (c \div 2) % 8 = nr
    BY <1>1, <1>2
<1> QED BY <1>3, <1>4 DEF c

(* The bytes TinyFd writes for a frame are those on_frame_received reads   *)
(* as that frame: its type, station, numbers and payload, P/F bit or not.  *)
THEOREM FrameReadsBack ==
    ASSUME NEW data \in (Seq(0 .. ByteMod - 1) \ {<<>>}) \cup {NoData},
           NEW frame \in Written(data)
    PROVE  FromBytes(ToBytes(frame)) = {frame}
<1> DEFINE x == AddressByte(frame.addr)
           c == ControlByte(frame)
<1>1. ToBytes(frame) = <<x, c>> \o (IF frame.data = NoData THEN <<>> ELSE frame.data)
    BY DEF ToBytes
<1>2. \/ \E t \in UType, a \in 0 .. 63 : frame = UFrame(t, a)
      \/ \E t \in SType, a \in 0 .. 63, nr \in SeqNum : frame = SFrame(t, a, nr)
      \/ \E a \in 0 .. 63, ns \in SeqNum, nr \in SeqNum : frame = IFrame(a, ns, nr, data)
    BY DEF Written
<1>3. ASSUME NEW a \in 0 .. 63, frame.addr = a PROVE x \div 4 = a /\ x \in Nat
    <2>1. AddressByte(a) \div 4 = a /\ AddressByte(a) \in 0 .. ByteMod - 1
        BY AddressByteValue
    <2>2. x = AddressByte(a)
        BY <1>3
    <2> HIDE DEF x
    <2>3. x \in 0 .. 255
        BY <2>1, <2>2 DEF ByteMod
    <2> QED BY <2>1, <2>2, <2>3
<1>4. CASE \E t \in UType, a \in 0 .. 63 : frame = UFrame(t, a)
    <2>0. PICK t \in UType, a \in 0 .. 63 : frame = UFrame(t, a)
        BY <1>4
    <2>1. frame.data = NoData /\ frame.addr = a
        BY <2>0 DEF UFrame
    <2>2. c % 4 = 3 /\ UTypeOf(c) = {t}
        <3> DEFINE d == ControlByte(UFrame(t, a))
        <3>1. a \in Nat
            OBVIOUS
        <3>2. d % 4 = 3 /\ UTypeOf(d) = {t}
            BY <3>1, UControl
        <3> HIDE DEF d
        <3>3. c = d
            BY <2>0 DEF d
        <3> QED BY <3>2, <3>3
    <2> HIDE DEF x, c
    <2>3. /\ Len(ToBytes(frame)) = 2 /\ ToBytes(frame)[1] = x /\ ToBytes(frame)[2] = c
        BY <1>1, <2>1, TwoBytes
    <2>4. FromBytes(ToBytes(frame)) = {UFrame(u, x \div 4) : u \in UTypeOf(c)}
        BY <2>2, <2>3 DEF FromBytes
    <2> QED BY <1>3, <2>0, <2>1, <2>2, <2>4
<1>5. CASE \E t \in SType, a \in 0 .. 63, nr \in SeqNum : frame = SFrame(t, a, nr)
    <2>0. PICK t \in SType, a \in 0 .. 63, nr \in SeqNum : frame = SFrame(t, a, nr)
        BY <1>5
    <2>1. frame.data = NoData /\ frame.addr = a
        BY <2>0 DEF SFrame, UFrame
    <2>2. c % 4 = 1 /\ c % 2 = 1 /\ c \div 32 = nr /\ STypeOf(c) = {t}
        <3> DEFINE d == ControlByte(SFrame(t, a, nr))
        <3>1. a \in Nat
            OBVIOUS
        <3>2. d % 4 = 1 /\ d % 2 = 1 /\ d \div 32 = nr /\ STypeOf(d) = {t}
            BY <3>1, SControl
        <3> HIDE DEF d
        <3>3. c = d
            BY <2>0 DEF d
        <3> QED BY <3>2, <3>3
    <2> HIDE DEF x, c
    <2>3. /\ Len(ToBytes(frame)) = 2 /\ ToBytes(frame)[1] = x /\ ToBytes(frame)[2] = c
        BY <1>1, <2>1, TwoBytes
    <2>4. FromBytes(ToBytes(frame)) = {SFrame(u, x \div 4, c \div 32) : u \in STypeOf(c)}
        BY <2>2, <2>3 DEF FromBytes
    <2> QED BY <1>3, <2>0, <2>1, <2>2, <2>4
<1>6. CASE \E a \in 0 .. 63, ns \in SeqNum, nr \in SeqNum : frame = IFrame(a, ns, nr, data)
    <2>0. PICK a \in 0 .. 63, ns \in SeqNum, nr \in SeqNum : frame = IFrame(a, ns, nr, data)
        BY <1>6
    <2>1. frame.data = data /\ frame.addr = a
        BY <2>0 DEF IFrame
    <2>2. c \in Nat /\ c % 4 # 3 /\ c % 2 = 0 /\ c \div 32 = ns /\ (c \div 2) % 8 = nr
        <3> DEFINE d == ControlByte(IFrame(a, ns, nr, data))
        <3>1. a \in Nat
            OBVIOUS
        <3>2. d \in Nat /\ d % 4 # 3 /\ d % 2 = 0 /\ d \div 32 = ns /\ (d \div 2) % 8 = nr
            <4>1. d \in 0 .. ByteMod - 1 /\ d % 4 # 3 /\ d % 2 = 0
                  /\ d \div 32 = ns /\ (d \div 2) % 8 = nr
                BY <3>1, IControl
            <4> HIDE DEF d
            <4> QED BY <4>1 DEF ByteMod
        <3> HIDE DEF d
        <3>3. c = d
            BY <2>0 DEF d
        <3> QED BY <3>2, <3>3
    <2> HIDE DEF x, c
    <2>3. CASE data = NoData
        <3>1. /\ Len(ToBytes(frame)) = 2 /\ ToBytes(frame)[1] = x /\ ToBytes(frame)[2] = c
            BY <1>1, <2>1, <2>3, TwoBytes
        <3>2. FromBytes(ToBytes(frame)) = {IFrame(x \div 4, c \div 32, (c \div 2) % 8, NoData)}
            BY <2>2, <3>1 DEF FromBytes
        <3> QED BY <1>3, <2>0, <2>1, <2>2, <2>3, <3>2
    <2>4. CASE data # NoData
        <3>1. data \in Seq(Nat) /\ data # <<>>
            <4>1. 0 .. ByteMod - 1 \subseteq Nat
                BY DEF ByteMod
            <4>2. data \in Seq(0 .. ByteMod - 1) /\ data # <<>>
                BY <2>4
            <4> HIDE DEF x, c
            <4> QED BY <4>1, <4>2, SeqMonotonic
        <3>2. ToBytes(frame) = <<x, c>> \o data
            BY <1>1, <2>1, <2>4
        <3> DEFINE bytes == ToBytes(frame)
        <3>3. /\ bytes \in Seq(Nat) /\ Len(bytes) > 2 /\ bytes[1] = x /\ bytes[2] = c
              /\ SubSeq(bytes, 3, Len(bytes)) = data
            <4>1. x \in Nat /\ c \in Nat
                BY <1>3, <2>1, <2>2
            <4>2. LET all == <<x, c>> \o data
                  IN  /\ all \in Seq(Nat) /\ Len(all) > 2 /\ all[1] = x /\ all[2] = c
                      /\ SubSeq(all, 3, Len(all)) = data
                BY <3>1, <4>1, TwoBytesMore
            <4> QED BY <3>2, <4>2
        <3> HIDE DEF bytes
        <3>4. Len(bytes) \in Nat /\ ~ Len(bytes) < 2 /\ Len(bytes) # 2
            BY <3>3
        <3>5. FromBytes(bytes) = {IFrame(x \div 4, c \div 32, (c \div 2) % 8, data)}
            BY <2>2, <3>3, <3>4 DEF FromBytes
        <3> QED BY <1>3, <2>0, <2>1, <2>2, <3>5 DEF bytes
    <2> QED BY <2>3, <2>4
<1> QED BY <1>2, <1>4, <1>5, <1>6

-------------------------------------------------------------------------------
(* The checksums, as far as framing needs them: bytes, as many as the      *)
(* field of their kind has.                                                *)

Octet == 0 .. 255

LEMMA OctetIsByte == 0 .. ByteMod - 1 = Octet
BY DEF ByteMod, Octet

LEMMA OctetSum == \A a, b \in Octet : (a + b) % 256 \in Octet
BY DEF Octet

LEMMA OctetComplement == \A a \in Octet : 255 - a \in Octet
BY DEF Octet

LEMMA ByteOfType ==
    ASSUME NEW word
    PROVE  ByteOf(word) \in Octet
<1> DEFINE b0 == IF 0 \in word THEN 1 ELSE 0
           b1 == IF 1 \in word THEN 2 ELSE 0
           b2 == IF 2 \in word THEN 4 ELSE 0
           b3 == IF 3 \in word THEN 8 ELSE 0
           b4 == IF 4 \in word THEN 16 ELSE 0
           b5 == IF 5 \in word THEN 32 ELSE 0
           b6 == IF 6 \in word THEN 64 ELSE 0
           b7 == IF 7 \in word THEN 128 ELSE 0
<1>1. ByteOf(word) = b0 + b1 + b2 + b3 + b4 + b5 + b6 + b7
    BY DEF ByteOf
<1>2. /\ b0 \in 0 .. 1 /\ b1 \in 0 .. 2 /\ b2 \in 0 .. 4 /\ b3 \in 0 .. 8
      /\ b4 \in 0 .. 16 /\ b5 \in 0 .. 32 /\ b6 \in 0 .. 64 /\ b7 \in 0 .. 128
    OBVIOUS
<1> HIDE DEF b0, b1, b2, b3, b4, b5, b6, b7
<1>3. b0 + b1 + b2 + b3 + b4 + b5 + b6 + b7 \in 0 .. 255
    BY <1>2
<1> QED BY <1>1, <1>3 DEF Octet

LEMMA LowBytesType ==
    ASSUME NEW word, NEW count \in Nat
    PROVE  LowBytes(word, count) \in Seq(Octet) /\ Len(LowBytes(word, count)) = count
<1> DEFINE part(i) == {k \in 0 .. 7 : k + 8 * (i - 1) \in word}
<1>1. \A i \in 1 .. count : ByteOf(part(i)) \in Octet
    BY ByteOfType
<1>2. LowBytes(word, count) = [i \in 1 .. count |-> ByteOf(part(i))]
    BY DEF LowBytes
<1> HIDE DEF part
<1> QED BY <1>1, <1>2

(* The running sum of ByteSum exists.                                      *)
LEMMA SumExists ==
    ASSUME NEW s \in Seq(Octet)
    PROVE  \E g : g = [i \in 0 .. Len(s) |->
                          IF i = 0 THEN 0 ELSE (g[i - 1] + s[i]) % 256]
<1> DEFINE N == Len(s)
           Sum(m, g) == /\ g[0] = 0
                        /\ \A i \in 1 .. m : g[i] = (g[i - 1] + s[i]) % 256
           T == {m \in 0 .. N : \E g \in [0 .. m -> Octet] : Sum(m, g)}
<1>1. N \in Nat /\ \A i \in 1 .. N : s[i] \in Octet
    OBVIOUS
<1>2. 0 \in T
    <2> DEFINE start == [i \in 0 .. 0 |-> 0]
    <2>1. start \in [0 .. 0 -> Octet] /\ start[0] = 0 /\ 1 .. 0 = {}
        BY DEF Octet
    <2>2. 0 \in 0 .. N
        BY <1>1
    <2> HIDE DEF start, N
    <2> QED BY <2>1, <2>2
<1>3. \A m \in 0 .. N : m \in T /\ m # N => m + 1 \in T
    <2> SUFFICES ASSUME NEW m \in 0 .. N, m \in T, m # N PROVE m + 1 \in T
        OBVIOUS
    <2>1. PICK g \in [0 .. m -> Octet] : Sum(m, g)
        OBVIOUS
    <2> DEFINE next == (g[m] + s[m + 1]) % 256
               h == [i \in 0 .. m + 1 |-> IF i = m + 1 THEN next ELSE g[i]]
    <2>2. m \in Nat /\ m + 1 \in 1 .. N /\ m + 1 \in 0 .. N
        BY <1>1
    <2>3. next \in Octet
        <3>1. PICK a \in Octet, b \in Octet : g[m] = a /\ s[m + 1] = b
            BY <1>1, <2>2
        <3>2. (a + b) % 256 \in Octet
            BY OctetSum
        <3> QED BY <3>1, <3>2
    <2>4. h[m + 1] = (g[m] + s[m + 1]) % 256 /\ \A i \in 0 .. m : h[i] = g[i]
        BY <2>2
    <2> HIDE DEF next
    <2>5. h \in [0 .. m + 1 -> Octet]
        BY <2>2, <2>3
    <2> HIDE DEF h
    <2>6. h[0] = 0
        BY <2>1, <2>2, <2>4
    <2>7. ASSUME NEW i \in 1 .. m + 1 PROVE h[i] = (h[i - 1] + s[i]) % 256
        <3>1. CASE i = m + 1
            <4>1. i - 1 = m /\ m \in 0 .. m
                BY <2>2, <3>1
            <4>2. h[i - 1] = g[m]
                BY <2>4, <4>1
            <4> QED BY <2>4, <3>1, <4>2
        <3>2. CASE i # m + 1
            <4>1. i \in 1 .. m /\ i \in 0 .. m /\ i - 1 \in 0 .. m
                BY <2>2, <3>2
            <4>2. h[i] = g[i] /\ h[i - 1] = g[i - 1]
                BY <2>4, <4>1
            <4>3. g[i] = (g[i - 1] + s[i]) % 256
                BY <2>1, <4>1
            <4> QED BY <4>2, <4>3
        <3> QED BY <3>1, <3>2
    <2>8. Sum(m + 1, h)
        BY <2>6, <2>7
    <2> HIDE DEF Sum, N
    <2> QED BY <2>2, <2>5, <2>8
<1>4. N \in T
    <2> HIDE DEF T, N
    <2> QED BY <1>1, <1>2, <1>3, SetInduction
<1>5. PICK g \in [0 .. N -> Octet] : Sum(N, g)
    BY <1>4
<1>6. g = [i \in 0 .. N |-> IF i = 0 THEN 0 ELSE (g[i - 1] + s[i]) % 256]
    BY <1>1, <1>5
<1> QED BY <1>6

LEMMA ByteSumType ==
    ASSUME NEW s \in Seq(Octet)
    PROVE  ByteSum(s) \in Octet
<1> DEFINE f == CHOOSE g : g = [i \in 0 .. Len(s) |->
                                  IF i = 0 THEN 0 ELSE (g[i - 1] + s[i]) % 256]
<1>1. f = [i \in 0 .. Len(s) |-> IF i = 0 THEN 0 ELSE (f[i - 1] + s[i]) % 256]
    BY SumExists
<1>2. ByteSum(s) = 255 - f[Len(s)]
    BY DEF ByteSum
<1> HIDE DEF f
<1>4. Len(s) \in Nat /\ \A i \in 1 .. Len(s) : s[i] \in Octet
    OBVIOUS
<1>5. f[Len(s)] \in Octet
    <2>1. CASE Len(s) = 0
        BY <1>1, <1>4, <2>1 DEF Octet
    <2>2. CASE Len(s) # 0
        <3> DEFINE T == {m \in 0 .. Len(s) : f[m] \in Octet}
        <3>1. 0 \in T
            BY <1>1, <1>4 DEF Octet
        <3>2. \A m \in 0 .. Len(s) : m \in T /\ m # Len(s) => m + 1 \in T
            <4> SUFFICES ASSUME NEW m \in 0 .. Len(s), f[m] \in Octet, m # Len(s)
                         PROVE  m + 1 \in 0 .. Len(s) /\ f[m + 1] \in Octet
                OBVIOUS
            <4>1. m + 1 \in 1 .. Len(s) /\ m + 1 - 1 = m /\ m + 1 # 0 /\ m + 1 \in 0 .. Len(s)
                BY <1>4
            <4>2. f[m + 1] = (f[m] + s[m + 1]) % 256
                BY <1>1, <4>1
            <4>3. s[m + 1] \in Octet
                BY <1>4, <4>1
            <4>4. (f[m] + s[m + 1]) % 256 \in Octet
                BY Zenon, <4>3, OctetSum
            <4> QED BY <4>1, <4>2, <4>4
        <3> HIDE DEF T
        <3>3. Len(s) \in T
            BY <1>4, <3>1, <3>2, SetInduction
        <3> QED BY <3>3 DEF T
    <2> QED BY <2>1, <2>2
<1>6. 255 - f[Len(s)] \in Octet
    BY <1>5, OctetComplement
<1> QED BY <1>2, <1>6

LEMMA CrcType ==
    ASSUME NEW type \in HdlcCrcT, NEW data \in Seq(Octet)
    PROVE  /\ CalculateCrc(type, data) \in Seq(Octet)
           /\ Len(CalculateCrc(type, data)) = GetCrcFieldSize(type)
           /\ GetCrcFieldSize(type) \in Nat
<1>1. CASE type = "HdlcCrcOff"
    BY <1>1 DEF CalculateCrc, GetCrcFieldSize
<1>2. CASE type = "HdlcCrc8"
    <2>1. CalculateCrc(type, data) = <<ByteSum(data)>> /\ GetCrcFieldSize(type) = 1
        BY <1>2 DEF CalculateCrc, GetCrcFieldSize
    <2> QED BY <2>1, ByteSumType
<1>3. CASE type = "HdlcCrc16"
    <2>1. /\ CalculateCrc(type, data) = LowBytes(Fcs(FCSTAB_16, 16, data), 2)
          /\ GetCrcFieldSize(type) = 2 /\ 2 \in Nat
        BY <1>3 DEF CalculateCrc, GetCrcFieldSize
    <2> DEFINE word == Fcs(FCSTAB_16, 16, data)
    <2> HIDE DEF word
    <2>2. /\ LowBytes(word, 2) \in Seq(Octet)
          /\ Len(LowBytes(word, 2)) = 2
        BY LowBytesType
    <2> QED BY <2>1, <2>2 DEF word
<1>4. CASE type \in {"HdlcCrc32", "HdlcCrcDefault"}
    <2>1. /\ CalculateCrc(type, data) = LowBytes(Fcs(FCSTAB_32, 32, data), 4)
          /\ GetCrcFieldSize(type) = 4 /\ 4 \in Nat
        BY <1>4 DEF CalculateCrc, GetCrcFieldSize
    <2> DEFINE word == Fcs(FCSTAB_32, 32, data)
    <2> HIDE DEF word
    <2>2. /\ LowBytes(word, 4) \in Seq(Octet)
          /\ Len(LowBytes(word, 4)) = 4
        BY LowBytesType
    <2> QED BY <2>1, <2>2 DEF word
<1> QED BY <1>1, <1>2, <1>3, <1>4 DEF HdlcCrcT

-------------------------------------------------------------------------------
(* A journey satisfies what HdlcLlLemmas assumes.                          *)

LEMMA FrameBytes ==
    ASSUME NEW n \in Stations, NEW frame \in FramesOf(n)
    PROVE  /\ ToBytes(frame) \in Seq(M!Byte) /\ ToBytes(frame) # <<>>
           /\ frame.addr = n /\ ToBytes(frame)[1] = AddressByte(n)
           /\ \E data \in (Seq(0 .. ByteMod - 1) \ {<<>>}) \cup {NoData} : frame \in Written(data)
<1>1. n \in 0 .. 63 /\ n \in Nat
    BY EightBits, PeersAssumption DEF Stations, Station64
<1>2. AddressByte(n) \in M!Byte
    BY <1>1, AddressByteValue DEF M!Byte
<1>3. \/ \E t \in UType : frame = UFrame(t, n)
      \/ \E t \in SType, nr \in SeqNum : frame = SFrame(t, n, nr)
      \/ \E ns \in SeqNum, nr \in SeqNum, data \in Payload \cup {NoData} :
            frame = IFrame(n, ns, nr, data)
    BY DEF FramesOf
<1>4. /\ frame.addr = n /\ ControlByte(frame) \in M!Byte
      /\ frame.data \in Payload \cup {NoData}
      /\ \E data \in Payload \cup {NoData} : frame \in Written(data)
    <2>1. CASE \E t \in UType : frame = UFrame(t, n)
        <3>1. PICK t \in UType : frame = UFrame(t, n)
            BY <2>1
        <3>2. ControlByte(UFrame(t, n)) \in M!Byte
            BY <1>1, UControl DEF M!Byte
        <3>3. frame \in Written(NoData)
            BY <1>1, <3>1 DEF Written
        <3> QED BY <3>1, <3>2, <3>3 DEF UFrame
    <2>2. CASE \E t \in SType, nr \in SeqNum : frame = SFrame(t, n, nr)
        <3>1. PICK t \in SType, nr \in SeqNum : frame = SFrame(t, n, nr)
            BY <2>2
        <3>2. ControlByte(SFrame(t, n, nr)) \in M!Byte
            BY <1>1, SControl DEF M!Byte
        <3>3. frame \in Written(NoData)
            BY <1>1, <3>1 DEF Written
        <3> QED BY <3>1, <3>2, <3>3 DEF SFrame, UFrame
    <2>3. CASE \E ns \in SeqNum, nr \in SeqNum, data \in Payload \cup {NoData} :
                  frame = IFrame(n, ns, nr, data)
        <3>1. PICK ns \in SeqNum, nr \in SeqNum, data \in Payload \cup {NoData} :
                  frame = IFrame(n, ns, nr, data)
            BY <2>3
        <3>2. ControlByte(IFrame(n, ns, nr, data)) \in M!Byte
            BY <1>1, IControl DEF M!Byte
        <3>3. frame \in Written(data)
            BY <1>1, <3>1 DEF Written
        <3> QED BY <3>1, <3>2, <3>3 DEF IFrame
    <2> QED BY <1>3, <2>1, <2>2, <2>3
<1>5. Payload \subseteq Seq(M!Byte) \ {<<>>}
    BY PayloadAssumption DEF M!Byte
<1>6. PICK rest \in Seq(M!Byte) :
          ToBytes(frame) = <<AddressByte(n), ControlByte(frame)>> \o rest
    BY <1>4, <1>5, EmptySeq DEF ToBytes
<1>7. /\ ToBytes(frame) \in Seq(M!Byte) /\ ToBytes(frame) # <<>>
      /\ ToBytes(frame)[1] = AddressByte(n)
    <2> DEFINE x == AddressByte(n)
               c == ControlByte(frame)
    <2>1. x \in M!Byte /\ c \in M!Byte
        BY <1>2, <1>4
    <2> HIDE DEF x, c
    <2>2. <<x, c>> \o rest \in Seq(M!Byte) /\ <<x, c>> \o rest # <<>> /\ (<<x, c>> \o rest)[1] = x
        BY <2>1
    <2> QED BY <1>6, <2>2 DEF x, c
<1> QED BY <1>4, <1>5, <1>7 DEF M!Byte

LEMMA JourneyEnds ==
    ASSUME NEW j \in Journeys
    PROVE  /\ j.crc \in HdlcCrcT /\ j.from \in Stations /\ j.to \in Stations
           /\ (j.from = PrimaryAddr) # (j.to = PrimaryAddr)
           /\ SecondaryOf(j) \in Stations
           /\ j.frame \in FramesOf(SecondaryOf(j))
           /\ Len(ToBytes(j.frame)) <= Mtu
BY JourneyAssumption DEF SecondaryOf

LEMMA ByteCodes == M!ByteAssumption
<1>1. \A b \in 0 .. 255 : (IF (b \div 32) % 2 = 1 THEN b - 32 ELSE b + 32) \in 0 .. 255
    OBVIOUS
<1>2. M!Toggle(126) = 94 /\ M!Toggle(94) = 126 /\ M!Toggle(125) = 93 /\ M!Toggle(93) = 125
    BY DEF M!Toggle
<1>3. M!Byte = 0 .. 255
    BY DEF M!Byte, ByteMod
<1>4. \A b \in M!Byte : M!Toggle(b) \in M!Byte
    BY <1>1, <1>3 DEF M!Toggle
<1>5. M!Special = {126, 125} /\ M!Special \subseteq M!Byte
    BY <1>3 DEF M!Special
<1>6. \A b \in M!Special : M!Toggle(b) \notin M!Special /\ M!Toggle(M!Toggle(b)) = b
    BY <1>2, <1>5
<1>7. ByteMod \in Nat \ {0} /\ 32 \in Nat \ {0} /\ 126 # 125
    BY DEF ByteMod
<1> QED BY <1>4, <1>5, <1>6, <1>7 DEF M!ByteAssumption

LEMMA OnTheWay ==
    ASSUME journey \in Journeys
    PROVE  /\ M!ByteAssumption /\ M!MtuAssumption
           /\ M!Sendable(<<>>) /\ M!Sendable(Sent) /\ M!Frames({Sent})
           /\ Sent \in Seq(M!Byte) /\ Sent # <<>>
           /\ Len(Sent \o CrcOf(Sent)) <= RxSize
<1>1. /\ journey.crc \in HdlcCrcT /\ Len(Sent) <= Mtu /\ Mtu \in Nat /\ Mtu >= 2
      /\ Sent \in Seq(M!Byte) /\ Sent # <<>>
    BY JourneyEnds, JourneyAssumption, FrameBytes DEF Sent
<1>2. \A data \in Seq(M!Byte) :
          CrcOf(data) \in Seq(M!Byte) /\ Len(CrcOf(data)) = GetCrcFieldSize(journey.crc)
    BY <1>1, CrcType, OctetIsByte DEF CrcOf, M!Byte
<1>3. <<>> \in Seq(M!Byte) /\ GetCrcFieldSize(journey.crc) \in Nat
    BY <1>1 DEF GetCrcFieldSize
<1>4. \A data \in Seq(M!Byte) : M!Sendable(data)
    BY <1>2, <1>3 DEF M!Sendable, M!CrcSize
<1>5. M!MtuAssumption
    BY <1>1, <1>3 DEF M!MtuAssumption, RxSize
<1>6. M!Frames({Sent})
    BY <1>1, <1>3, <1>4 DEF M!Frames
<1>7. Len(Sent \o CrcOf(Sent)) <= RxSize
    BY <1>1, <1>2, <1>3 DEF RxSize
<1>8. M!Sendable(<<>>) /\ M!Sendable(Sent)
    BY <1>1, <1>3, <1>4
<1> QED BY Zenon, <1>1, <1>5, <1>6, <1>7, <1>8, ByteCodes

-------------------------------------------------------------------------------
(* Sender and receiver of the journey, as HdlcLlLemmas knows them.         *)

Typed(t, r) ==
    /\ t \in M!GoodTx({Sent})
    /\ r \in M!Rx /\ Len(r.buf) <= RxSize

(* Nothing has been altered: the receiver has what the sender has written, *)
(* and hands over the frame once.                                          *)
Whole(t, r, g) ==
    \/ /\ M!TxBusy(t) /\ t.state = "Start"
       /\ r = M!NewRx /\ g = <<>>
    \/ /\ M!TxBusy(t) /\ t.state = "Data"
       /\ M!InStep(r, M!Body(t), t.pos, t.escape)
       /\ r.frames = <<>> /\ g = <<>>
    \/ /\ ~ M!TxBusy(t)
       /\ \/ r.frames = <<Sent>> /\ g = <<>>
          \/ r.frames = <<>> /\ g = <<Sent>>

JourneyInv ==
    /\ journey \in Journeys
    /\ Typed(tx, rx)
    /\ given \in Seq(Seq(M!Byte)) /\ altered \in Nat
    /\ altered = 0 => Whole(tx, rx, given)

LEMMA SameOperators ==
    /\ Ll!Tx = M!Tx /\ Ll!Rx = M!Rx /\ Ll!NewTx = M!NewTx /\ Ll!NewRx = M!NewRx
    /\ \A t : /\ Ll!TxBusy(t) <=> M!TxBusy(t)
              /\ Ll!TxStep(t) = M!TxStep(t) /\ Ll!TxOut(t) = M!TxOut(t)
    /\ \A t, data : Ll!PutFrame(t, data) = M!PutFrame(t, data)
    /\ \A r : Ll!GetRxFrame(r) = M!GetRxFrame(r)
    /\ \A r, byte : Ll!RxByte(r, byte) = M!RxByte(r, byte)
<1>1. Ll!Tx = M!Tx /\ Ll!Rx = M!Rx /\ Ll!NewTx = M!NewTx /\ Ll!NewRx = M!NewRx
    BY DEF Ll!Tx, M!Tx, Ll!Rx, M!Rx, Ll!NewTx, M!NewTx, Ll!NewRx, M!NewRx, Ll!Byte, M!Byte
<1>2. ASSUME NEW t
      PROVE  /\ Ll!TxBusy(t) <=> M!TxBusy(t)
             /\ Ll!TxStep(t) = M!TxStep(t) /\ Ll!TxOut(t) = M!TxOut(t)
    BY DEF Ll!TxBusy, M!TxBusy, Ll!TxStep, M!TxStep, Ll!TxOut, M!TxOut, Ll!NextByte, M!NextByte,
           Ll!Body, M!Body, Ll!Special, M!Special, Ll!Toggle, M!Toggle
<1>3. ASSUME NEW t, NEW data PROVE Ll!PutFrame(t, data) = M!PutFrame(t, data)
    BY DEF Ll!PutFrame, M!PutFrame
<1>4. ASSUME NEW r PROVE Ll!GetRxFrame(r) = M!GetRxFrame(r)
    BY DEF Ll!GetRxFrame, M!GetRxFrame
<1>5. ASSUME NEW r, NEW byte PROVE Ll!RxByte(r, byte) = M!RxByte(r, byte)
    <2>1. Ll!CrcSize = M!CrcSize
        BY DEF Ll!CrcSize, M!CrcSize
    <2>2. Ll!Stripped(r.buf) = M!Stripped(r.buf) /\ (Ll!CrcMatches(r.buf) <=> M!CrcMatches(r.buf))
        BY <2>1 DEF Ll!Stripped, M!Stripped, Ll!CrcMatches, M!CrcMatches
    <2>3. Ll!EndOfFrame(r) = M!EndOfFrame(r)
        BY <2>2 DEF Ll!EndOfFrame, M!EndOfFrame
    <2>4. Ll!KeepByte(r, byte) = M!KeepByte(r, byte)
        BY DEF Ll!KeepByte, M!KeepByte, Ll!Toggle, M!Toggle
    <2> QED BY <2>3, <2>4 DEF Ll!RxByte, M!RxByte
<1> QED BY <1>1, <1>2, <1>3, <1>4, <1>5

(* The journey does not change on the way.                                 *)
LEMMA SameJourney ==
    ASSUME journey' = journey
    PROVE  /\ Typed(tx', rx') => Typed(tx, rx)'
           /\ Whole(tx', rx', given') => Whole(tx, rx, given)'
<1>1. Sent' = Sent /\ RxSize' = RxSize
    BY DEF Sent, RxSize
<1>2. \A t : M!Body(t)' = M!Body(t)
    BY DEF M!Body, CrcOf
<1>3. tx' \in M!GoodTx({Sent}) => (tx \in M!GoodTx({Sent}))'
    <2>1. SUFFICES ASSUME tx' \in M!GoodTx({Sent}) PROVE (tx \in M!GoodTx({Sent}))'
        OBVIOUS
    <2>2. M!Body(tx)' = M!Body(tx')
        BY DEF M!Body, CrcOf
    <2> QED BY <1>1, <2>1, <2>2
            DEF M!GoodTx, M!Tx, M!TxBusy, M!NextByte, M!Body, M!Special, M!Byte, CrcOf
<1>4. Typed(tx', rx') => Typed(tx, rx)'
    BY <1>1, <1>3 DEF Typed, M!Rx, M!Byte
<1>5. Whole(tx', rx', given') => Whole(tx, rx, given)'
    BY <1>1 DEF Whole, M!TxBusy, M!InStep, M!Body, M!NewRx, CrcOf
<1> QED BY <1>4, <1>5

LEMMA CarryTyped ==
    ASSUME journey \in Journeys, NEW t, NEW r, Typed(t, r), M!TxBusy(t), NEW byte \in M!Byte
    PROVE  Typed(M!TxStep(t), M!RxByte(r, byte))
<1>1. M!TxStep(t) \in M!GoodTx({Sent})
    BY OnTheWay, M!TxStepGood DEF Typed
<1>2. M!RxByte(r, byte) \in M!Rx /\ Len(M!RxByte(r, byte).buf) <= RxSize
    BY OnTheWay, M!RxByteType DEF Typed
<1> QED BY <1>1, <1>2 DEF Typed

(* The lemmas on a receiver in step, for the journey.                      *)
LEMMA OpensFrame ==
    ASSUME journey \in Journeys, NEW r \in M!GoodRx, M!Ready(r), NEW body \in Seq(M!Byte)
    PROVE  M!InStep(M!RxByte(r, 126), body, 0, FALSE) /\ M!RxByte(r, 126).frames = <<>>
<1>1. M!ByteAssumption
    BY OnTheWay
<1>2. M!MtuAssumption
    BY OnTheWay
<1> QED BY ZenonT(60), <1>1, <1>2, M!FlagOpens

LEMMA TakesEscape ==
    ASSUME journey \in Journeys, NEW r \in M!GoodRx, NEW body, NEW n \in Nat,
           NEW e \in BOOLEAN, M!InStep(r, body, n, e)
    PROVE  M!InStep(M!RxByte(r, 125), body, n, TRUE)
<1>1. M!ByteAssumption
    BY OnTheWay
<1>2. M!MtuAssumption
    BY OnTheWay
<1> QED BY ZenonT(60), <1>1, <1>2, M!InStepEscape

LEMMA TakesByte ==
    ASSUME journey \in Journeys, NEW r \in M!GoodRx, NEW body \in Seq(M!Byte), NEW n \in Nat,
           n < Len(body), M!InStep(r, body, n, body[n + 1] \in M!Special)
    PROVE  M!InStep(M!RxByte(r, M!OnLine(body[n + 1])), body, n + 1, FALSE)
<1>1. M!ByteAssumption
    BY OnTheWay
<1>2. M!MtuAssumption
    BY OnTheWay
<1> QED BY ZenonT(60), <1>1, <1>2, M!InStepByte

LEMMA ClosesFrame ==
    ASSUME journey \in Journeys, NEW r \in M!GoodRx,
           M!InStep(r, Sent \o CrcOf(Sent), Len(Sent \o CrcOf(Sent)), FALSE)
    PROVE  M!RxByte(r, 126).frames = <<Sent>>
<1>1. M!ByteAssumption
    BY OnTheWay
<1>2. M!MtuAssumption
    BY OnTheWay
<1>3. /\ Sent \in Seq(M!Byte) /\ M!Sendable(Sent) /\ Sent # <<>>
      /\ Len(Sent \o CrcOf(Sent)) <= RxSize
    BY OnTheWay
<1> QED BY ZenonT(60), <1>1, <1>2, <1>3, M!FlagCloses

(* What run_tx writes next keeps sender and receiver in step.              *)
LEMMA CarryWhole ==
    ASSUME journey \in Journeys, NEW t, NEW r, NEW g,
           Typed(t, r), M!TxBusy(t), Whole(t, r, g)
    PROVE  Whole(M!TxStep(t), M!RxByte(r, M!TxOut(t)), g)
<1> DEFINE body == Sent \o CrcOf(Sent)
           u == M!TxStep(t)
           q == M!RxByte(r, M!TxOut(t))
<1>1. /\ M!ByteAssumption /\ M!MtuAssumption /\ M!Sendable(Sent) /\ Sent # <<>>
      /\ Len(body) <= RxSize /\ M!Frames({Sent})
    BY OnTheWay
<1>2. t \in M!GoodTx({Sent}) /\ t \in M!Tx /\ t.data = Sent /\ M!Body(t) = body /\ r \in M!Rx
    <2>1. t \in M!GoodTx({Sent}) /\ r \in M!Rx
        BY DEF Typed
    <2>2. t \in M!Tx /\ t.data \in {Sent} \cup {<<>>}
        BY <2>1 DEF M!GoodTx
    <2>3. t.data = Sent
        BY <2>2 DEF M!TxBusy
    <2> QED BY <2>1, <2>2, <2>3 DEF M!Body
<1>3. /\ body \in Seq(M!Byte) /\ Len(body) \in Nat /\ t.pos \in Nat /\ t.escape \in BOOLEAN
      /\ t.state \in {"Start", "Data"}
    <2>1. Sent \in Seq(M!Byte) /\ CrcOf(Sent) \in Seq(M!Byte)
        BY <1>1 DEF M!Sendable
    <2> QED BY <1>2, <2>1 DEF M!Tx
<1> HIDE DEF body, u, q
<1>4. CASE t.state = "Start"
    <2>1. M!TxOut(t) = 126 /\ u = [t EXCEPT !.state = "Data", !.pos = 0, !.escape = FALSE]
        BY <1>4 DEF M!TxOut, M!TxStep, u
    <2>2. u.state = "Data" /\ u.pos = 0 /\ u.escape = FALSE /\ u.data = Sent
        BY <1>2, <2>1 DEF M!Tx
    <2>3. M!TxBusy(u) /\ M!Body(u) = body
        BY <1>1, <2>2 DEF M!TxBusy, M!Body, body
    <2>4. r = M!NewRx /\ g = <<>>
        BY <1>4, <1>1 DEF Whole
    <2>5. r \in M!GoodRx /\ M!Ready(r)
        BY <1>1, <2>4, M!ReceiverCalls DEF M!Ready
    <2>6. M!InStep(q, body, 0, FALSE) /\ q.frames = <<>>
        <3>1. M!InStep(M!RxByte(r, 126), body, 0, FALSE) /\ M!RxByte(r, 126).frames = <<>>
            BY <1>3, <2>5, OpensFrame
        <3> QED BY <2>1, <3>1 DEF q
    <2> QED BY <2>2, <2>3, <2>4, <2>6 DEF Whole, u, q
<1>5. CASE t.state = "Data"
    <2>1. /\ M!InStep(r, body, t.pos, t.escape) /\ r.frames = <<>> /\ g = <<>>
          /\ r \in M!GoodRx
        BY <1>1, <1>2, <1>5 DEF Whole, Typed, M!GoodRx
    <2>2. t.pos <= Len(body) /\ (t.escape => t.pos < Len(body) /\ body[t.pos + 1] \in M!Special)
        BY <1>2, <1>5 DEF M!GoodTx, M!NextByte
    <2>3. ASSUME u.state = "Data", u.data = Sent, M!InStep(q, body, u.pos, u.escape),
                 q.frames = <<>>
          PROVE  Whole(u, q, g)
        <3>1. M!TxBusy(u) /\ M!Body(u) = body
            BY <1>1, <2>3 DEF M!TxBusy, M!Body, body
        <3> QED BY <2>1, <2>3, <3>1 DEF Whole
    <2>4. CASE t.pos = Len(body)
        <3>1. /\ M!TxOut(t) = 126 /\ ~ t.escape
              /\ u = [t EXCEPT !.state = "Start", !.escape = FALSE, !.data = <<>>,
                               !.sent = Append(@, t.data)]
            BY <1>2, <1>3, <1>5, <2>2, <2>4 DEF M!TxOut, M!TxStep, u
        <3>2. ~ M!TxBusy(u)
            BY <1>2, <3>1 DEF M!TxBusy, M!Tx
        <3>3. M!InStep(r, body, Len(body), FALSE)
            BY <1>3, <2>1, <2>4, <3>1
        <3>4. q.frames = <<Sent>>
            <4>1. /\ r \in M!GoodRx /\ Len(Sent \o CrcOf(Sent)) <= RxSize
                  /\ M!InStep(r, Sent \o CrcOf(Sent), Len(Sent \o CrcOf(Sent)), FALSE)
                BY <1>1, <2>1, <3>3 DEF body
            <4>2. M!RxByte(r, 126).frames = <<Sent>>
                BY <4>1, ClosesFrame
            <4> QED BY <3>1, <4>2 DEF q
        <3> QED BY <2>1, <3>2, <3>4 DEF Whole, u, q
    <2>5. CASE t.pos # Len(body)
        <3> DEFINE b == body[t.pos + 1]
        <3>1. t.pos < Len(body) /\ b \in M!Byte /\ M!NextByte(t) = b
            BY <1>2, <1>3, <2>2, <2>5 DEF M!NextByte
        <3> HIDE DEF b
        <3>2. 126 \in M!Byte /\ 125 \in M!Byte
            BY DEF M!Byte, ByteMod
        <3>3. \A byte \in M!Byte : byte # 126 => M!RxByte(r, byte).frames = <<>>
            <4>1. ASSUME NEW byte \in M!Byte, byte # 126 PROVE M!RxByte(r, byte) \in M!GoodRx
                BY <1>1, <2>1, <4>1, M!RxByteFrame
            <4> QED BY <4>1 DEF M!GoodRx
        <3>4. CASE b \in M!Special /\ ~ t.escape
            <4>1. M!TxOut(t) = 125 /\ u = [t EXCEPT !.escape = TRUE]
                BY <1>2, <1>5, <2>5, <3>1, <3>4 DEF M!TxOut, M!TxStep, u
            <4>2. u.state = "Data" /\ u.data = Sent /\ u.pos = t.pos /\ u.escape = TRUE
                BY <1>2, <1>5, <4>1 DEF M!Tx
            <4>3. M!InStep(q, body, t.pos, TRUE)
                <5>1. M!InStep(M!RxByte(r, 125), body, t.pos, TRUE)
                    BY <1>3, <2>1, TakesEscape
                <5> QED BY <4>1, <5>1 DEF q
            <4>4. q.frames = <<>>
                BY <3>2, <3>3, <4>1 DEF q
            <4> QED BY <2>3, <4>2, <4>3, <4>4 DEF u, q
        <3>5. CASE ~ (b \in M!Special /\ ~ t.escape)
            <4>1. /\ M!TxOut(t) = M!OnLine(b) /\ (t.escape <=> b \in M!Special)
                  /\ u = [t EXCEPT !.escape = FALSE, !.pos = @ + 1]
                BY <1>2, <1>5, <2>2, <2>5, <3>1, <3>5 DEF M!TxOut, M!TxStep, M!OnLine, u, b
            <4>2. u.state = "Data" /\ u.data = Sent /\ u.pos = t.pos + 1 /\ u.escape = FALSE
                BY <1>2, <1>5, <4>1 DEF M!Tx
            <4>3. M!InStep(r, body, t.pos, b \in M!Special)
                BY <1>3, <2>1, <4>1 DEF M!InStep
            <4>4. M!InStep(q, body, t.pos + 1, FALSE)
                <5>1. M!InStep(r, body, t.pos, body[t.pos + 1] \in M!Special)
                    BY <4>3 DEF b
                <5>2. M!InStep(M!RxByte(r, M!OnLine(body[t.pos + 1])), body, t.pos + 1, FALSE)
                    BY <1>3, <2>1, <3>1, <5>1, TakesByte
                <5> QED BY <4>1, <5>2 DEF b, q
            <4>5. M!OnLine(b) \in M!Byte \ M!Special
                BY <1>1, <3>1, M!OnLineByte
            <4>6. q.frames = <<>>
                BY <3>3, <4>1, <4>5 DEF M!Special, q
            <4> QED BY <2>3, <4>2, <4>4, <4>6 DEF u, q
        <3> QED BY <3>4, <3>5
    <2> QED BY <2>4, <2>5 DEF u, q
<1> QED BY <1>3, <1>4, <1>5

-------------------------------------------------------------------------------

LEMMA InitJourney == Init => JourneyInv
<1> SUFFICES ASSUME Init PROVE JourneyInv
    OBVIOUS
<1>1. /\ journey \in Journeys /\ rx = M!NewRx /\ given = <<>> /\ altered = 0
      /\ tx = M!PutFrame(M!NewTx, Sent)
    BY SameOperators DEF Init
<1>2. M!PutFrame(M!NewTx, Sent) \in M!GoodTx({Sent})
    <2>1. M!NewTx \in M!GoodTx({Sent}) /\ M!PutAccepts(M!NewTx, Sent)
        <3>1. M!NewTx \in M!GoodTx({Sent})
            BY <1>1, OnTheWay, M!TxCallsGood
        <3>2. ~ M!TxBusy(M!NewTx)
            BY DEF M!TxBusy, M!NewTx
        <3> QED BY <3>1, <3>2 DEF M!PutAccepts
    <2>2. Sent \in {Sent}
        OBVIOUS
    <2> QED BY <1>1, <2>1, <2>2, OnTheWay, M!TxCallsGood
<1>3. rx \in M!Rx /\ Len(rx.buf) <= RxSize
    BY <1>1, OnTheWay, M!ReceiverCalls DEF M!GoodRx
<1>4. tx.state = "Start" /\ M!TxBusy(tx)
    BY <1>1, OnTheWay DEF M!PutFrame, M!NewTx, M!TxBusy
<1> QED BY <1>1, <1>2, <1>3, <1>4 DEF JourneyInv, Typed, Whole

(* A byte on the line, as it was written or altered.                       *)
LEMMA CarryStep ==
    ASSUME JourneyInv, NEW byte \in M!Byte, Carry(byte), altered' \in Nat,
           altered' = 0 => altered = 0 /\ byte = Out
    PROVE  JourneyInv'
<1>1. /\ M!TxBusy(tx) /\ tx' = M!TxStep(tx) /\ rx' = M!RxByte(rx, byte)
      /\ journey' = journey /\ given' = given
    BY SameOperators DEF Carry
<1>2. Typed(tx', rx')
    BY <1>1, CarryTyped DEF JourneyInv
<1>3. ASSUME altered' = 0 PROVE Whole(tx', rx', given')
    <2>1. byte = M!TxOut(tx) /\ Whole(tx, rx, given)
        BY <1>3, SameOperators DEF Out, JourneyInv
    <2>2. Whole(M!TxStep(tx), M!RxByte(rx, M!TxOut(tx)), given)
        BY <1>1, <2>1, CarryWhole DEF JourneyInv
    <2> QED BY <1>1, <2>1, <2>2
<1>4. given' \in Seq(Seq(M!Byte))
    BY <1>1 DEF JourneyInv
<1> QED BY <1>1, <1>2, <1>3, <1>4, SameJourney DEF JourneyInv, M!Byte

(* A frame handed over.                                                    *)
LEMMA HandOverStep ==
    ASSUME JourneyInv, OnRxData
    PROVE  JourneyInv'
<1>1. /\ rx.frames # <<>> /\ given' = Append(given, Head(rx.frames))
      /\ rx' = [rx EXCEPT !.frames = Tail(@)]
      /\ journey' = journey /\ tx' = tx /\ altered' = altered
    BY SameOperators DEF OnRxData, M!GetRxFrame
<1>2. /\ rx \in M!Rx /\ rx.frames \in Seq(Seq(M!Byte)) /\ Len(rx.buf) <= RxSize
      /\ given \in Seq(Seq(M!Byte))
    BY DEF JourneyInv, Typed, M!Rx
<1>3. given' \in Seq(Seq(M!Byte)) /\ Tail(rx.frames) \in Seq(Seq(M!Byte))
    BY <1>1, <1>2
<1>4. rx' \in M!Rx /\ rx'.buf = rx.buf /\ rx'.frames = Tail(rx.frames)
    BY <1>1, <1>2, <1>3 DEF M!Rx
<1>5. Typed(tx', rx')
    BY <1>1, <1>2, <1>4 DEF JourneyInv, Typed
<1>6. ASSUME altered' = 0 PROVE Whole(tx', rx', given')
    <2>1. Whole(tx, rx, given)
        BY <1>1, <1>6 DEF JourneyInv
    <2>2. M!NewRx.frames = <<>>
        BY DEF M!NewRx
    <2>3. ~ M!TxBusy(tx) /\ rx.frames = <<Sent>> /\ given = <<>>
        BY <1>1, <2>1, <2>2 DEF Whole
    <2>4. rx'.frames = <<>> /\ given' = <<Sent>>
        BY <1>1, <1>4, <2>3
    <2> QED BY <1>1, <2>3, <2>4 DEF Whole
<1> QED BY <1>1, <1>3, <1>5, <1>6, SameJourney DEF JourneyInv, M!Byte

LEMMA NextJourney == JourneyInv /\ [Next]_vars => JourneyInv'
<1> SUFFICES ASSUME JourneyInv, [Next]_vars PROVE JourneyInv'
    OBVIOUS
<1>1. CASE PassByte
    <2>1. Carry(Out) /\ altered' = altered
        BY <1>1 DEF PassByte
    <2>2. Out \in M!Byte
        BY OnTheWay, SameOperators, M!TxOutType DEF JourneyInv, Typed, Out
    <2> QED BY <2>1, <2>2, CarryStep DEF JourneyInv
<1>2. ASSUME NEW k \in 0 .. 7, AlterByte(k) PROVE JourneyInv'
    <2> DEFINE byte == ByteOf(Xor(BitsOf(Out), {k}))
    <2>1. Carry(byte) /\ altered' = altered + 1
        BY <1>2 DEF AlterByte
    <2>2. byte \in M!Byte
        BY ByteOfType, OctetIsByte DEF M!Byte
    <2>3. altered' \in Nat /\ altered' # 0
        BY <2>1 DEF JourneyInv
    <2> HIDE DEF byte
    <2> QED BY <2>1, <2>2, <2>3, CarryStep
<1>3. CASE OnRxData
    BY <1>3, HandOverStep
<1>4. CASE UNCHANGED vars
    <2>1. journey' = journey /\ tx' = tx /\ rx' = rx /\ given' = given /\ altered' = altered
        BY <1>4 DEF vars
    <2>2. Typed(tx', rx') /\ (altered' = 0 => Whole(tx', rx', given'))
        BY <2>1 DEF JourneyInv
    <2> QED BY <2>1, <2>2, SameJourney DEF JourneyInv, M!Byte
<1> QED BY <1>1, <1>2, <1>3, <1>4 DEF Next

-------------------------------------------------------------------------------

(* The inductive invariant: both HdlcLl keep their shape whatever the line *)
(* does, and as long as it alters nothing the receiver is in step with     *)
(* what the sender has written.                                            *)
THEOREM JourneyInvariant == Spec => []JourneyInv
BY InitJourney, NextJourney, PTL DEF Spec

(* Transmitter and receiver keep their shape, the receiver its buffer      *)
(* (HdlcLl::run_rx): whatever the line makes of the bytes, none is stored  *)
(* beyond the MTU and the checksum.                                        *)
THEOREM WireTypeCorrect == Spec => []WireTypeOK
<1>1. JourneyInv => WireTypeOK
    BY SameOperators DEF JourneyInv, Typed, WireTypeOK, M!GoodTx, M!Byte
<1> QED BY <1>1, JourneyInvariant, PTL

(* Every frame of TinyFd arrives, once, over a line that alters nothing,   *)
(* and on_frame_received reads from its bytes what was written.            *)
THEOREM FaithfulWire == Spec => []Faithful
<1>1. ASSUME JourneyInv PROVE Faithful
    <2> SUFFICES ASSUME Carried, altered = 0
                 PROVE  /\ given = <<Sent>> /\ FromBytes(Sent) = {journey.frame}
                        /\ AddressByteToPeer(journey.to, Sent[1])
                               = AddressFieldToPeer([local_addr |-> journey.to], journey.frame.addr)
        BY DEF Faithful
    <2>1. ~ M!TxBusy(tx) /\ rx.frames = <<>> /\ Whole(tx, rx, given) /\ journey \in Journeys
        BY <1>1, SameOperators DEF Carried, JourneyInv
    <2>2. given = <<Sent>>
        BY <2>1 DEF Whole
    <2> DEFINE n == SecondaryOf(journey)
    <2>3. n \in Stations /\ journey.to \in Stations /\ journey.frame \in FramesOf(n)
        BY <2>1, JourneyEnds
    <2> HIDE DEF n
    <2>4. /\ ToBytes(journey.frame)[1] = AddressByte(n)
          /\ \E data \in (Seq(0 .. ByteMod - 1) \ {<<>>}) \cup {NoData} :
                journey.frame \in Written(data)
        BY <2>3, FrameBytes
    <2>5. FromBytes(Sent) = {journey.frame}
        BY <2>4, FrameReadsBack DEF Sent
    <2>6. journey.frame.addr = n
        BY <2>3, FrameBytes
    <2>7. AddressByteToPeer(journey.to, AddressByte(n))
              = AddressFieldToPeer([local_addr |-> journey.to], n)
        BY <2>3, AddressByteNamesPeer DEF Stations
    <2> QED BY <2>2, <2>4, <2>5, <2>6, <2>7 DEF Sent
<1> QED BY <1>1, JourneyInvariant, PTL

(* A frame that arrives as it was sent is taken by the station it is for   *)
(* and by no other.  That a line which alters bits does not make another   *)
(* frame of it depends on which bits: see NothingForged.                   *)
THEOREM SentHasOneTaker == Spec => [](NothingForged => OneTaker)
<1>1. ASSUME JourneyInv, NothingForged PROVE OneTaker
    <2> SUFFICES ASSUME NEW i \in DOMAIN given
                 PROVE  /\ {m \in Stations \ {journey.from} :
                                AddressByteToPeer(m, given[i][1]) # {}} = {journey.to}
                        /\ \A p \in AddressByteToPeer(journey.to, given[i][1]) :
                               /\ UserAddress(journey.to, p) = journey.from
                               /\ Addressee(journey.to, UserAddress(journey.to, p)) = {p}
        BY DEF OneTaker
    <2>1. journey \in Journeys /\ given[i] = ToBytes(journey.frame)
        BY <1>1 DEF JourneyInv, NothingForged, Sent
    <2>2. /\ journey.from \in Stations /\ journey.to \in Stations
          /\ (journey.from = PrimaryAddr) # (journey.to = PrimaryAddr)
          /\ given[i][1] = AddressByte(SecondaryOf(journey))
        BY <2>1, JourneyEnds, FrameBytes
    <2>3. LET byte == AddressByte(SecondaryOf(journey))
          IN  /\ {m \in Stations \ {journey.from} : AddressByteToPeer(m, byte) # {}} = {journey.to}
              /\ \A p \in AddressByteToPeer(journey.to, byte) :
                     /\ UserAddress(journey.to, p) = journey.from
                     /\ Addressee(journey.to, UserAddress(journey.to, p)) = {p}
        BY <2>2, ByteHasOneTaker DEF SecondaryOf, Stations
    <2> QED BY <2>2, <2>3
<1> QED BY <1>1, JourneyInvariant, PTL

(* On a line that alters nothing no station is given anything but the      *)
(* frame that was sent, and it is the right station that takes it.         *)
THEOREM CleanWire == Spec => [](altered = 0 => NothingForged /\ OneTaker)
<1>1. ASSUME JourneyInv, altered = 0 PROVE NothingForged
    BY <1>1 DEF JourneyInv, Whole, NothingForged
<1> QED BY <1>1, JourneyInvariant, SentHasOneTaker, PTL

===============================================================================
