------------------------------- MODULE Checksum -------------------------------
(***************************************************************************)
(* The checksums of src/src/proto/crc.rs, bit for bit.  A byte or a word   *)
(* is the set of the positions of its one bits, position 0 the lowest: XOR *)
(* is symmetric difference, a mask an intersection.                        *)
(***************************************************************************)
EXTENDS Naturals, Sequences, FiniteSetsExt

HdlcCrcT == {"HdlcCrcDefault", "HdlcCrc8", "HdlcCrc16", "HdlcCrc32", "HdlcCrcOff"}

GetCrcFieldSize(type) ==
    CASE type = "HdlcCrcOff" -> 0
      [] type = "HdlcCrc8"   -> 1
      [] type = "HdlcCrc16"  -> 2
      [] OTHER               -> 4

BitsOf(n) == {k \in 0 .. 15 : (n \div 2^k) % 2 = 1}

ByteOf(word) ==
    LET bit(k, value) == IF k \in word THEN value ELSE 0
    IN  bit(0, 1) + bit(1, 2) + bit(2, 4) + bit(3, 8)
            + bit(4, 16) + bit(5, 32) + bit(6, 64) + bit(7, 128)

Xor(a, b) == (a \ b) \cup (b \ a)

ShiftRight8(word) == {k - 8 : k \in {j \in word : j >= 8}}

(* The first bytes of a word, lowest first, as tx_send_crc sends them.     *)
LowBytes(word, count) ==
    [i \in 1 .. count |->
        ByteOf({k \in 0 .. 7 : k + 8 * (i - 1) \in word})]

(***************************************************************************)
(* The tables are linear: every entry is the XOR of the entries at the     *)
(* powers of two that its index is made of, so these eight stand for all.  *)
(***************************************************************************)
FCSTAB_16 ==
    <<BitsOf(\h1189), BitsOf(\h2312), BitsOf(\h4624), BitsOf(\h8C48),
      BitsOf(\h1081), BitsOf(\h2102), BitsOf(\h4204), BitsOf(\h8408)>>

(* A word of 32 bits.                                                      *)
Wide(upper, lower) == {16 + k : k \in BitsOf(upper)} \cup BitsOf(lower)

FCSTAB_32 ==
    <<Wide(\h7707, \h3096), Wide(\hEE0E, \h612C),
      Wide(\h076D, \hC419), Wide(\h0EDB, \h8832),
      Wide(\h1DB7, \h1064), Wide(\h3B6E, \h20C8),
      Wide(\h76DC, \h4190), Wide(\hEDB8, \h8320)>>

Entry(table, index) ==
    {k \in 0 .. 31 : Cardinality({b \in index : k \in table[b + 1]}) % 2 = 1}

(* Seeded fault: the register is not moved on.                             *)
SumByte_NoShift(table, crc, byte) == Xor(crc, Entry(table, Xor(crc \cap (0 .. 7), BitsOf(byte))))

SumByte(table, crc, byte) ==
    Xor(ShiftRight8(crc), Entry(table, Xor(crc \cap (0 .. 7), BitsOf(byte))))

(* All ones before the first byte, all bits turned over after the last.    *)
Fcs(table, width, data) ==
    LET crc[i \in 0 .. Len(data)] ==
            IF i = 0 THEN 0 .. width - 1 ELSE SumByte(table, crc[i - 1], data[i])
    IN  (0 .. width - 1) \ crc[Len(data)]

(* Crc8: 0xff less the sum of the bytes.                                   *)
ByteSum(data) ==
    LET sum[i \in 0 .. Len(data)] ==
            IF i = 0 THEN 0 ELSE (sum[i - 1] + data[i]) % 256
    IN  255 - sum[Len(data)]

(* calculate_crc, as the bytes that follow the data.                       *)
CalculateCrc(type, data) ==
    CASE type = "HdlcCrcOff" -> <<>>
      [] type = "HdlcCrc8"   -> <<ByteSum(data)>>
      [] type = "HdlcCrc16"  -> LowBytes(Fcs(FCSTAB_16, 16, data), 2)
      [] OTHER               -> LowBytes(Fcs(FCSTAB_32, 32, data), 4)

-------------------------------------------------------------------------------
(***************************************************************************)
(* What the two FCS are by their standards (RFC 1662): the data, lowest    *)
(* bit of the first byte first, are the coefficients of a polynomial over  *)
(* two elements; its first bits are turned over, it is shifted by the      *)
(* width and divided by the generator, and the remainder is turned over.   *)
(* A polynomial is the set of the exponents it has.                        *)
(***************************************************************************)
Generator16 == {0, 5, 12, 16}

Generator32 == {0, 1, 2, 4, 5, 7, 8, 10, 11, 12, 16, 22, 23, 26, 32}

(* The remainder of a polynomial below x^(top + 1).                        *)
Remainder(polynomial, top, generator, width) ==
    LET rest[e \in width .. top + 1] ==    \* divided down to x^e
            IF e = top + 1 THEN polynomial
            ELSE LET above == rest[e + 1]
                 IN  IF e \in above THEN Xor(above, {(e - width) + g : g \in generator})
                     ELSE above
    IN  rest[width]

ReferenceFcs(generator, width, data) ==
    LET count == 8 * Len(data)
        message == {width + count - 1 - t :
                       t \in {t \in 0 .. count - 1 :
                                 t % 8 \in BitsOf(data[t \div 8 + 1])}}
        rest == Remainder(Xor(message, count .. count + width - 1),
                          width + count - 1, generator, width)
    IN  {k \in 0 .. width - 1 : width - 1 - k \notin rest}

===============================================================================
