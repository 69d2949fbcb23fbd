------------------------------- MODULE MCFdWire -------------------------------
(* Frames and damage for checking FdWire.                                  *)
EXTENDS FdWire

NoBytes == <<>>

(* Flag and escape are among the payload bytes; the second payload is long *)
(* enough to hold the head of a frame.                                     *)
Payloads == {<<126>>, <<125, 94>>}

(* The frames of station n and of its primary: every type, every number.   *)
SomeFrames(n) == {f \in FramesOf(n) : f.type = "I" => f.nr \in {0, 5}}

Journey(crc, up, n, frame, flips) ==
    [crc |-> crc, from |-> IF up THEN n ELSE PrimaryAddr,
     to |-> IF up THEN PrimaryAddr ELSE n, frame |-> frame, flips |-> flips]

(* Every frame with every checksum and an altered bit; the byte sum knows  *)
(* an altered bit only where it makes and breaks no escape.  Two altered   *)
(* bits in frames with a payload.  One frame for every station.            *)
Flips(crc, frame) ==
    IF crc = "HdlcCrcOff" \/ (crc = "HdlcCrc8" /\ frame.data # NoData) THEN 0 ELSE 1

JourneySet ==
    {Journey(crc, FALSE, 3, frame, Flips(crc, frame)) : crc \in HdlcCrcT, frame \in SomeFrames(3)}
      \cup {Journey(crc, TRUE, 3, IFrame(3, 1, 6, d), 2)
               : crc \in {"HdlcCrc16", "HdlcCrc32"}, d \in Payloads}
      \cup {Journey("HdlcCrc16", up, n, UFrame("SABM", n), 0)
               : up \in BOOLEAN, n \in 1 .. PeersCount}
===============================================================================
