-------------------------------- MODULE MCFdBus --------------------------------
(* Flows and frames for checking FdBus.                                    *)
EXTENDS FdBus

ToFirst == <<PrimaryAddr, 1>>

(* One packet for the first secondary, which may never fetch it, and two   *)
(* past it for the last.                                                   *)
TwoPastOne ==
    [f \in Flow |-> IF f = ToSteady THEN 2 ELSE IF f = ToFirst THEN 1 ELSE 0]

TwoToFirst == [f \in Flow |-> IF f = ToFirst THEN 2 ELSE 0]

Packets == UNION {{Packet(f, k) : k \in 1 .. MaxSend[f]} : f \in Flow}

(* Frames that make the primary free, purge or answer: every N(R) comes in *)
(* an RR.                                                                  *)
BusFrames ==
    UNION {
        {UFrame(type, a) : type \in {"SABM", "DISC"}}
          \cup {SFrame("RR", a, nr) : nr \in SeqNum}
          \cup {IFrame(a, 0, 0, NoData)}
        : a \in Secondary}
===============================================================================
