------------------------------ MODULE MCFdStation ------------------------------
(* Model values and inputs for checking FdStation.                         *)
EXTENDS FdStation

Addrs == IF LocalAddr = PrimaryAddr THEN 1 .. PeersCount ELSE {LocalAddr}

(* Every N(R) comes in an RR, every N(S) in an I-frame; the N(R) of an     *)
(* I-frame or a REJ does what that of an RR does.                          *)
LineFrames ==
    UNION {
        {UFrame(type, a) : type \in {"SABM", "UA", "DISC", "DM"}}
          \cup {SFrame("RR", a, nr) : nr \in SeqNum}
          \cup {SFrame("REJ", a, 1)}
          \cup {IFrame(a, ns, 0, d) : ns \in SeqNum, d \in Payload}
        : a \in Addrs}
===============================================================================
