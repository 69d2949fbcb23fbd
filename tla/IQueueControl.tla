---------------------------- MODULE IQueueControl ----------------------------
(***************************************************************************)
(* The sequence numbers of one peer: IQueueControl of                      *)
(* src/src/proto/fd/i_queue_control.rs.  The module has no state of its    *)
(* own: TinyFd keeps one record per peer and applies these operators.      *)
(*                                                                         *)
(* All arithmetic is the code's "& SEQ_BITS_MASK", that is modulo SeqMod.  *)
(***************************************************************************)
EXTENDS Naturals

CONSTANT SeqMod    \* SEQ_BITS_MASK + 1: 8 in the code

ASSUME SeqModAssumption == SeqMod \in Nat /\ SeqMod >= 2

SeqNum == 0 .. SeqMod - 1

(* last_ns    number the next queued frame will get                        *)
(* confirm_ns oldest number the peer has not confirmed                     *)
(* next_ns    number of the next frame to transmit                         *)
(* next_nr    number expected from the peer                                *)
Control == [last_ns : SeqNum, confirm_ns : SeqNum, next_ns : SeqNum, next_nr : SeqNum]

ResetControl == [last_ns |-> 0, confirm_ns |-> 0, next_ns |-> 0, next_nr |-> 0]

Succ(n) == (n + 1) % SeqMod

(* How many steps of Succ lead from a to b.                                *)
Distance(a, b) == IF a <= b THEN b - a ELSE b + SeqMod - a

(* confirm_sent_frames walks confirm_ns up to nr without any check that nr *)
(* lies between confirm_ns and next_ns: an old nr walks the whole circle.  *)
(* Confirmed(c, nr) is the set of numbers handed to its callback.          *)
Confirmed(c, nr) ==
    {n \in SeqNum : Distance(c.confirm_ns, n) < Distance(c.confirm_ns, nr)}

ConfirmSentFrames(c, nr) == [c EXCEPT !.confirm_ns = nr]

RetransmitFrame(c, nr) == [c EXCEPT !.next_ns = nr]

(* Seeded fault: an accepted frame is expected once more.                  *)
MoveToNextFrameToReceive_Stuck(c) == c

MoveToNextFrameToReceive(c) == [c EXCEPT !.next_nr = Succ(@)]

(* Seeded fault: the mask is forgotten.                                    *)
MoveToNextNs_NoWrap(c) == [c EXCEPT !.last_ns = @ + 1]

MoveToNextNs(c) == [c EXCEPT !.last_ns = Succ(@)]

AdvanceNextNs(c) == [c EXCEPT !.next_ns = Succ(@)]

HasUnconfirmedFrames(c) == c.confirm_ns # c.last_ns

AllFramesAreSent(c) == c.next_ns = c.last_ns

TxFull(c) == Succ(c.last_ns) = c.confirm_ns

==============================================================================
