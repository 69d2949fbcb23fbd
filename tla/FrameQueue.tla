------------------------------ MODULE FrameQueue ------------------------------
(***************************************************************************)
(* The slot array in which TinyFd keeps frames until they are sent or      *)
(* confirmed: FrameQueue of src/src/proto/fd/frame_queue.rs.  A queue is a *)
(* record [frames, lookup]: frames maps every slot index to a frame or to  *)
(* NoFrame, lookup is the slot where the next allocation starts looking.   *)
(* The module has no state of its own: TinyFd keeps two such queues.       *)
(***************************************************************************)
EXTENDS Naturals

CONSTANT NoFrame    \* the content of a free slot

Slots(n) == 0 .. n - 1

FrameQueueOf(n, Frame) ==
    [frames : [Slots(n) -> Frame \cup {NoFrame}], lookup : Slots(n)]

EmptyQueue(n) == [frames |-> [i \in Slots(n) |-> NoFrame], lookup |-> 0]

FreeSlots(q) == {i \in DOMAIN q.frames : q.frames[i] = NoFrame}

HasFreeSlots(q) == FreeSlots(q) # {}

Occupied(q) == {i \in DOMAIN q.frames : q.frames[i] # NoFrame}

(* The lowest slot of a set: every search of the code goes upwards from 0. *)
Lowest(S) == CHOOSE i \in S : \A j \in S : i <= j

(* The distance of slot i from the lookup index, going round.              *)
Turn(q, n, i) == IF i >= q.lookup THEN i - q.lookup ELSE i + n - q.lookup

(* Seeded fault: the slot under the lookup index is taken as it is.        *)
AllocationSlot_NoSearch(q, n) == q.lookup

(* The slot allocate takes: the first free one from lookup on, going round.*)
AllocationSlot(q, n) ==
    CHOOSE i \in FreeSlots(q) :
        \A j \in FreeSlots(q) : Turn(q, n, i) <= Turn(q, n, j)

(* A full queue refuses the frame and stays as it is.                      *)
Allocate(q, n, frame) ==
    IF HasFreeSlots(q)
    THEN LET i == AllocationSlot(q, n)
         IN  [frames |-> [q.frames EXCEPT ![i] = frame], lookup |-> (i + 1) % n]
    ELSE q

Free(q, i) == [q EXCEPT !.frames[i] = NoFrame]

ResetFor(q, addr) ==
    [q EXCEPT !.frames =
        [i \in DOMAIN q.frames |->
            IF q.frames[i] # NoFrame /\ q.frames[i].addr = addr
            THEN NoFrame
            ELSE q.frames[i]]]

(* The slots that hold the I-frame with number ns for this address.        *)
Matching(q, addr, ns) ==
    {i \in Occupied(q) : /\ q.frames[i].type = "I"
                         /\ q.frames[i].addr = addr
                         /\ q.frames[i].ns = ns}

(* get_next: the slot of the frame to transmit, if Matching is not empty.  *)
GetNext(q, addr, ns) == Lowest(Matching(q, addr, ns))

(* Seeded fault: the address is not compared.                              *)
FreeByNs_AnyAddress(q, addr, seqs) ==
    [q EXCEPT !.frames =
        [i \in DOMAIN q.frames |->
            IF q.frames[i] # NoFrame /\ q.frames[i].ns \in seqs
            THEN NoFrame
            ELSE q.frames[i]]]

(* free_by_ns for every number of the set seqs.  One call frees one slot,  *)
(* the lowest that matches, even if several match.                         *)
FreeByNs(q, addr, seqs) ==
    LET freed == {Lowest(Matching(q, addr, ns)) :
                      ns \in {n \in seqs : Matching(q, addr, n) # {}}}
    IN  [q EXCEPT !.frames =
            [i \in DOMAIN q.frames |-> IF i \in freed THEN NoFrame ELSE q.frames[i]]]

==============================================================================
