---------------------------- MODULE ReliableStream ----------------------------
(***************************************************************************)
(* What send_packet promises, seen by the two applications only: one       *)
(* direction of a link.  Packets are numbered in the order in which        *)
(* send_packet accepted them.  A packet is delivered at most once and in   *)
(* order; until then the sender holds it, unless the link gave it up and   *)
(* told the application (on_connect_event_cb with false).                  *)
(***************************************************************************)
EXTENDS Naturals, Sequences

VARIABLES
    accepted,     \* number of packets accepted so far
    delivered,    \* the packets handed to on_read_cb, in order
    pending,      \* the packets the sender still holds
    dropped       \* the packets given up with a notice

vars == <<accepted, delivered, pending, dropped>>

Packets == 1 .. accepted

Arrived == {delivered[i] : i \in DOMAIN delivered}

Init ==
    /\ accepted = 0
    /\ delivered = <<>>
    /\ pending = {}
    /\ dropped = {}

Accept ==
    /\ accepted' = accepted + 1
    /\ pending' = pending \cup {accepted + 1}
    /\ UNCHANGED <<delivered, dropped>>

(* A packet is only passed over when it has been given up before.          *)
Deliver ==
    /\ \E k \in Packets :
          /\ \A i \in Arrived : i < k
          /\ \A i \in 1 .. k - 1 : i \in Arrived \cup dropped
          /\ delivered' = Append(delivered, k)
    /\ UNCHANGED <<accepted, pending, dropped>>

(* The sender forgets packets it knows to be delivered.                    *)
Confirm ==
    /\ pending' \in SUBSET pending
    /\ pending \ pending' \subseteq Arrived
    /\ UNCHANGED <<accepted, delivered, dropped>>

(* The session ends: the sender's application learns that these packets    *)
(* may be lost.                                                            *)
GiveUp ==
    /\ pending' \in SUBSET pending
    /\ dropped' = dropped \cup (pending \ pending')
    /\ UNCHANGED <<accepted, delivered>>

Next == Accept \/ Deliver \/ Confirm \/ GiveUp

Spec == Init /\ [][Next]_vars

-------------------------------------------------------------------------------

TypeOK ==
    /\ accepted \in Nat
    /\ delivered \in Seq(Packets)
    /\ pending \in SUBSET Packets
    /\ dropped \in SUBSET Packets

(* No packet vanishes: each accepted one is delivered, still held by the   *)
(* sender, or was given up with a notice.                                  *)
NoSilentLoss == Packets \subseteq Arrived \cup pending \cup dropped

(* No packet is delivered twice or after a later one.                      *)
InOrder == \A i, j \in DOMAIN delivered : i < j => delivered[i] < delivered[j]

(* No gap: whatever lies before a delivered packet was delivered or given  *)
(* up with a notice.                                                       *)
NoGap ==
    \A k \in Arrived : \A i \in 1 .. k - 1 : i \in Arrived \cup dropped

===============================================================================
