--------------------------- MODULE PacketDelivery ---------------------------
(***************************************************************************)
(* What one direction of the tunnel promises the IP stack behind it: the   *)
(* packets the far end read from its TUN device are written to the near    *)
(* TUN device at most once each, in any order, and nothing else is written.*)
(***************************************************************************)
EXTENDS Integers

CONSTANT MaxPackets   \* bound: packets numbered in a behaviour

VARIABLES
  sent,      \* packets the sender has numbered so far: 0 .. sent - 1
  written    \* how often each packet was written to the TUN device

dvars == <<sent, written>>

DInit ==
  /\ sent = 0
  /\ written = [n \in 0 .. (MaxPackets - 1) |-> 0]

Accept ==
  /\ sent < MaxPackets
  /\ sent' = sent + 1
  /\ UNCHANGED written

Deliver(n) ==
  /\ n < sent
  /\ written[n] = 0
  /\ written' = [written EXCEPT ![n] = 1]
  /\ UNCHANGED sent

DNext ==
  \/ Accept
  \/ \E n \in 0 .. (MaxPackets - 1) : Deliver(n)

DSpec == DInit /\ [][DNext]_dvars

=============================================================================
