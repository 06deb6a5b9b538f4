------------------------------ MODULE Downlink ------------------------------
(***************************************************************************)
(* Server to client, packets sent whole (no FEC).  send_to_gateway         *)
(* (ustun.c) numbers a packet read from the server's TUN device and sends  *)
(* one copy over every path (APN) it has an address for.  The client       *)
(* (uctun.c) runs one receiver thread per path; each thread looks a copy   *)
(* up in the shared sequence map under dedup_mutex and, if it is new,      *)
(* writes it to the client's TUN device after the unlock.                  *)
(*                                                                         *)
(* Copies are lost, duplicated and reordered by the network.  The two      *)
(* facts about the network the filter relies on are explicit constants:    *)
(* SKEW, how many packets late a copy may be looked up, and LIFE, how many *)
(* seconds.                                                                *)
(***************************************************************************)
EXTENDS SeqMap

CONSTANTS
  Path,        \* the APNs; path p is read by receiver thread p
  SKEW,        \* packets numbered while a copy is still under way
  LIFE,        \* seconds a copy is under way
  MaxPackets,  \* bound: packets numbered
  MaxTime,     \* bound: seconds
  NoCopy       \* a receiver thread that holds no copy

ASSUME DownlinkAssumption ==
  /\ SKEW \in Nat \ {0}
  /\ LIFE \in Nat
  /\ MaxPackets \in Nat
  /\ MaxTime \in Nat

Pkt == 0 .. (MaxPackets - 1)
Copy == [n : Pkt, seq : SeqNo, path : Path]
ASSUME NoCopyAssumption == NoCopy \notin Copy

VARIABLES
  sequence,     \* static uint16_t sequence of send_to_gateway
  net,          \* copies in the network
  pc,           \* receiver thread: "recv", "check" (time read), "write"
  copy,         \* receiver thread: the copy it is handling
  ts,           \* receiver thread: time(NULL) read before the lock
  seq_map,      \* dedup_state.seq_map of the client
  last_update,  \* dedup_state.last_update of the client
  now,          \* the clock
  sent,         \* history: packets numbered so far
  sentAt,       \* history: when each packet was sent
  accepted,     \* history: packets is_duplicate let through
  dropped,      \* history: packets judged duplicate before any was accepted
  written       \* history: how often each packet reached the TUN device

senderVars == <<sequence, sent, sentAt>>
workerVars == <<pc, copy, ts>>
dedupVars == <<seq_map, last_update, accepted, dropped>>
vars == <<senderVars, net, workerVars, dedupVars, now, written>>

Init ==
  /\ sequence = 0
  /\ sent = 0
  /\ sentAt = [n \in Pkt |-> 0]
  /\ net = {}
  /\ pc = [p \in Path |-> "recv"]
  /\ copy = [p \in Path |-> NoCopy]
  /\ ts = [p \in Path |-> 0]
  /\ seq_map = Cleared
  /\ last_update = 0
  /\ accepted = {}
  /\ dropped = {}
  /\ now = 0
  /\ written = [n \in Pkt |-> 0]

\* Copies that will still be looked up, unless they are lost.
UnderWay == net \cup {copy[p] : p \in {q \in Path : pc[q] = "check"}}

-----------------------------------------------------------------------------
(* The sender: the server's main thread *)

\* One packet is numbered and copied to the paths that have an address and a
\* socket; on the others sendto is skipped or fails.  No path at all is the
\* packet lost on every path, and also the packet sent as FEC shards, which
\* takes a number and never reaches the client's seq_map.
SendToGateway ==
  /\ sent < MaxPackets
  /\ \A c \in UnderWay : sent + 1 - c.n <= SKEW
  /\ \E up \in SUBSET Path :
       net' = net \cup {[n |-> sent, seq |-> sequence, path |-> p] : p \in up}
  /\ sequence' = (sequence + 1) % SEQ_MOD
  /\ sent' = sent + 1
  /\ sentAt' = [sentAt EXCEPT ![sent] = now]
  /\ UNCHANGED <<workerVars, dedupVars, now, written>>

-----------------------------------------------------------------------------
(* The network and the clock *)

Lose(c) ==
  /\ net' = net \ {c}
  /\ UNCHANGED <<senderVars, workerVars, dedupVars, now, written>>

Tick ==
  /\ now < MaxTime
  /\ \A c \in UnderWay : now + 1 - sentAt[c.n] <= LIFE
  /\ now' = now + 1
  /\ UNCHANGED <<senderVars, net, workerVars, dedupVars, written>>

-----------------------------------------------------------------------------
(* A receiver thread of the client *)

\* recvmmsg returns a copy, which the network may yet deliver again, and
\* is_duplicate reads the clock before it takes the lock.
Receive(p, c) ==
  /\ pc[p] = "recv"
  /\ c.path = p
  /\ net' \in {net, net \ {c}}
  /\ pc' = [pc EXCEPT ![p] = "check"]
  /\ copy' = [copy EXCEPT ![p] = c]
  /\ ts' = [ts EXCEPT ![p] = now]
  /\ UNCHANGED <<senderVars, dedupVars, now, written>>

\* The thread goes back to recvmmsg; its locals are dead.
Done(p) ==
  /\ pc' = [pc EXCEPT ![p] = "recv"]
  /\ copy' = [copy EXCEPT ![p] = NoCopy]
  /\ ts' = [ts EXCEPT ![p] = 0]

\* The locked section of is_duplicate.
IsDuplicate(p) ==
  LET n    == copy[p].n
      seq  == copy[p].seq
      idle == Idle(ts[p], last_update)
      map  == IF idle THEN Cleared ELSE seq_map
  IN
  /\ pc[p] = "check"
  /\ \/ /\ Holds(map, seq)
        /\ seq_map' = map
        /\ last_update' = IF idle THEN ts[p] ELSE last_update
        /\ dropped' = IF n \in accepted THEN dropped ELSE dropped \cup {n}
        /\ Done(p)
        /\ UNCHANGED accepted
     \/ /\ ~Holds(map, seq)
        /\ seq_map' = Store(map, seq)
        /\ last_update' = ts[p]
        /\ accepted' = accepted \cup {n}
        /\ pc' = [pc EXCEPT ![p] = "write"]
        /\ UNCHANGED <<copy, ts, dropped>>
  /\ UNCHANGED <<senderVars, net, now, written>>

\* write(tun_fd, ...), outside the lock.
WriteTun(p) ==
  /\ pc[p] = "write"
  /\ written' = [written EXCEPT ![copy[p].n] = @ + 1]
  /\ Done(p)
  /\ UNCHANGED <<senderVars, net, dedupVars, now>>

Next ==
  \/ SendToGateway
  \/ Tick
  \/ \E c \in net : Lose(c)
  \/ \E p \in Path, c \in net : Receive(p, c)
  \/ \E p \in Path : IsDuplicate(p)
  \/ \E p \in Path : WriteTun(p)

Spec == Init /\ [][Next]_vars

-----------------------------------------------------------------------------
(* Properties *)

\* Every variable holds a value the C type of its original could hold, and a
\* thread holds a copy exactly while it is handling one.
TypeOK ==
  /\ sequence \in SeqNo
  /\ sent \in 0 .. MaxPackets
  /\ sentAt \in [Pkt -> Nat]
  /\ net \subseteq Copy
  /\ pc \in [Path -> {"recv", "check", "write"}]
  /\ copy \in [Path -> Copy \cup {NoCopy}]
  /\ \A p \in Path : pc[p] # "recv" => copy[p] \in Copy
  /\ ts \in [Path -> Nat]
  /\ seq_map \in [Slot -> SeqNo]
  /\ last_update \in Nat
  /\ accepted \subseteq Pkt
  /\ dropped \subseteq Pkt
  /\ now \in Nat
  /\ written \in [Pkt -> Nat]

\* The redundant copies of a packet never reach the client's IP stack twice
\* (is_duplicate, uctun.c), whatever the two receiver threads interleave,
\* as long as copies are at most SEQ_MAP_SIZE packets and half a CONN_TIMEOUT
\* late.
AtMostOnce == \A n \in Pkt : written[n] <= 1

\* A packet is thrown away unseen (judged duplicate though no copy of it was
\* accepted) only for one of two reasons: its number is the one a cleared
\* entry reads, or the packet that had the number SEQ_MOD packets (or a
\* multiple) earlier was accepted and is still in the slot.
DropsExplained ==
  \A n \in dropped :
    \/ SeqOf(n) = EMPTY
    \/ \E m \in accepted : m + SEQ_MOD <= n /\ SeqOf(m) = SeqOf(n)

\* The downlink implements at-most-once packet delivery.
Delivery ==
  INSTANCE PacketDelivery
    WITH MaxPackets <- MaxPackets, sent <- sent, written <- written
Implements == Delivery!DSpec

=============================================================================
