------------------------------- MODULE FecLink -------------------------------
(***************************************************************************)
(* Large packets, sent as K data and N parity shards of a Reed-Solomon     *)
(* code (the -f option).  The sender numbers the packet, encodes it and    *)
(* sends the batch over one path, chosen round robin by the number; small  *)
(* packets take a number too and go through is_duplicate instead.  The     *)
(* receiver collects shards in fec_dedup_state, one entry per slot of the  *)
(* sequence space, under dedup_mutex (fec_recv_done); the thread that      *)
(* completes a packet is handed the entry itself and copies it to the TUN  *)
(* device after the unlock.                                                *)
(*                                                                         *)
(* A shard's payload is the pair <<n, i>> of its packet and index: what    *)
(* matters is whose bytes lie where.                                       *)
(***************************************************************************)
EXTENDS SeqSpace, FiniteSets

CONSTANTS
  K, N,           \* FEC_RS_K data and FEC_RS_N parity shards    (2 and 1)
  FEC_EMPTY,      \* the number init_dedup_state gives an entry   (0xAA55)
  Senders,        \* who may be sending: "server" (ustun.c), "client" (uctun.c)
  Workers,        \* UDP_WORKER: paths, and receiver threads          (2)
  SKEW,           \* packets numbered while a shard is still under way
  MaxPackets,     \* bound: packets numbered
  MaxBatches,     \* bound: packets sent as shards
  MaxRepeats,     \* bound: packets of which the network delivers shards twice
  MaxCleans,      \* bound: start flags the server handles
  Blank,          \* bytes nobody has written
  Junk            \* bytes that belong to no packet

ASSUME FecAssumption ==
  /\ K \in Nat \ {0} /\ N \in Nat \ {0}
  /\ FEC_EMPTY \in SeqNo
  /\ Senders \subseteq {"server", "client"}
  /\ Workers \in Nat \ {0} /\ SKEW \in Nat \ {0}
  /\ MaxPackets \in Nat /\ MaxBatches \in Nat /\ MaxRepeats \in Nat
  /\ MaxCleans \in Nat

Pkt == 0 .. (MaxPackets - 1)
Data == 0 .. (K - 1)
Parity == K .. (K + N - 1)
Idx == Data \cup Parity
Path == 0 .. (Workers - 1)
Shard == [n : Pkt, idx : Idx, seq : SeqNo, path : Path, again : BOOLEAN]
Bytes == (Pkt \X Idx) \cup {Blank, Junk}
Entry == [seq : SeqNo, plen : Pkt \cup {Blank}, cnt : 0 .. K,
          marks : [Idx -> BOOLEAN], buf : [Idx -> Bytes]]

ASSUME BlankAssumption == Blank \notin Pkt

VARIABLES
  sender,     \* which of the two programs sends
  sequence,   \* static uint16_t sequence of the sender
  net,        \* shards in the network
  pc,         \* receiver thread: "recv", "done", "write", "clean"
  shard,      \* receiver thread: the shard it is handling
  plen,       \* receiver thread: whose length it read from the entry
  fec,        \* fec_dedup_state
  at,         \* receiver thread: the entry its init_dedup_state is at
  sent,       \* history: packets numbered so far
  batches,    \* history: packets sent as shards
  doomed,     \* history: packets that lost more than N of the shards sent
  short,      \* history: packets of which fewer than K shards get through
  repeated,   \* history: packets of which the network delivers shards twice
  cleans,     \* history: start flags handled
  renamed,    \* history: packets whose number a clean took from their entry
  written,    \* history: how often each packet was written whole
  corrupt     \* history: packets of which something else was written

senderVars == <<sender, sequence, sent, batches>>
workerVars == <<pc, shard, plen>>
cleanVars == <<at, cleans, renamed>>
fateVars == <<doomed, short, repeated>>
vars == <<senderVars, net, workerVars, fec, cleanVars, fateVars, written, corrupt>>

\* The table is static: all zero but for the number, so an entry that was
\* never taken claims to have every shard of packet FEC_EMPTY.
Init ==
  /\ sender \in Senders
  /\ sequence = 0
  /\ sent = 0
  /\ batches = {}
  /\ net = {}
  /\ pc = [p \in Path |-> "recv"]
  /\ shard = [p \in Path |-> Blank]
  /\ plen = [p \in Path |-> Blank]
  /\ fec = [s \in Slot |-> [seq |-> FEC_EMPTY, plen |-> Blank, cnt |-> 0,
                            marks |-> [i \in Idx |-> FALSE],
                            buf |-> [i \in Idx |-> Blank]]]
  /\ doomed = {} /\ short = {}
  /\ repeated = {}
  /\ at = [p \in Path |-> 0]
  /\ cleans = 0
  /\ renamed = {}
  /\ written = [n \in Pkt |-> 0]
  /\ corrupt = {}

\* Packets whose shards, or whose entry, some thread will still look at.
Busy == {c.n : c \in net} \cup {shard[p].n : p \in {q \in Path : pc[q] \in {"done", "write"}}}

-----------------------------------------------------------------------------
(* The sender *)

\* send_to_gateway fills packet[0], packet[1], packet[2] of the batch and
\* sends them.  send_packet indexes twice (msg = &packet[i], then msg[i]):
\* shard i lands in packet[2 * i], packet[1] keeps the zeros the receiver
\* rejects by their magic, and the shards past the middle are written outside
\* the array and never sent (onto the tail of the next path's packet[0], rewritten
\* before it is sent, and its packet[1], which the model takes to fail the magic
\* check all the same).
SentShards == IF sender = "server" THEN Idx ELSE {i \in Idx : 2 * i \in Idx}

Number ==
  /\ sent < MaxPackets
  /\ \A n \in Busy : sent + 1 - n <= SKEW
  /\ UNCHANGED <<sender, cleanVars>>
  /\ sequence' = (sequence + 1) % SEQ_MOD
  /\ sent' = sent + 1

\* A packet longer than PKG_FEC_ENCODE_MIN_LEN: the counter is stepped first
\* and chooses the path.  The network loses any of the shards and may repeat any;
\* what is left arrives in any order.
SendBatch ==
  /\ Number
  /\ Cardinality(batches) < MaxBatches
  /\ \E S \in SUBSET SentShards : \E R \in SUBSET S :
       LET Arriving(T, again) ==
             {[n |-> sent, idx |-> i, seq |-> sequence,
               path |-> sequence' % Workers, again |-> again] : i \in T}
       IN
       /\ net' = net \cup Arriving(S, FALSE) \cup Arriving(R, TRUE)
       /\ repeated' = IF R = {} THEN repeated ELSE repeated \cup {sent}
       /\ doomed' = IF Cardinality(SentShards \ S) > N
                    THEN doomed \cup {sent} ELSE doomed
       /\ short' = IF Cardinality(S) < K THEN short \cup {sent} ELSE short
  /\ Cardinality(repeated') <= MaxRepeats
  /\ batches' = batches \cup {sent}
  /\ UNCHANGED <<workerVars, fec, written, corrupt>>

\* A packet sent whole.
SendWhole ==
  /\ Number
  /\ UNCHANGED <<batches, net, workerVars, fec, fateVars, written, corrupt>>

-----------------------------------------------------------------------------
(* reed_solomon_decode, as far as it decides whose bytes lie where *)

\* The parity shards decode takes for the missing data shards, lowest first.
Lowest(S, n) == {j \in S : Cardinality({i \in S : i < j}) < n}

\* On success every missing data shard is computed from the K shards used; the
\* result is that packet's data if they are all shards of it.  With too few
\* parity shards decode fails after copying those it found over the missing
\* data shards.
Decode(marks, buf) ==
  LET missing == {i \in Data : marks[i]}
      parity  == Lowest({j \in Parity : ~marks[j]}, Cardinality(missing))
      used    == (Data \ missing) \cup parity
      Rank(S, j) == Cardinality({i \in S : i < j})
      Solved(i) == IF \E n \in Pkt : \A j \in used : buf[j] = <<n, j>>
                   THEN <<(CHOOSE n \in Pkt : \A j \in used : buf[j] = <<n, j>>), i>>
                   ELSE Junk
      ok      == Cardinality(parity) = Cardinality(missing)
      Copied(i) == {j \in parity : Rank(parity, j) = Rank(missing, i)}
  IN [ok  |-> ok,
      buf |-> [i \in Idx |->
                 IF i \notin missing THEN buf[i]
                 ELSE IF ok THEN Solved(i)
                 ELSE IF Copied(i) # {} THEN buf[CHOOSE j \in Copied(i) : TRUE]
                 ELSE buf[i]]]

-----------------------------------------------------------------------------
(* A receiver thread *)

\* The thread goes back to recvmmsg; its locals are dead.
Done(p) ==
  /\ pc' = [pc EXCEPT ![p] = "recv"]
  /\ shard' = [shard EXCEPT ![p] = Blank]
  /\ plen' = [plen EXCEPT ![p] = Blank]

\* Mutant: the taken entry keeps its count.
TakenKeepsCount(e, c) ==
  IF e.seq # c.seq
  THEN [e EXCEPT !.seq = c.seq, !.plen = c.n, !.marks = [i \in Idx |-> TRUE]]
  ELSE e

\* Mutant: the taken entry keeps its marks.
TakenKeepsMarks(e, c) ==
  IF e.seq # c.seq THEN [e EXCEPT !.seq = c.seq, !.plen = c.n, !.cnt = 0] ELSE e

\* The entry as fec_recv_done finds it: taken over from another number, or as
\* it is.
Taken(e, c) ==
  IF e.seq # c.seq
  THEN [e EXCEPT !.seq = c.seq, !.plen = c.n, !.cnt = 0,
                 !.marks = [i \in Idx |-> TRUE]]
  ELSE e

\* The entry with the shard stored, marked and counted; a shard that arrives
\* twice is counted twice.
Stored(e, c) ==
  [e EXCEPT !.buf[c.idx] = <<c.n, c.idx>>, !.marks[c.idx] = FALSE, !.cnt = @ + 1]

\* Mutant: an entry goes on taking shards after its packet is complete.
NeverClosed(e) == FALSE

\* An entry with K shards takes no more (if(fec->cnt < FEC_RS_K)).
Closed(e) == e.cnt >= K

\* A shard is read from the thread's socket and goes through the locked section
\* of fec_recv_done.  What the thread does between the two touches only its own
\* copy of the shard, so one step stands for both.
FecRecvDone(p, c) ==
  LET s == SlotOf(c.seq)
      e == Taken(fec[s], c)
      f == Stored(e, c)
      d == Decode(f.marks, f.buf)
  IN
  /\ pc[p] = "recv"
  /\ c.path = p
  /\ net' = net \ {c}
  /\ \/ /\ Closed(e)
        /\ fec' = [fec EXCEPT ![s] = e]
        /\ Done(p)
     \/ /\ ~Closed(e) /\ f.cnt < K
        /\ fec' = [fec EXCEPT ![s] = f]
        /\ Done(p)
     \/ /\ ~Closed(e) /\ f.cnt >= K
        /\ fec' = [fec EXCEPT ![s] = [f EXCEPT !.buf = d.buf]]
        /\ IF d.ok
           THEN /\ pc' = [pc EXCEPT ![p] = "done"]
                /\ shard' = [shard EXCEPT ![p] = c]
                /\ UNCHANGED plen
           ELSE Done(p)
  /\ UNCHANGED <<senderVars, cleanVars, fateVars, written, corrupt>>

\* plen = fec->plen, after the unlock.
ReadLen(p) ==
  /\ pc[p] = "done"
  /\ plen' = [plen EXCEPT ![p] = fec[SlotOf(shard[p].seq)].plen]
  /\ pc' = [pc EXCEPT ![p] = "write"]
  /\ UNCHANGED <<senderVars, net, shard, fec, cleanVars, fateVars, written, corrupt>>

\* write(tun_fd, fec->buf, plen), still from the shared entry.
WriteTun(p) ==
  LET n   == shard[p].n
      buf == fec[SlotOf(shard[p].seq)].buf
  IN
  /\ pc[p] = "write"
  /\ \/ /\ plen[p] = n /\ \A i \in Data : buf[i] = <<n, i>>
        /\ written' = [written EXCEPT ![n] = @ + 1]
        /\ UNCHANGED corrupt
     \/ /\ ~(plen[p] = n /\ \A i \in Data : buf[i] = <<n, i>>)
        /\ corrupt' = corrupt \cup {n}
        /\ UNCHANGED written
  /\ Done(p)
  /\ UNCHANGED <<senderVars, net, fec, cleanVars, fateVars>>

-----------------------------------------------------------------------------
(* A start flag (server): init_dedup_state gives every entry of the FEC    *)
(* table the empty number, without the lock, and leaves its count, marks   *)
(* and bytes.  The flag may be another gateway's, which shares the table:  *)
(* it comes at any time.  The sequence map it clears is the Uplink's.      *)

StartClean(p) ==
  /\ sender = "client"
  /\ pc[p] = "recv" /\ cleans < MaxCleans
  /\ pc' = [pc EXCEPT ![p] = "clean"]
  /\ at' = [at EXCEPT ![p] = 0]
  /\ cleans' = cleans + 1
  /\ UNCHANGED <<senderVars, net, shard, plen, fec, renamed, fateVars, written, corrupt>>

\* fec_dedup_state[i].seq = 0xAA55, one entry after the other.
CleanEntry(p) ==
  LET s == at[p] IN
  /\ pc[p] = "clean"
  /\ fec' = [fec EXCEPT ![s].seq = FEC_EMPTY]
  /\ renamed' = renamed \cup {n \in batches : SeqOf(n) = fec[s].seq}
  /\ IF s + 1 < SEQ_MAP_SIZE
     THEN at' = [at EXCEPT ![p] = s + 1] /\ UNCHANGED pc
     ELSE at' = [at EXCEPT ![p] = 0] /\ pc' = [pc EXCEPT ![p] = "recv"]
  /\ UNCHANGED <<senderVars, net, shard, plen, cleans, fateVars, written, corrupt>>

Next ==
  \/ SendBatch
  \/ SendWhole
  \/ \E p \in Path, c \in net : FecRecvDone(p, c)
  \/ \E p \in Path : ReadLen(p) \/ WriteTun(p) \/ StartClean(p) \/ CleanEntry(p)

Spec == Init /\ [][Next]_vars

-----------------------------------------------------------------------------
(* Properties *)

TypeOK ==
  /\ sender \in Senders
  /\ sequence \in SeqNo
  /\ sent \in 0 .. MaxPackets
  /\ batches \subseteq Pkt
  /\ net \subseteq Shard
  /\ pc \in [Path -> {"recv", "done", "write", "clean"}]
  /\ shard \in [Path -> Shard \cup {Blank}]
  /\ \A p \in Path : pc[p] \in {"done", "write"} => shard[p] \in Shard
  /\ plen \in [Path -> Pkt \cup {Blank}]
  /\ fec \in [Slot -> Entry]
  /\ at \in [Path -> Slot] /\ cleans \in 0 .. MaxCleans /\ renamed \subseteq batches
  /\ doomed \subseteq batches /\ short \subseteq batches /\ repeated \subseteq batches
  /\ written \in [Pkt -> Nat]
  /\ corrupt \subseteq Pkt

\* The two ways an entry can hold something else under a packet's own number:
\* it is the number a fresh entry claims, or a packet exactly some laps of the
\* counter earlier left the entry behind (fec_recv_done never expires one:
\* last_update is stored and not read).
Stale(n) ==
  \/ SeqOf(n) = FEC_EMPTY
  \/ \E m \in batches : m < n /\ SeqOf(m) = SeqOf(n)

\* What is written to the TUN device for a packet is that packet, whole, with
\* its own length, although threads read the shared entry after the unlock;
\* the exceptions are the entries fec_recv_done takes for the packet's own.
CorruptionExplained == \A n \in corrupt : Stale(n)

\* A packet is written at most once, whatever shards arrive late or again,
\* unless a start flag renamed its entry (init_dedup_state): K shards that
\* arrive again then complete it a second time.
FecAtMostOnce ==
  \A n \in Pkt : written[n] > 1 => n \in renamed \cap repeated /\ written[n] <= cleans + 1

\* Enough of the packet came through, and nothing of it is under way or in a
\* thread's hands any more.
Survivor(n) == n \in batches \ doomed /\ n \notin Busy

\* The promise of the code (K, N): losing any N of the shards of a packet does
\* not lose the packet.
SurvivesLoss ==
  \A n \in Pkt : Survivor(n) => written[n] > 0

\* What may cost a packet all the same: a stale entry taken for its own, a
\* shard counted twice because the network delivers it twice, a start flag
\* that renamed the entry while the packet was being collected, or, from the
\* client, a loss that leaves too few of the shards it does send (SurvivesLoss).
Excused(n) ==
  \/ Stale(n) \/ n \in repeated \cup renamed
  \/ SentShards # Idx /\ n \in short

\* Losing any N shards of a packet loses it for no other reason.
LossExplained == \A n \in Pkt : Survivor(n) => written[n] > 0 \/ Excused(n)

=============================================================================
