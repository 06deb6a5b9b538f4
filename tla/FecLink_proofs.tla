--------------------------- MODULE FecLink_proofs ---------------------------
(***************************************************************************)
(* Safety of the FEC link for every code (K, N), table size, number of     *)
(* threads and interleaving: what is written is the packet, it is written  *)
(* once, and losing no more shards than the code makes up for loses it for *)
(* the named reasons only.                                                 *)
(*                                                                         *)
(* The argument is that no two packets with shards under way, or in a      *)
(* thread's hands, meet in an entry (Window), and that all shards of a     *)
(* packet go through one thread.  What is left is the life of one packet   *)
(* in its entry.                                                           *)
(***************************************************************************)
EXTENDS FecLink, TLAPS, FiniteSetTheorems

\* A shard is looked up before SEQ_MAP_SIZE further packets are numbered.
FecWindow == SKEW <= SEQ_MAP_SIZE

-----------------------------------------------------------------------------
(* The state of one packet *)

\* The thread, and the entry, all shards of a packet go through.
PathOf(n) == SeqOf(n + 1) % Workers
Ent(n) == fec[SlotOf(SeqOf(n))]

\* Its shards under way, and their places in the code.
Arriving(n) == {c \in net : c.n = n}
Indices(n) == {c.idx : c \in Arriving(n)}

\* A thread has completed it and not written it yet.
Held(n) == pc[PathOf(n)] \in {"done", "write"} /\ shard[PathOf(n)].n = n

\* Its entry has its number and takes no more shards.
Final(n) == Ent(n).seq = SeqOf(n) /\ Closed(Ent(n))

\* Its entry was taken over for it, and is not another's by the same number.
Mine(n) == Ent(n).seq = SeqOf(n) /\ Ent(n).plen = n

Unmarked(e) == {i \in Idx : ~e.marks[i]}

\* Completions of the packet that are not written yet: all of them, and those
\* that will be written whole.
HeldCount(n) == IF Held(n) THEN 1 ELSE 0
GoodCount(n) == IF Held(n) /\ Ent(n).plen = n THEN 1 ELSE 0

\* Its shards counted since its entry was taken over.
Collected(n) == IF Mine(n) /\ ~Closed(Ent(n)) THEN Ent(n).cnt ELSE 0

\* Threads whose clean has still to come past an entry, and cleans that have.
Cleaning(s) == {p \in Path : pc[p] = "clean" /\ at[p] <= s}
Passed(s) == cleans - Cardinality(Cleaning(s))

-----------------------------------------------------------------------------
(* The inductive invariant *)

\* Shards, in the network and in a thread's hands, carry the number and the
\* path of their packet, and are not too far behind.
Traffic ==
  /\ sequence = SeqOf(sent)
  /\ \A n \in batches : n < sent
  /\ \A c \in net : /\ c.n \in batches /\ c.seq = SeqOf(c.n) /\ c.path = PathOf(c.n)
                    /\ c.again => c.n \in repeated
  /\ \A p \in Path : pc[p] \in {"done", "write"} =>
       shard[p].n \in batches /\ shard[p].seq = SeqOf(shard[p].n) /\ p = PathOf(shard[p].n)
  /\ \A n \in Busy : sent <= n + SKEW

\* An entry has the number of the packet whose length it has, or the empty one.
Entries ==
  \A s \in Slot :
    /\ fec[s].plen \in Pkt => fec[s].plen \in batches
    /\ fec[s].seq = FEC_EMPTY \/ (fec[s].plen \in Pkt /\ fec[s].seq = SeqOf(fec[s].plen))

\* The length a thread has read is still that of the entry.
Lengths == \A p \in Path : pc[p] = "write" => plen[p] = Ent(shard[p].n).plen

\* There is a clean for each thread that is cleaning.
CleansCounted == Cardinality({p \in Path : pc[p] = "clean"}) <= cleans

\* Bytes marked as there are the packet's, and a completed packet is whole.
Right(n) ==
  ~Stale(n) =>
    /\ Arriving(n) # {} /\ Mine(n) => \A i \in Unmarked(Ent(n)) : Ent(n).buf[i] = <<n, i>>
    /\ Held(n) => Ent(n).plen = n /\ \A i \in Data : Ent(n).buf[i] = <<n, i>>

\* A packet is completed once, and again only after a clean came past its entry.
OncePerClean(n) ==
  /\ written[n] + HeldCount(n) <= 1 + Passed(SlotOf(SeqOf(n)))
  /\ Arriving(n) # {} /\ ~Final(n) =>
       written[n] + HeldCount(n) <= Passed(SlotOf(SeqOf(n)))

\* ... and gave it the empty number.
OnceUnlessRenamed(n) ==
  n \notin renamed =>
    /\ written[n] + HeldCount(n) <= 1
    /\ Arriving(n) # {} /\ ~Final(n) => written[n] + HeldCount(n) = 0

\* Without repeated shards what is left after the packet is completed from an
\* entry of its own is too few shards to complete it again.
OnceUnlessRepeated(n) ==
  N < K /\ n \notin repeated =>
    /\ written[n] + GoodCount(n) <= 1
    /\ Arriving(n) # {} =>
         Collected(n) + Cardinality(Indices(n))
           <= IF written[n] + GoodCount(n) = 0 THEN K + N ELSE N

\* Without repeated shards each shard counted has another index.
CountedOnce(n) ==
  n \notin repeated /\ Arriving(n) # {} /\ Mine(n) /\ ~Closed(Ent(n)) =>
    /\ Ent(n).cnt = Cardinality(Unmarked(Ent(n)))
    /\ Unmarked(Ent(n)) \cap Indices(n) = {}

\* A packet of which enough shards came through, and that nothing excuses, is
\* completed or still will be.
OnItsWay(n) ==
  n \in batches \ (short \cup repeated \cup renamed) /\ ~Stale(n) =>
    \/ written[n] > 0 \/ Held(n)
    \/ Arriving(n) # {} /\ ~Final(n) /\ Collected(n) + Cardinality(Indices(n)) >= K

\* If all shards are sent, fewer than K come through only if over N are lost.
ShortIsDoomed(n) == SentShards = Idx /\ n \in short => n \in doomed

WrittenWasSent(n) == n \notin batches => written[n] = 0

PacketInv(n) ==
  /\ Right(n)
  /\ OncePerClean(n)
  /\ OnceUnlessRenamed(n)
  /\ OnceUnlessRepeated(n)
  /\ CountedOnce(n)
  /\ OnItsWay(n)
  /\ ShortIsDoomed(n)
  /\ WrittenWasSent(n)

IInv ==
  /\ TypeOK
  /\ Traffic
  /\ Entries
  /\ Lengths
  /\ CleansCounted
  /\ CorruptionExplained
  /\ \A n \in Pkt : PacketInv(n)

-----------------------------------------------------------------------------
(* Constants and entries *)

LEMMA Ranges ==
  /\ SEQ_MOD \in Nat \ {0} /\ FEC_EMPTY \in SeqNo /\ 0 \in SeqNo /\ 0 \in Slot
  /\ \A n \in Nat : SeqOf(n) \in SeqNo
  /\ \A q \in SeqNo : SlotOf(q) \in Slot
  /\ \A n \in Pkt : n \in Nat /\ SeqOf(n) \in SeqNo /\ SlotOf(SeqOf(n)) \in Slot
  /\ \A q \in SeqNo : (q + 1) % SEQ_MOD \in SeqNo /\ q % Workers \in Path
  /\ \A n \in Nat : PathOf(n) \in Path
<1>1. SEQ_MOD \in Nat \ {0} /\ \A n \in Nat : SeqOf(n) \in SeqNo /\ \A q \in SeqNo : SlotOf(q) \in Slot
  BY SeqTypes
<1>2. 0 \in Nat
  OBVIOUS
<1>3. \A q \in SeqNo : SlotOf(q) \in Slot
  BY <1>1, <1>2
<1>4. 0 \in Slot /\ 0 \in SeqNo
  BY <1>1, SeqSpaceAssumption DEF Slot, SeqNo
<1>5. ASSUME NEW q \in SeqNo PROVE (q + 1) % SEQ_MOD \in SeqNo /\ q % Workers \in Path
  <2>1. q \in Nat /\ q + 1 \in Nat /\ Workers \in Nat \ {0}
    BY <1>1, FecAssumption DEF SeqNo
  <2> QED BY <2>1, <1>1, DivMod DEF SeqNo, Path
<1>6. \A n \in Nat : n + 1 \in Nat
  OBVIOUS
<1>7. \A n \in Nat : PathOf(n) \in Path
  BY <1>1, <1>5, <1>6 DEF PathOf
<1>8. \A n \in Pkt : n \in Nat
  BY FecAssumption DEF Pkt
<1> QED BY <1>1, <1>3, <1>4, <1>5, <1>7, <1>8, FecAssumption

LEMMA Indexes ==
  /\ K \in Nat \ {0} /\ N \in Nat \ {0}
  /\ IsFiniteSet(Idx) /\ Cardinality(Idx) = K + N
  /\ IsFiniteSet(Data) /\ Cardinality(Data) = K
  /\ Data \subseteq Idx /\ Parity \subseteq Idx /\ Data \cap Parity = {}
  /\ Idx = 0 .. (K + N - 1)
<1>1. K \in Nat \ {0} /\ N \in Nat \ {0}
  BY FecAssumption
<1>2. Idx = 0 .. (K + N - 1)
  BY <1>1 DEF Idx, Data, Parity
<1>3. IsFiniteSet(0 .. (K + N - 1)) /\ Cardinality(0 .. (K + N - 1)) = K + N
  BY <1>1, FS_Interval
<1>4. IsFiniteSet(0 .. (K - 1)) /\ Cardinality(0 .. (K - 1)) = K
  BY <1>1, FS_Interval
<1>5. Data \cap Parity = {}
  BY <1>1 DEF Data, Parity
<1> QED BY <1>1, <1>2, <1>3, <1>4, <1>5 DEF Idx, Data

LEMMA TakenFields ==
  ASSUME NEW e \in Entry, NEW c \in Shard
  PROVE  /\ Taken(e, c) \in Entry /\ Taken(e, c).seq = c.seq
         /\ Taken(e, c).buf = e.buf
         /\ e.seq = c.seq => Taken(e, c) = e
         /\ e.seq # c.seq => /\ Taken(e, c).plen = c.n /\ Taken(e, c).cnt = 0
                             /\ Taken(e, c).marks = [i \in Idx |-> TRUE]
<1>1. c.n \in Pkt /\ c.seq \in SeqNo /\ K \in Nat \ {0}
  BY FecAssumption DEF Shard
<1>2. [i \in Idx |-> TRUE] \in [Idx -> BOOLEAN] /\ 0 \in 0 .. K
  BY <1>1
<1>3. CASE e.seq = c.seq
  BY <1>3 DEF Taken
<1>4. CASE e.seq # c.seq
  BY <1>1, <1>2, <1>4 DEF Taken, Entry
<1> QED BY <1>3, <1>4

LEMMA StoredFields ==
  ASSUME NEW e \in Entry, NEW c \in Shard, ~Closed(e)
  PROVE  /\ Stored(e, c) \in Entry
         /\ Stored(e, c).seq = e.seq /\ Stored(e, c).plen = e.plen
         /\ Stored(e, c).cnt = e.cnt + 1 /\ e.cnt \in 0 .. (K - 1)
         /\ Stored(e, c).marks = [e.marks EXCEPT ![c.idx] = FALSE]
         /\ Stored(e, c).buf = [e.buf EXCEPT ![c.idx] = <<c.n, c.idx>>]
         /\ Unmarked(Stored(e, c)) = Unmarked(e) \cup {c.idx}
<1>1. c.n \in Pkt /\ c.idx \in Idx /\ K \in Nat \ {0}
  BY FecAssumption DEF Shard
<1>2. /\ e.cnt \in 0 .. K /\ e.marks \in [Idx -> BOOLEAN] /\ e.buf \in [Idx -> Bytes]
      /\ e.seq \in SeqNo /\ e.plen \in Pkt \cup {Blank}
  BY DEF Entry
<1>3. e.cnt \in 0 .. (K - 1) /\ e.cnt + 1 \in 0 .. K
  BY <1>1, <1>2 DEF Closed
<1>4. /\ Stored(e, c).seq = e.seq /\ Stored(e, c).plen = e.plen
      /\ Stored(e, c).cnt = e.cnt + 1
  BY DEF Stored, Entry
<1>5. Stored(e, c).marks = [e.marks EXCEPT ![c.idx] = FALSE]
  BY DEF Stored, Entry
<1>6. Stored(e, c).buf = [e.buf EXCEPT ![c.idx] = <<c.n, c.idx>>]
  BY DEF Stored, Entry
<1>7. <<c.n, c.idx>> \in Bytes
  BY <1>1 DEF Bytes
<1>8. Stored(e, c) \in Entry
  <2> DEFINE e1 == [e EXCEPT !.buf[c.idx] = <<c.n, c.idx>>]
             e2 == [e1 EXCEPT !.marks[c.idx] = FALSE]
  <2>1. e1 \in Entry /\ e1.cnt = e.cnt
    BY <1>1, <1>7 DEF Entry
  <2>2. Stored(e, c) = [e2 EXCEPT !.cnt = @ + 1]
    BY DEF Stored
  <2> HIDE DEF e1
  <2>3. e2 \in Entry /\ e2.cnt = e.cnt
    BY <1>1, <2>1 DEF Entry
  <2> HIDE DEF e2
  <2> QED BY <1>3, <2>2, <2>3 DEF Entry
<1>9. Unmarked(Stored(e, c)) = Unmarked(e) \cup {c.idx}
  BY <1>1, <1>2, <1>5 DEF Unmarked
<1> QED BY <1>3, <1>4, <1>5, <1>6, <1>8, <1>9

-----------------------------------------------------------------------------
(* Decoding *)

\* What Decode does, without its local names.
Missing(marks) == {i \in Data : marks[i]}
Chosen(marks) == Lowest({j \in Parity : ~marks[j]}, Cardinality(Missing(marks)))
Used(marks) == (Data \ Missing(marks)) \cup Chosen(marks)

\* Bytes marked as there are left alone, and the others keep their type.
LEMMA DecodeType ==
  ASSUME NEW marks \in [Idx -> BOOLEAN], NEW buf \in [Idx -> Bytes]
  PROVE  /\ Decode(marks, buf).buf \in [Idx -> Bytes]
         /\ \A i \in Idx : ~marks[i] => Decode(marks, buf).buf[i] = buf[i]
<1> DEFINE Rank(S, j) == Cardinality({i \in S : i < j})
           Whole(n) == \A j \in Used(marks) : buf[j] = <<n, j>>
           Solved(i) == IF \E n \in Pkt : Whole(n)
                        THEN <<(CHOOSE n \in Pkt : Whole(n)), i>> ELSE Junk
           ok == Cardinality(Chosen(marks)) = Cardinality(Missing(marks))
           Copied(i) == {j \in Chosen(marks) : Rank(Chosen(marks), j) = Rank(Missing(marks), i)}
           B(i) == IF i \notin Missing(marks) THEN buf[i]
                   ELSE IF ok THEN Solved(i)
                   ELSE IF Copied(i) # {} THEN buf[CHOOSE j \in Copied(i) : TRUE]
                   ELSE buf[i]
<1>1. Decode(marks, buf).buf = [i \in Idx |-> B(i)]
  BY DEF Decode, Missing, Chosen, Used
<1>2. ASSUME NEW i \in Idx PROVE Solved(i) \in Bytes
  <2>1. CASE \E n \in Pkt : Whole(n)
    <3>1. (CHOOSE n \in Pkt : Whole(n)) \in Pkt
      BY <2>1
    <3> QED BY <2>1, <3>1 DEF Bytes
  <2>2. CASE ~\E n \in Pkt : Whole(n)
    BY <2>2 DEF Bytes
  <2> QED BY <2>1, <2>2
<1>3. ASSUME NEW i \in Idx, Copied(i) # {} PROVE buf[CHOOSE j \in Copied(i) : TRUE] \in Bytes
  <2>1. (CHOOSE j \in Copied(i) : TRUE) \in Copied(i)
    BY <1>3
  <2>2. Copied(i) \subseteq Idx
    BY Indexes DEF Chosen, Lowest
  <2> HIDE DEF Copied
  <2> QED BY <2>1, <2>2
<1> HIDE DEF Solved, Copied
<1>4. \A i \in Idx : B(i) \in Bytes
  BY <1>2, <1>3
<1>5. \A i \in Idx : ~marks[i] => i \notin Missing(marks)
  BY DEF Missing
<1> HIDE DEF ok
<1> QED BY <1>1, <1>4, <1>5

LEMMA DisjointUnion ==
  ASSUME NEW A, NEW B, IsFiniteSet(A), IsFiniteSet(B), A \cap B = {}
  PROVE  Cardinality(A \cup B) = Cardinality(A) + Cardinality(B)
<1>1. Cardinality(A \cup B) = Cardinality(A) + Cardinality(B) - Cardinality({})
  BY FS_Union
<1>2. Cardinality(A) \in Nat /\ Cardinality(B) \in Nat /\ Cardinality({}) = 0
  BY FS_CardinalityType, FS_EmptySet
<1> QED BY <1>1, <1>2

\* With K shards there decode has the parity shards it needs.
LEMMA DecodeOk ==
  ASSUME NEW marks \in [Idx -> BOOLEAN], NEW buf,
         Cardinality({i \in Idx : ~marks[i]}) = K
  PROVE  Decode(marks, buf).ok
<1> DEFINE U == {j \in Parity : ~marks[j]}
           V == {i \in Data : ~marks[i]}
<1>1. Decode(marks, buf).ok <=> Cardinality(Chosen(marks)) = Cardinality(Missing(marks))
  BY DEF Decode, Missing, Chosen
<1>2. IsFiniteSet(U) /\ IsFiniteSet(V) /\ IsFiniteSet(Missing(marks))
  BY Indexes, FS_Subset DEF Missing
<1>3. /\ Cardinality(U) \in Nat /\ Cardinality(V) \in Nat
      /\ Cardinality(Missing(marks)) \in Nat
  BY <1>2, FS_CardinalityType
<1>4. Cardinality(U \cup V) = Cardinality(U) + Cardinality(V)
  <2>1. U \cap V = {}
    BY Indexes
  <2> QED BY <2>1, <1>2, DisjointUnion
<1>5. U \cup V = {i \in Idx : ~marks[i]}
  BY DEF Idx
<1>6. Cardinality(V \cup Missing(marks)) = Cardinality(V) + Cardinality(Missing(marks))
  <2>1. V \cap Missing(marks) = {}
    BY DEF Missing
  <2> HIDE DEF V
  <2> QED BY <2>1, <1>2, DisjointUnion
<1>7. V \cup Missing(marks) = Data
  BY Indexes DEF Missing
<1>8. Cardinality(U) = Cardinality(Missing(marks))
  <2>1. Cardinality(U \cup V) = K /\ Cardinality(V \cup Missing(marks)) = K
    BY <1>5, <1>7, Indexes
  <2> HIDE DEF U, V
  <2> QED BY <2>1, <1>3, <1>4, <1>6
<1>9. Lowest(U, Cardinality(U)) = U
  <2>1. ASSUME NEW j \in U PROVE Cardinality({i \in U : i < j}) < Cardinality(U)
    <3> DEFINE L == {i \in U : i < j}
    <3>1. L \subseteq U /\ j \notin L
      BY DEF Parity
    <3>2. IsFiniteSet(L) /\ Cardinality(L) <= Cardinality(U) /\ (Cardinality(U) = Cardinality(L) => U = L)
      BY <3>1, <1>2, FS_Subset
    <3>3. Cardinality(L) \in Nat
      BY <3>2, FS_CardinalityType
    <3>4. U # L
      BY <3>1
    <3> HIDE DEF L
    <3>5. Cardinality(L) < Cardinality(U)
      BY <3>2, <3>3, <3>4, <1>3
    <3> QED BY <3>5 DEF L
  <2> QED BY <2>1 DEF Lowest
<1> QED BY <1>1, <1>8, <1>9 DEF Chosen

\* When decode succeeds on the shards of one packet the data is the packet's.
LEMMA DecodeRight ==
  ASSUME NEW marks \in [Idx -> BOOLEAN], NEW buf, NEW n \in Pkt,
         Decode(marks, buf).ok,
         \A i \in Idx : ~marks[i] => buf[i] = <<n, i>>
  PROVE  \A i \in Data : Decode(marks, buf).buf[i] = <<n, i>>
<1> DEFINE Whole(m) == \A j \in Used(marks) : buf[j] = <<m, j>>
<1>1. Cardinality(Chosen(marks)) = Cardinality(Missing(marks))
  BY DEF Decode, Missing, Chosen
<1>2. \A j \in Used(marks) : j \in Idx /\ ~marks[j]
  BY Indexes DEF Used, Missing, Chosen, Lowest
<1>3. Used(marks) # {}
  <2> SUFFICES ASSUME Used(marks) = {} PROVE FALSE
    OBVIOUS
  <2>1. Missing(marks) = Data /\ Chosen(marks) = {}
    BY DEF Used, Missing
  <2> QED BY <1>1, <2>1, Indexes, FS_EmptySet
<1>4. Whole(n)
  BY <1>2
<1>5. (CHOOSE m \in Pkt : Whole(m)) = n
  <2>1. \A m \in Pkt : Whole(m) => m = n
    BY <1>2, <1>3
  <2> HIDE DEF Whole
  <2> QED BY <1>4, <2>1
<1>6. \A i \in Data : Decode(marks, buf).buf[i] = IF i \notin Missing(marks) THEN buf[i] ELSE <<n, i>>
  <2>1. \E m \in Pkt : Whole(m)
    BY <1>4
  <2> SUFFICES ASSUME NEW i \in Data
               PROVE  Decode(marks, buf).buf[i] = IF i \notin Missing(marks) THEN buf[i] ELSE <<n, i>>
    OBVIOUS
  <2>2. i \in Idx
    BY Indexes
  <2>3. Decode(marks, buf).buf[i] = IF i \notin Missing(marks) THEN buf[i]
                                    ELSE <<(CHOOSE m \in Pkt : Whole(m)), i>>
    BY <1>1, <2>1, <2>2 DEF Decode, Missing, Chosen, Used
  <2> HIDE DEF Whole
  <2> QED BY <2>3, <1>5
<1> QED BY <1>2, <1>6, Indexes DEF Missing

-----------------------------------------------------------------------------
(* Type correctness *)

LEMMA TypeInit == Init => TypeOK
<1> SUFFICES ASSUME Init PROVE TypeOK
  OBVIOUS
<1> DEFINE e == [seq |-> FEC_EMPTY, plen |-> Blank, cnt |-> 0,
                 marks |-> [i \in Idx |-> FALSE], buf |-> [i \in Idx |-> Blank]]
<1>1. e \in Entry
  BY Ranges, FecAssumption DEF Entry, Bytes
<1>2. fec \in [Slot -> Entry]
  BY <1>1 DEF Init
<1> HIDE DEF e
<1>3. written \in [Pkt -> Nat] /\ at \in [Path -> Slot]
  BY Ranges DEF Init
<1>4. /\ pc \in [Path -> {"recv", "done", "write", "clean"}] /\ shard \in [Path -> Shard \cup {Blank}]
      /\ plen \in [Path -> Pkt \cup {Blank}] /\ \A p \in Path : pc[p] = "recv"
  BY DEF Init
<1>5. sent \in 0 .. MaxPackets /\ cleans \in 0 .. MaxCleans /\ sequence \in SeqNo /\ sender \in Senders
  BY Ranges, FecAssumption DEF Init
<1>6. batches = {} /\ net = {} /\ doomed = {} /\ short = {} /\ repeated = {} /\ renamed = {} /\ corrupt = {}
  BY DEF Init
<1> QED BY <1>2, <1>3, <1>4, <1>5, <1>6 DEF TypeOK

\* The three ways a shard goes through fec_recv_done.
LEMMA RecvOutcomes ==
  ASSUME TypeOK, NEW p \in Path, NEW c \in net, FecRecvDone(p, c)
  PROVE  LET s == SlotOf(c.seq)
             e == Taken(fec[s], c)
             f == Stored(e, c)
             d == Decode(f.marks, f.buf)
             g == [f EXCEPT !.buf = d.buf]
         IN /\ c \in Shard /\ s \in Slot /\ fec[s] \in Entry /\ e \in Entry
            /\ pc[p] = "recv" /\ c.path = p /\ net' = net \ {c}
            /\ UNCHANGED <<sender, sequence, sent, batches, at, cleans, renamed,
                           doomed, short, repeated, written, corrupt>>
            /\ \/ Closed(e) /\ fec' = [fec EXCEPT ![s] = e] /\ Done(p)
               \/ /\ ~Closed(e) /\ f \in Entry /\ f.cnt < K
                  /\ fec' = [fec EXCEPT ![s] = f] /\ Done(p)
               \/ /\ ~Closed(e) /\ f \in Entry /\ f.cnt = K
                  /\ fec' = [fec EXCEPT ![s] = g]
                  /\ g \in Entry
                  /\ g.seq = f.seq /\ g.plen = f.plen /\ g.cnt = f.cnt /\ g.marks = f.marks
                  /\ g.buf = d.buf
                  /\ \/ /\ d.ok
                        /\ pc' = [pc EXCEPT ![p] = "done"]
                        /\ shard' = [shard EXCEPT ![p] = c]
                        /\ UNCHANGED plen
                     \/ ~d.ok /\ Done(p)
<1> DEFINE s == SlotOf(c.seq)
           e == Taken(fec[s], c)
           f == Stored(e, c)
           d == Decode(f.marks, f.buf)
           g == [f EXCEPT !.buf = d.buf]
<1>1. c \in Shard /\ c.seq \in SeqNo /\ s \in Slot /\ fec[s] \in Entry
  BY Ranges DEF TypeOK, Shard
<1>2. e \in Entry
  BY <1>1, TakenFields
<1>3. /\ pc[p] = "recv" /\ c.path = p /\ net' = net \ {c}
      /\ UNCHANGED <<sender, sequence, sent, batches, at, cleans, renamed,
                     doomed, short, repeated, written, corrupt>>
  BY DEF FecRecvDone, senderVars, cleanVars, fateVars
<1> HIDE DEF e
<1>4. ASSUME ~Closed(e)
      PROVE  /\ f \in Entry /\ f.cnt \in 1 .. K /\ g \in Entry
             /\ g.seq = f.seq /\ g.plen = f.plen /\ g.cnt = f.cnt /\ g.marks = f.marks
             /\ g.buf = d.buf
  <2>1. f \in Entry /\ f.cnt = e.cnt + 1 /\ e.cnt \in 0 .. (K - 1)
    BY <1>1, <1>2, <1>4, StoredFields
  <2>2. f.marks \in [Idx -> BOOLEAN] /\ f.buf \in [Idx -> Bytes]
    BY <2>1 DEF Entry
  <2>3. d.buf \in [Idx -> Bytes]
    BY <2>2, DecodeType
  <2> HIDE DEF f, d
  <2>4. f.cnt \in 1 .. K
    BY <2>1, FecAssumption
  <2> QED BY <2>1, <2>3, <2>4 DEF Entry
<1>5. \/ Closed(e) /\ fec' = [fec EXCEPT ![s] = e] /\ Done(p)
      \/ ~Closed(e) /\ f.cnt < K /\ fec' = [fec EXCEPT ![s] = f] /\ Done(p)
      \/ /\ ~Closed(e) /\ f.cnt >= K
         /\ fec' = [fec EXCEPT ![s] = g]
         /\ \/ /\ d.ok
               /\ pc' = [pc EXCEPT ![p] = "done"]
               /\ shard' = [shard EXCEPT ![p] = c]
               /\ UNCHANGED plen
            \/ ~d.ok /\ Done(p)
  BY DEF FecRecvDone, e
<1>6. f.cnt \in 1 .. K /\ f.cnt >= K => f.cnt = K
  BY FecAssumption
<1> QED BY <1>1, <1>2, <1>3, <1>4, <1>5, <1>6, Zenon DEF e

\* What fec_recv_done changes besides, whichever way it goes.
LEMMA RecvEffects ==
  ASSUME TypeOK, NEW p \in Path, NEW c \in net, FecRecvDone(p, c)
  PROVE  /\ c \in Shard /\ c.path = p /\ pc[p] = "recv" /\ net' = net \ {c}
         /\ UNCHANGED <<sender, sequence, sent, batches, at, cleans, renamed,
                        doomed, short, repeated, written, corrupt>>
         /\ \E g \in Entry : fec' = [fec EXCEPT ![SlotOf(c.seq)] = g]
         /\ \/ Done(p)
            \/ /\ pc' = [pc EXCEPT ![p] = "done"]
               /\ shard' = [shard EXCEPT ![p] = c]
               /\ UNCHANGED plen
<1> DEFINE s == SlotOf(c.seq)
           e == Taken(fec[s], c)
           f == Stored(e, c)
           d == Decode(f.marks, f.buf)
           g == [f EXCEPT !.buf = d.buf]
<1>1. /\ c \in Shard /\ e \in Entry
      /\ \/ fec' = [fec EXCEPT ![s] = e] /\ Done(p)
         \/ f \in Entry /\ fec' = [fec EXCEPT ![s] = f] /\ Done(p)
         \/ /\ g \in Entry /\ fec' = [fec EXCEPT ![s] = g]
            /\ \/ /\ pc' = [pc EXCEPT ![p] = "done"]
                  /\ shard' = [shard EXCEPT ![p] = c]
                  /\ UNCHANGED plen
               \/ Done(p)
  BY RecvOutcomes, Zenon
<1> HIDE DEF e, f, d, g
<1>2. /\ c.path = p /\ pc[p] = "recv" /\ net' = net \ {c}
      /\ UNCHANGED <<sender, sequence, sent, batches, at, cleans, renamed,
                     doomed, short, repeated, written, corrupt>>
  BY DEF FecRecvDone, senderVars, cleanVars, fateVars
<1>3. \E x \in Entry : fec' = [fec EXCEPT ![s] = x]
  BY <1>1
<1> QED BY <1>1, <1>2, <1>3

LEMMA TypeNext == TypeOK /\ [Next]_vars => TypeOK'
<1> SUFFICES ASSUME TypeOK, [Next]_vars PROVE TypeOK'
  OBVIOUS
<1> USE DEF TypeOK
<1>1. ASSUME Number
      PROVE  /\ sent \in Pkt /\ sequence \in SeqNo /\ sequence' \in SeqNo /\ sequence' % Workers \in Path
             /\ sent' \in 0 .. MaxPackets /\ UNCHANGED <<sender, at, cleans, renamed>>
  <2>1. sent \in Pkt /\ sent' \in 0 .. MaxPackets
    BY <1>1, FecAssumption DEF Number, Pkt
  <2>2. sequence' \in SeqNo
    BY <1>1, Ranges DEF Number
  <2> QED BY <1>1, <2>1, <2>2, Ranges DEF Number, cleanVars
<1>2. CASE SendBatch
  <2>1. PICK S \in SUBSET SentShards, R \in SUBSET SentShards :
          /\ net' = net \cup {[n |-> sent, idx |-> i, seq |-> sequence,
                               path |-> sequence' % Workers, again |-> FALSE] : i \in S}
                        \cup {[n |-> sent, idx |-> i, seq |-> sequence,
                               path |-> sequence' % Workers, again |-> TRUE] : i \in R}
          /\ repeated' \in {repeated, repeated \cup {sent}}
          /\ doomed' \in {doomed, doomed \cup {sent}}
          /\ short' \in {short, short \cup {sent}}
    BY <1>2 DEF SendBatch
  <2>2. S \subseteq Idx /\ R \subseteq Idx
    BY DEF SentShards
  <2>3. net' \subseteq Shard
    <3>1. Number
      BY <1>2 DEF SendBatch
    <3>2. \A i \in Idx, again \in BOOLEAN :
            [n |-> sent, idx |-> i, seq |-> sequence, path |-> sequence' % Workers, again |-> again] \in Shard
      BY <1>1, <3>1 DEF Shard
    <3>3. net \subseteq Shard
      OBVIOUS
    <3> QED BY <2>1, <2>2, <3>2, <3>3
  <2>4. /\ batches' = batches \cup {sent}
        /\ UNCHANGED <<pc, shard, plen, fec, written, corrupt>>
    BY <1>2 DEF SendBatch, workerVars
  <2>5. Number
    BY <1>2 DEF SendBatch
  <2>6. /\ batches' \subseteq Pkt /\ doomed' \subseteq batches' /\ short' \subseteq batches'
        /\ repeated' \subseteq batches' /\ renamed' \subseteq batches'
    BY <1>1, <2>1, <2>4, <2>5
  <2>7. UNCHANGED <<sender, at, cleans>> /\ sequence' \in SeqNo /\ sent' \in 0 .. MaxPackets
    BY <1>1, <2>5
  <2> QED BY <2>3, <2>4, <2>6, <2>7
<1>3. CASE SendWhole
  BY <1>1, <1>3 DEF SendWhole, workerVars, fateVars
<1>4. ASSUME NEW p \in Path, NEW c \in net, FecRecvDone(p, c) PROVE TypeOK'
  <2> DEFINE s == SlotOf(c.seq)
  <2>1. /\ c \in Shard /\ net' \subseteq Shard
        /\ UNCHANGED <<sender, sequence, sent, batches, at, cleans, renamed,
                       doomed, short, repeated, written, corrupt>>
    BY <1>4, RecvEffects
  <2>2. \E g \in Entry : fec' = [fec EXCEPT ![s] = g]
    BY <1>4, RecvEffects
  <2>3. fec' \in [Slot -> Entry]
    BY <2>2
  <2>4. \/ Done(p)
        \/ /\ pc' = [pc EXCEPT ![p] = "done"]
           /\ shard' = [shard EXCEPT ![p] = c]
           /\ UNCHANGED plen
    BY <1>4, RecvEffects
  <2>5. /\ pc' \in [Path -> {"recv", "done", "write", "clean"}]
        /\ shard' \in [Path -> Shard \cup {Blank}] /\ plen' \in [Path -> Pkt \cup {Blank}]
        /\ \A q \in Path : pc'[q] \in {"done", "write"} => shard'[q] \in Shard
    BY <2>1, <2>4 DEF Done
  <2> QED BY <2>1, <2>3, <2>5
<1>5. ASSUME NEW p \in Path, ReadLen(p) PROVE TypeOK'
  <2>1. shard[p] \in Shard
    BY <1>5 DEF ReadLen
  <2>2. SlotOf(shard[p].seq) \in Slot
    BY <2>1, Ranges DEF Shard
  <2>3. fec[SlotOf(shard[p].seq)].plen \in Pkt \cup {Blank}
    BY <2>2 DEF Entry
  <2>4. UNCHANGED <<senderVars, net, shard, fec, cleanVars, fateVars, written, corrupt>>
    BY <1>5 DEF ReadLen
  <2>5. plen' \in [Path -> Pkt \cup {Blank}]
    BY <1>5, <2>3 DEF ReadLen
  <2>6. /\ pc' \in [Path -> {"recv", "done", "write", "clean"}]
        /\ \A q \in Path : pc'[q] \in {"done", "write"} => shard'[q] \in Shard
    BY <1>5, <2>4 DEF ReadLen
  <2> QED BY <2>4, <2>5, <2>6 DEF senderVars, cleanVars, fateVars
<1>6. ASSUME NEW p \in Path, WriteTun(p) PROVE TypeOK'
  <2>1. shard[p] \in Shard /\ shard[p].n \in Pkt
    BY <1>6 DEF WriteTun, Shard
  <2>2. UNCHANGED <<senderVars, net, fec, cleanVars, fateVars>> /\ Done(p)
    BY <1>6 DEF WriteTun
  <2>3. \/ written' = [written EXCEPT ![shard[p].n] = @ + 1] /\ UNCHANGED corrupt
        \/ corrupt' = corrupt \cup {shard[p].n} /\ UNCHANGED written
    BY <1>6 DEF WriteTun
  <2>4. written' \in [Pkt -> Nat] /\ corrupt' \subseteq Pkt
    BY <2>1, <2>3
  <2> QED BY <2>2, <2>4 DEF Done, senderVars, cleanVars, fateVars
<1>7. ASSUME NEW p \in Path, StartClean(p) PROVE TypeOK'
  <2>1. cleans' \in 0 .. MaxCleans
    BY <1>7, FecAssumption DEF StartClean
  <2> QED BY <1>7, <2>1, Ranges DEF StartClean, senderVars, fateVars
<1>8. ASSUME NEW p \in Path, CleanEntry(p) PROVE TypeOK'
  <2> DEFINE s == at[p]
  <2>1. s \in Slot /\ fec[s] \in Entry
    OBVIOUS
  <2>2. [fec[s] EXCEPT !.seq = FEC_EMPTY] \in Entry
    BY <2>1, Ranges DEF Entry
  <2>3. fec' \in [Slot -> Entry]
    BY <1>8, <2>2 DEF CleanEntry
  <2>4. s + 1 < SEQ_MAP_SIZE => s + 1 \in Slot
    BY <2>1, SeqSpaceAssumption DEF Slot
  <2>5. at' \in [Path -> Slot] /\ pc' \in [Path -> {"recv", "done", "write", "clean"}]
    BY <1>8, <2>4, Ranges DEF CleanEntry
  <2>6. renamed' \subseteq batches
    BY <1>8 DEF CleanEntry
  <2>7. UNCHANGED <<senderVars, net, shard, plen, cleans, fateVars, written, corrupt>>
    BY <1>8 DEF CleanEntry
  <2>8. \A q \in Path : pc'[q] \in {"done", "write"} => pc[q] \in {"done", "write"}
    BY <1>8 DEF CleanEntry
  <2> QED BY <2>3, <2>5, <2>6, <2>7, <2>8 DEF senderVars, fateVars
<1>9. CASE UNCHANGED vars
  BY <1>9 DEF vars, senderVars, workerVars, cleanVars, fateVars
<1> QED BY <1>2, <1>3, <1>4, <1>5, <1>6, <1>7, <1>8, <1>9 DEF Next

\* Every variable of the FEC link keeps its type; an entry never counts more
\* than K shards (fec_recv_done).
THEOREM FecTypeCorrect == Spec => []TypeOK
BY TypeInit, TypeNext, PTL DEF Spec

-----------------------------------------------------------------------------
(* Packets and their entries *)

LEMMA BusyPackets ==
  ASSUME TypeOK, Traffic
  PROVE  /\ Busy \subseteq batches /\ batches \subseteq Pkt /\ batches \subseteq Nat
         /\ \A n : n \in Busy <=> Arriving(n) # {} \/ \E p \in Path : pc[p] \in {"done", "write"} /\ shard[p].n = n
         /\ \A n \in Busy : Arriving(n) # {} \/ Held(n)
         /\ \A n \in Pkt : n \notin Busy => Arriving(n) = {} /\ ~Held(n)
<1>1. batches \subseteq Pkt /\ batches \subseteq Nat
  BY Ranges DEF TypeOK
<1>2. \A n : n \in Busy <=> Arriving(n) # {} \/ \E p \in Path : pc[p] \in {"done", "write"} /\ shard[p].n = n
  BY DEF Busy, Arriving
<1>3. Busy \subseteq batches
  BY <1>2 DEF Traffic, Arriving
<1>4. \A n \in Busy : Arriving(n) # {} \/ Held(n)
  BY <1>2 DEF Traffic, Held
<1>5. \A n \in Pkt : n \notin Busy => Arriving(n) = {} /\ ~Held(n)
  BY <1>2, Ranges DEF Held
<1> QED BY <1>1, <1>2, <1>3, <1>4, <1>5

\* No packet numbered after a busy one meets it in its entry, and no two busy
\* packets meet.
LEMMA Window ==
  ASSUME TypeOK, Traffic, FecWindow, NEW n \in Busy, NEW m \in Nat, m < sent,
         SlotOf(SeqOf(m)) = SlotOf(SeqOf(n))
  PROVE  m <= n
<1>1. n \in Nat /\ sent <= n + SKEW /\ sent \in Nat
  BY BusyPackets, FecAssumption DEF Traffic, TypeOK
<1>2. n < m => n + SEQ_MAP_SIZE <= m
  BY <1>1, SlotDistance
<1> QED BY <1>1, <1>2, FecAssumption, SeqSpaceAssumption DEF FecWindow

LEMMA OneBusy ==
  ASSUME TypeOK, Traffic, FecWindow, NEW n \in Busy, NEW m \in Busy,
         SlotOf(SeqOf(m)) = SlotOf(SeqOf(n))
  PROVE  m = n
<1>1. n \in Nat /\ m \in Nat /\ m < sent /\ n < sent
  BY BusyPackets DEF Traffic
<1> QED BY <1>1, Window

\* The entry of a busy packet that is not stale is its own or has not its number.
LEMMA OwnEntry ==
  ASSUME TypeOK, Traffic, Entries, FecWindow, NEW n \in Busy, ~Stale(n), Ent(n).seq = SeqOf(n)
  PROVE  Mine(n)
<1> DEFINE m == Ent(n).plen
<1>1. n \in Pkt /\ SlotOf(SeqOf(n)) \in Slot
  BY BusyPackets, Ranges
<1>2. m \in batches /\ SeqOf(m) = SeqOf(n)
  BY <1>1 DEF Entries, Ent, Stale
<1>3. m \in Nat /\ m < sent /\ n \in Nat
  BY <1>1, <1>2, BusyPackets, Ranges DEF Traffic
<1> HIDE DEF m
<1>4. m <= n
  BY <1>2, <1>3, Window
<1>5. ~(m < n)
  BY <1>2 DEF Stale
<1>6. m = n
  BY <1>3, <1>4, <1>5
<1> QED BY <1>6 DEF Mine, m

\* The entry of a packet that is not numbered yet has not its number, unless the
\* packet will be stale; and it is not the packet's.
LEMMA FreshEntry ==
  ASSUME TypeOK, Traffic, Entries, NEW n \in Pkt, n >= sent
  PROVE  /\ Ent(n).plen # n
         /\ Ent(n).seq = SeqOf(n) => Stale(n)
<1> DEFINE m == Ent(n).plen
<1>1. SlotOf(SeqOf(n)) \in Slot /\ n \in Nat /\ sent \in Nat
  BY Ranges, FecAssumption DEF TypeOK
<1>2. m \in Pkt => m \in batches /\ m < sent /\ m \in Nat
  BY <1>1, BusyPackets DEF Entries, Ent, Traffic
<1>3. Ent(n).seq = FEC_EMPTY \/ (m \in Pkt /\ Ent(n).seq = SeqOf(m))
  BY <1>1 DEF Entries, Ent
<1> HIDE DEF m
<1>4. m \in Pkt => m < n /\ m # n
  BY <1>1, <1>2
<1>5. m # n
  BY <1>4
<1>6. Ent(n).seq = SeqOf(n) => Stale(n)
  BY <1>2, <1>3, <1>4 DEF Stale
<1> QED BY <1>5, <1>6 DEF m

LEMMA Counts ==
  ASSUME TypeOK
  PROVE  /\ \A s : IsFiniteSet(Cleaning(s)) /\ Cardinality(Cleaning(s)) \in Nat /\ Passed(s) \in Int
         /\ \A s : CleansCounted => Passed(s) >= 0
         /\ IsFiniteSet({p \in Path : pc[p] = "clean"})
         /\ Cardinality({p \in Path : pc[p] = "clean"}) \in Nat
         /\ \A n : HeldCount(n) \in {0, 1} /\ GoodCount(n) \in {0, 1} /\ GoodCount(n) <= HeldCount(n)
         /\ \A n \in Pkt : written[n] \in Nat /\ Collected(n) \in Nat
         /\ \A n : IsFiniteSet(Indices(n)) /\ Cardinality(Indices(n)) \in Nat /\ Indices(n) \subseteq Idx
         /\ cleans \in Nat
<1> DEFINE C == {p \in Path : pc[p] = "clean"}
<1>1. IsFiniteSet(Path)
  BY FecAssumption, FS_Interval DEF Path
<1>2. IsFiniteSet(C) /\ Cardinality(C) \in Nat
  BY <1>1, FS_Subset, FS_CardinalityType
<1>3. ASSUME NEW s
      PROVE  /\ IsFiniteSet(Cleaning(s)) /\ Cardinality(Cleaning(s)) \in Nat
             /\ Cardinality(Cleaning(s)) <= Cardinality(C)
  <2>1. Cleaning(s) \in SUBSET C
    BY DEF Cleaning
  <2> HIDE DEF C
  <2> QED BY <2>1, <1>2, FS_Subset, FS_CardinalityType
<1>4. cleans \in Nat
  BY FecAssumption DEF TypeOK
<1>5. \A s : Passed(s) \in Int /\ (Cardinality(C) <= cleans => Passed(s) >= 0)
  BY <1>2, <1>3, <1>4 DEF Passed
<1>6. \A n : HeldCount(n) \in {0, 1} /\ GoodCount(n) \in {0, 1} /\ GoodCount(n) <= HeldCount(n)
  BY DEF HeldCount, GoodCount
<1>7. ASSUME NEW n \in Pkt PROVE written[n] \in Nat /\ Collected(n) \in Nat
  <2>1. Ent(n) \in Entry
    BY Ranges DEF Ent, TypeOK
  <2>2. Ent(n).cnt \in Nat
    BY <2>1, FecAssumption DEF Entry
  <2> QED BY <2>2 DEF Collected, TypeOK
<1>8. ASSUME NEW n PROVE IsFiniteSet(Indices(n)) /\ Cardinality(Indices(n)) \in Nat /\ Indices(n) \subseteq Idx
  <2>1. Indices(n) \in SUBSET Idx
    BY DEF Indices, Arriving, TypeOK, Shard
  <2> QED BY <2>1, Indexes, FS_Subset, FS_CardinalityType
<1> QED BY <1>2, <1>3, <1>4, <1>5, <1>6, <1>7, <1>8 DEF CleansCounted

\* A step that touches nothing of a packet.
LEMMA Untouched ==
  ASSUME NEW n \in Pkt, PacketInv(n),
         Ent(n)' = Ent(n), Arriving(n)' = Arriving(n), Held(n)' <=> Held(n), written'[n] = written[n],
         Passed(SlotOf(SeqOf(n)))' = Passed(SlotOf(SeqOf(n))), sender' = sender,
         n \in batches' <=> n \in batches, n \in renamed => n \in renamed',
         n \in repeated' <=> n \in repeated, n \in short' <=> n \in short,
         n \in doomed' <=> n \in doomed, Stale(n) => Stale(n)'
  PROVE  PacketInv(n)'
<1>1. Indices(n)' = Indices(n)
  BY DEF Indices
<1>2. (Final(n)' <=> Final(n)) /\ (Mine(n)' <=> Mine(n)) /\ Collected(n)' = Collected(n)
  BY DEF Final, Mine, Closed, Collected
<1>3. HeldCount(n)' = HeldCount(n) /\ GoodCount(n)' = GoodCount(n)
  BY DEF HeldCount, GoodCount
<1>4. Unmarked(Ent(n))' = Unmarked(Ent(n)) /\ (Closed(Ent(n))' <=> Closed(Ent(n)))
  BY DEF Unmarked, Closed
<1>5. SentShards' = SentShards
  BY DEF SentShards
<1> USE DEF PacketInv
<1>6. Right(n)'
  BY <1>2, <1>4 DEF Right
<1>7. OncePerClean(n)' /\ OnceUnlessRenamed(n)'
  BY <1>2, <1>3 DEF OncePerClean, OnceUnlessRenamed
<1>8. OnceUnlessRepeated(n)' /\ CountedOnce(n)'
  BY <1>1, <1>2, <1>3, <1>4 DEF OnceUnlessRepeated, CountedOnce
<1>9. OnItsWay(n)' /\ ShortIsDoomed(n)' /\ WrittenWasSent(n)'
  BY <1>1, <1>2, <1>5 DEF OnItsWay, ShortIsDoomed, WrittenWasSent
<1> QED BY <1>6, <1>7, <1>8, <1>9

\* A step of another packet in the entry of one nothing is left to be done for.
LEMMA Settled ==
  ASSUME TypeOK, TypeOK', NEW n \in Pkt, PacketInv(n),
         Arriving(n) = {}, ~Held(n), Arriving(n)' = {}, ~Held(n)', written'[n] = written[n],
         Passed(SlotOf(SeqOf(n)))' = Passed(SlotOf(SeqOf(n))),
         UNCHANGED <<sender, batches, renamed, repeated, short, doomed>>
  PROVE  PacketInv(n)'
<1>1. HeldCount(n) = 0 /\ HeldCount(n)' = 0 /\ GoodCount(n) = 0 /\ GoodCount(n)' = 0
  BY DEF HeldCount, GoodCount
<1>2. Stale(n)' <=> Stale(n)
  BY DEF Stale
<1>3. SentShards' = SentShards
  BY DEF SentShards
<1> USE DEF PacketInv
<1>6. Right(n)'
  BY DEF Right
<1>7. OncePerClean(n)' /\ OnceUnlessRenamed(n)'
  BY <1>1 DEF OncePerClean, OnceUnlessRenamed
<1>8. OnceUnlessRepeated(n)' /\ CountedOnce(n)'
  BY <1>1 DEF OnceUnlessRepeated, CountedOnce
<1>9. OnItsWay(n)' /\ ShortIsDoomed(n)' /\ WrittenWasSent(n)'
  BY <1>2, <1>3 DEF OnItsWay, ShortIsDoomed, WrittenWasSent
<1> QED BY <1>6, <1>7, <1>8, <1>9

LEMMA InvInit == Init => IInv
<1> SUFFICES ASSUME Init PROVE IInv
  OBVIOUS
<1>1. TypeOK
  BY TypeInit
<1>2. SeqOf(0) = 0
  BY SeqTypes DEF SeqOf
<1>3. /\ batches = {} /\ net = {} /\ sent = 0 /\ sequence = 0 /\ corrupt = {} /\ cleans = 0
      /\ doomed = {} /\ short = {} /\ repeated = {} /\ renamed = {}
      /\ \A p \in Path : pc[p] = "recv"
      /\ \A n \in Pkt : written[n] = 0
      /\ \A s \in Slot : fec[s].seq = FEC_EMPTY /\ fec[s].plen = Blank
  BY DEF Init
<1>4. Traffic
  BY <1>2, <1>3 DEF Traffic, Busy
<1>5. Entries /\ Lengths /\ CorruptionExplained
  BY <1>3, BlankAssumption DEF Entries, Lengths, CorruptionExplained
<1>6. CleansCounted
  <2>1. {p \in Path : pc[p] = "clean"} = {}
    BY <1>3
  <2> QED BY <2>1, <1>3, FS_EmptySet DEF CleansCounted
<1>7. ASSUME NEW n \in Pkt PROVE PacketInv(n)
  <2>1. Arriving(n) = {} /\ ~Held(n) /\ HeldCount(n) = 0 /\ GoodCount(n) = 0
    BY <1>3, Ranges DEF Arriving, Held, HeldCount, GoodCount
  <2>2. Passed(SlotOf(SeqOf(n))) \in Int /\ Passed(SlotOf(SeqOf(n))) >= 0
    BY <1>1, <1>6, Counts
  <2> QED BY <1>3, <2>1, <2>2
    DEF PacketInv, Right, OncePerClean, OnceUnlessRenamed, OnceUnlessRepeated, CountedOnce,
        OnItsWay, ShortIsDoomed, WrittenWasSent
<1> QED BY <1>1, <1>4, <1>5, <1>6, <1>7 DEF IInv

-----------------------------------------------------------------------------
(* The sender's steps *)

\* Numbering a packet.
LEMMA NumberStep ==
  ASSUME IInv, Number
  PROVE  /\ sent \in Pkt /\ sent \in Nat /\ sent' = sent + 1 /\ sequence' = SeqOf(sent + 1)
         /\ \A n \in Busy : sent + 1 <= n + SKEW
         /\ sent \notin batches /\ Arriving(sent) = {} /\ ~Held(sent)
         /\ UNCHANGED <<sender, at, cleans, renamed>>
<1>1. sent \in Pkt /\ sent \in Nat /\ sent' = sent + 1
  BY FecAssumption DEF Number, Pkt, IInv, TypeOK
<1>2. sequence' = SeqOf(sent + 1)
  BY <1>1, SeqSuccessor DEF Number, IInv, Traffic
<1>3. \A n \in Busy : sent + 1 <= n + SKEW
  <2>1. \A n \in Busy : n \in Nat
    BY BusyPackets DEF IInv
  <2> QED BY <2>1, <1>1, FecAssumption DEF Number
<1>4. sent \notin batches
  BY <1>1 DEF IInv, Traffic
<1>5. Arriving(sent) = {} /\ ~Held(sent)
  BY <1>1, <1>4, BusyPackets DEF IInv
<1> QED BY <1>1, <1>2, <1>3, <1>4, <1>5 DEF Number, cleanVars

LEMMA SendWholeStep ==
  ASSUME IInv, SendWhole, TypeOK'
  PROVE  IInv'
<1>1. /\ UNCHANGED <<batches, net, pc, shard, plen, fec, doomed, short, repeated, written, corrupt>>
      /\ Number
  BY DEF SendWhole, workerVars, fateVars
<1>2. UNCHANGED <<sender, at, cleans, renamed>> /\ sent' = sent + 1 /\ sequence' = SeqOf(sent + 1)
  BY <1>1, NumberStep
<1>3. Busy' = Busy
  BY <1>1 DEF Busy
<1>4. \A n : /\ Ent(n)' = Ent(n) /\ Arriving(n)' = Arriving(n) /\ (Held(n)' <=> Held(n))
             /\ (Stale(n)' <=> Stale(n))
  BY <1>1 DEF Ent, Arriving, Held, Stale
<1>5. \A s : Passed(s)' = Passed(s)
  BY <1>1, <1>2 DEF Passed, Cleaning
<1>6. Traffic'
  <2>1. \A n \in batches' : n < sent'
    BY <1>1, <1>2, BusyPackets, NumberStep DEF IInv, Traffic
  <2>2. \A n \in Busy' : sent' <= n + SKEW
    BY <1>1, <1>2, <1>3, NumberStep
  <2> QED BY <1>1, <1>2, <2>1, <2>2 DEF IInv, Traffic
<1>7. Entries' /\ Lengths' /\ CleansCounted' /\ CorruptionExplained'
  BY <1>1, <1>2, <1>4 DEF IInv, Entries, Lengths, CleansCounted, CorruptionExplained
<1>8. ASSUME NEW n \in Pkt PROVE PacketInv(n)'
  <2>1. PacketInv(n)
    BY DEF IInv
  <2> QED BY <1>1, <1>2, <1>4, <1>5, <2>1, Untouched
<1> QED BY <1>6, <1>7, <1>8 DEF IInv

\* What a batch leaves in the network.
LEMMA BatchSent ==
  ASSUME IInv, SendBatch
  PROVE  /\ Number /\ batches' = batches \cup {sent}
         /\ UNCHANGED <<pc, shard, plen, fec, written, corrupt>>
         /\ \E S \in SUBSET SentShards :
              /\ \A c \in net : c \in net'
              /\ \A c \in net' \ net : /\ c.n = sent /\ c.seq = SeqOf(sent) /\ c.path = PathOf(sent)
                                       /\ c.idx \in S /\ (c.again => sent \in repeated')
              /\ \A i \in S : \E c \in net' : c.n = sent /\ c.idx = i
              /\ repeated' \in {repeated, repeated \cup {sent}}
              /\ doomed' \in {doomed, doomed \cup {sent}}
              /\ Cardinality(SentShards \ S) > N => sent \in doomed'
              /\ short' = IF Cardinality(S) < K THEN short \cup {sent} ELSE short
<1> DEFINE A(i, again) == [n |-> sent, idx |-> i, seq |-> sequence, path |-> sequence' % Workers, again |-> again]
<1>1. Number /\ batches' = batches \cup {sent} /\ UNCHANGED <<pc, shard, plen, fec, written, corrupt>>
  BY DEF SendBatch, workerVars
<1>2. PICK S \in SUBSET SentShards, R \in SUBSET SentShards :
        /\ R \subseteq S
        /\ net' = net \cup {A(i, FALSE) : i \in S} \cup {A(i, TRUE) : i \in R}
        /\ repeated' = IF R = {} THEN repeated ELSE repeated \cup {sent}
        /\ doomed' = IF Cardinality(SentShards \ S) > N THEN doomed \cup {sent} ELSE doomed
        /\ short' = IF Cardinality(S) < K THEN short \cup {sent} ELSE short
  BY DEF SendBatch
<1>3. sequence = SeqOf(sent) /\ sequence' % Workers = PathOf(sent)
  BY <1>1, NumberStep DEF PathOf, IInv, Traffic
<1>4. ASSUME NEW c \in net' \ net
      PROVE  /\ c.n = sent /\ c.seq = SeqOf(sent) /\ c.path = PathOf(sent)
             /\ c.idx \in S /\ (c.again => sent \in repeated')
  <2>1. (\E i \in S : c = A(i, FALSE)) \/ (\E i \in R : c = A(i, TRUE))
    BY <1>2
  <2> QED BY <2>1, <1>2, <1>3
<1>5. ASSUME NEW i \in S PROVE \E c \in net' : c.n = sent /\ c.idx = i
  <2>1. A(i, FALSE) \in net' /\ A(i, FALSE).n = sent /\ A(i, FALSE).idx = i
    BY <1>2
  <2> QED BY <2>1
<1> QED BY <1>1, <1>2, <1>4, <1>5

LEMMA SendBatchStep ==
  ASSUME IInv, SendBatch, TypeOK'
  PROVE  IInv'
<1>1. /\ Number /\ batches' = batches \cup {sent}
      /\ UNCHANGED <<pc, shard, plen, fec, written, corrupt>>
  BY BatchSent
<1>2. PICK S \in SUBSET SentShards :
              /\ \A c \in net : c \in net'
              /\ \A c \in net' \ net : /\ c.n = sent /\ c.seq = SeqOf(sent) /\ c.path = PathOf(sent)
                                       /\ c.idx \in S /\ (c.again => sent \in repeated')
              /\ \A i \in S : \E c \in net' : c.n = sent /\ c.idx = i
              /\ repeated' \in {repeated, repeated \cup {sent}}
              /\ doomed' \in {doomed, doomed \cup {sent}}
              /\ Cardinality(SentShards \ S) > N => sent \in doomed'
              /\ short' = IF Cardinality(S) < K THEN short \cup {sent} ELSE short
  BY BatchSent
<1>3. /\ sent \in Pkt /\ sent \in Nat /\ sent' = sent + 1 /\ sequence' = SeqOf(sent + 1)
      /\ \A n \in Busy : sent + 1 <= n + SKEW
      /\ sent \notin batches /\ Arriving(sent) = {} /\ ~Held(sent)
      /\ UNCHANGED <<sender, at, cleans, renamed>>
  BY <1>1, NumberStep
<1>t. TypeOK /\ Traffic /\ Entries /\ Lengths /\ CleansCounted /\ \A n \in Pkt : PacketInv(n)
  BY DEF IInv
<1>4. \A n : /\ Ent(n)' = Ent(n) /\ (Held(n)' <=> Held(n)) /\ (Stale(n) => Stale(n)')
             /\ n # sent => Arriving(n)' = Arriving(n)
  BY <1>1, <1>2 DEF Ent, Arriving, Held, Stale
<1>5. \A s : Passed(s)' = Passed(s)
  BY <1>1, <1>3 DEF Passed, Cleaning
<1>n. PICK n0 \in Pkt : n0 = sent
  BY <1>3
<1>6. Indices(n0)' = S
  <2>1. \A c \in Arriving(n0)' : c.idx \in S
    <3>1. \A c \in net : c.n # n0
      BY <1>3, <1>n DEF Arriving
    <3> QED BY <3>1, <1>2, <1>n DEF Arriving
  <2>2. \A i \in S : \E c \in Arriving(n0)' : c.idx = i
    BY <1>2, <1>n DEF Arriving
  <2> QED BY <2>1, <2>2 DEF Indices
<1>7. Traffic'
  <2>1. \A n \in batches' : n < sent'
    BY <1>1, <1>3, <1>t, BusyPackets DEF Traffic
  <2>2. \A n \in Busy' : n \in Busy \/ n = sent
    BY <1>1, <1>2 DEF Busy
  <2>3. sent' <= sent + SKEW
    BY <1>3, FecAssumption
  <2>4. \A n \in Busy' : sent' <= n + SKEW
    BY <2>2, <2>3, <1>3
  <2>5. \A c \in net' : /\ c.n \in batches' /\ c.seq = SeqOf(c.n) /\ c.path = PathOf(c.n)
                        /\ c.again => c.n \in repeated'
    <3> SUFFICES ASSUME NEW c \in net'
                 PROVE  /\ c.n \in batches' /\ c.seq = SeqOf(c.n) /\ c.path = PathOf(c.n)
                        /\ c.again => c.n \in repeated'
      OBVIOUS
    <3>1. CASE c \in net
      BY <3>1, <1>t, <1>1, <1>2 DEF Traffic
    <3>2. CASE c \notin net
      BY <3>2, <1>1, <1>2
    <3> QED BY <3>1, <3>2
  <2>6. sequence' = SeqOf(sent')
    BY <1>3
  <2>7. \A p \in Path : pc'[p] \in {"done", "write"} =>
           shard'[p].n \in batches' /\ shard'[p].seq = SeqOf(shard'[p].n) /\ p = PathOf(shard'[p].n)
    BY <1>1, <1>t DEF Traffic
  <2> QED BY <2>1, <2>4, <2>5, <2>6, <2>7 DEF Traffic
<1>8. Entries' /\ Lengths' /\ CleansCounted' /\ CorruptionExplained'
  <2>1. Entries'
    BY <1>1, <1>t DEF Entries
  <2>2. Lengths' /\ CleansCounted'
    BY <1>1, <1>3, <1>4, <1>t DEF Lengths, CleansCounted
  <2>3. CorruptionExplained'
    BY <1>1, <1>4 DEF IInv, CorruptionExplained
  <2> QED BY <2>1, <2>2, <2>3
<1>9. ASSUME NEW n \in Pkt, n # sent PROVE PacketInv(n)'
  <2>1. n \in batches' <=> n \in batches
    BY <1>1, <1>9
  <2>2. n \in repeated' <=> n \in repeated
    BY <1>2, <1>9
  <2>3. (n \in short' <=> n \in short) /\ (n \in doomed' <=> n \in doomed)
    BY <1>2, <1>9
  <2>4. PacketInv(n)
    BY <1>t
  <2> QED BY <2>1, <2>2, <2>3, <2>4, <1>1, <1>3, <1>4, <1>5, <1>9, Untouched
<1>10. PacketInv(n0)'
  <2>f. Ent(n0).plen # n0 /\ (Ent(n0).seq = SeqOf(n0) => Stale(n0))
    BY <1>t, <1>3, <1>n, FreshEntry
  <2>1. ~Mine(n0)' /\ Collected(n0)' = 0 /\ (Final(n0)' => Stale(n0)')
    BY <2>f, <1>4 DEF Mine, Collected, Final
  <2>2. written'[n0] = 0
    BY <1>1, <1>3, <1>n, <1>t DEF PacketInv, WrittenWasSent
  <2>3. ~Held(n0)' /\ HeldCount(n0)' = 0 /\ GoodCount(n0)' = 0
    BY <1>3, <1>4, <1>n DEF HeldCount, GoodCount
  <2>4. Passed(SlotOf(SeqOf(n0)))' \in Int /\ Passed(SlotOf(SeqOf(n0)))' >= 0
    BY <1>5, <1>t, Counts
  <2>5. IsFiniteSet(S) /\ Cardinality(S) \in Nat /\ Cardinality(S) <= K + N
    <3>1. S \in SUBSET Idx
      BY DEF SentShards
    <3>2. IsFiniteSet(S) /\ Cardinality(S) <= Cardinality(Idx)
      BY <3>1, Indexes, FS_Subset
    <3>3. Cardinality(S) \in Nat
      BY <3>2, FS_CardinalityType
    <3> QED BY <3>2, <3>3, Indexes
  <2>6. Right(n0)' /\ CountedOnce(n0)' /\ WrittenWasSent(n0)'
    BY <2>1, <2>2, <2>3 DEF Right, CountedOnce, WrittenWasSent
  <2>7. OncePerClean(n0)' /\ OnceUnlessRenamed(n0)'
    BY <2>2, <2>3, <2>4 DEF OncePerClean, OnceUnlessRenamed
  <2>8. OnceUnlessRepeated(n0)'
    BY <2>1, <2>2, <2>3, <2>5, <1>6 DEF OnceUnlessRepeated
  <2>9. OnItsWay(n0)'
    <3> SUFFICES ASSUME n0 \notin short', ~Stale(n0)'
                 PROVE  Arriving(n0)' # {} /\ ~Final(n0)' /\ Collected(n0)' + Cardinality(Indices(n0)') >= K
      BY DEF OnItsWay
    <3>1. Cardinality(S) >= K
      BY <1>2, <1>n, <2>5, Indexes
    <3>2. S # {}
      <4> SUFFICES ASSUME S = {} PROVE FALSE
        OBVIOUS
      <4>1. Cardinality(S) = 0
        BY FS_EmptySet
      <4>2. K \in Nat /\ K > 0
        BY Indexes
      <4> QED BY <3>1, <4>1, <4>2
    <3>3. Arriving(n0)' # {}
      BY <3>2, <1>2, <1>n DEF Arriving
    <3> QED BY <3>1, <3>3, <2>1, <2>5, <1>6
  <2>10. ShortIsDoomed(n0)'
    <3> SUFFICES ASSUME SentShards = Idx, n0 \in short' PROVE n0 \in doomed'
      BY <1>3, <1>n DEF ShortIsDoomed, SentShards
    <3>1. n0 \notin short
      BY <1>t, <1>3, <1>n DEF TypeOK
    <3>2. Cardinality(S) < K
      BY <3>1, <1>2, <1>n
    <3>3. Cardinality(Idx \ S) = Cardinality(Idx) - Cardinality(Idx \cap S)
      BY Indexes, FS_Difference
    <3>4. Idx \cap S = S
      BY DEF SentShards
    <3>5. Cardinality(Idx \ S) = Cardinality(Idx) - Cardinality(S)
      BY <3>3, <3>4, Zenon
    <3>6. Cardinality(Idx) = K + N /\ K \in Nat /\ N \in Nat
      BY Indexes
    <3>7. Cardinality(S) \in Nat
      BY <2>5
    <3>8. Cardinality(Idx \ S) > N
      BY <3>2, <3>5, <3>6, <3>7
    <3>9. Cardinality(SentShards \ S) > N
      BY <3>8
    <3> QED BY <3>9, <1>2, <1>n
  <2> QED BY <2>6, <2>7, <2>8, <2>9, <2>10 DEF PacketInv
<1>11. ASSUME NEW n \in Pkt PROVE PacketInv(n)'
  BY <1>9, <1>10, <1>n
<1> QED BY <1>7, <1>8, <1>11 DEF IInv

-----------------------------------------------------------------------------
(* A thread after the unlock, and the cleans *)

LEMMA ReadLenStep ==
  ASSUME IInv, NEW p \in Path, ReadLen(p), TypeOK'
  PROVE  IInv'
<1>t. TypeOK /\ Traffic /\ Entries /\ Lengths /\ CleansCounted /\ \A n \in Pkt : PacketInv(n)
  BY DEF IInv
<1>1. /\ pc[p] = "done" /\ pc' = [pc EXCEPT ![p] = "write"]
      /\ plen' = [plen EXCEPT ![p] = fec[SlotOf(shard[p].seq)].plen]
      /\ UNCHANGED <<sender, sequence, sent, batches, net, shard, fec, at, cleans, renamed,
                     doomed, short, repeated, written, corrupt>>
  BY DEF ReadLen, senderVars, cleanVars, fateVars
<1>2. \A q \in Path : /\ pc'[q] \in {"done", "write"} <=> pc[q] \in {"done", "write"}
                      /\ pc'[q] = "clean" <=> pc[q] = "clean"
  BY <1>1, <1>t DEF TypeOK
<1>3. \A n \in Pkt : /\ Ent(n)' = Ent(n) /\ Arriving(n)' = Arriving(n) /\ (Held(n)' <=> Held(n))
                     /\ (Stale(n)' <=> Stale(n))
  BY <1>1, <1>2, Ranges DEF Ent, Arriving, Held, Stale
<1>4. \A s : Passed(s)' = Passed(s)
  BY <1>1, <1>2 DEF Passed, Cleaning
<1>5. Busy' = Busy
  BY <1>1, <1>2 DEF Busy
<1>6. Traffic' /\ Entries' /\ CleansCounted'
  <2>1. Traffic'
    BY <1>1, <1>2, <1>5, <1>t DEF Traffic
  <2>2. {q \in Path : pc'[q] = "clean"} = {q \in Path : pc[q] = "clean"}
    BY <1>2
  <2> QED BY <2>1, <2>2, <1>1, <1>t DEF Entries, CleansCounted
<1>7. Lengths'
  <2> SUFFICES ASSUME NEW q \in Path, pc'[q] = "write" PROVE plen'[q] = Ent(shard[q].n)'.plen
    BY <1>1 DEF Lengths, Ent
  <2>1. CASE q = p
    <3>1. shard[p].seq = SeqOf(shard[p].n)
      BY <1>1, <1>t DEF Traffic
    <3> QED BY <2>1, <3>1, <1>1, <1>t DEF Ent, TypeOK
  <2>2. CASE q # p
    <3>1. pc[q] = "write" /\ plen'[q] = plen[q]
      BY <2>2, <1>1, <1>t DEF TypeOK
    <3> QED BY <3>1, <1>1, <1>t DEF Lengths, Ent
  <2> QED BY <2>1, <2>2
<1>8. ASSUME NEW n \in Pkt PROVE PacketInv(n)'
  <2>1. PacketInv(n)
    BY <1>t
  <2> QED BY <1>1, <1>3, <1>4, <2>1, Untouched
<1>9. CorruptionExplained'
  BY <1>1 DEF IInv, CorruptionExplained, Stale
<1> QED BY <1>6, <1>7, <1>8, <1>9 DEF IInv

LEMMA WriteTunStep ==
  ASSUME IInv, NEW p \in Path, WriteTun(p), TypeOK'
  PROVE  IInv'
<1>t. TypeOK /\ Traffic /\ Entries /\ Lengths /\ CleansCounted /\ \A n \in Pkt : PacketInv(n)
  BY DEF IInv
<1>1. /\ pc[p] = "write" /\ Done(p)
      /\ UNCHANGED <<sender, sequence, sent, batches, net, fec, at, cleans, renamed,
                     doomed, short, repeated>>
  BY DEF WriteTun, senderVars, cleanVars, fateVars
<1>2. PICK n0 \in Pkt : /\ n0 = shard[p].n /\ n0 \in batches
                        /\ shard[p].seq = SeqOf(n0) /\ p = PathOf(n0)
  <2>1. batches \subseteq Pkt
    BY <1>t, BusyPackets
  <2>2. \A q \in Path : pc[q] \in {"done", "write"} =>
          shard[q].n \in batches /\ shard[q].seq = SeqOf(shard[q].n) /\ q = PathOf(shard[q].n)
    BY <1>t DEF Traffic
  <2>3. pc[p] = "write"
    BY <1>1
  <2> QED BY <2>1, <2>2, <2>3
<1> DEFINE whole == plen[p] = n0 /\ \A i \in Data : Ent(n0).buf[i] = <<n0, i>>
<1>w. \/ whole /\ written' = [written EXCEPT ![n0] = @ + 1] /\ UNCHANGED corrupt
      \/ ~whole /\ corrupt' = corrupt \cup {n0} /\ UNCHANGED written
  BY <1>2 DEF WriteTun, Ent
<1>3. /\ pc' = [pc EXCEPT ![p] = "recv"]
      /\ \A q \in Path : q # p => pc'[q] = pc[q] /\ shard'[q] = shard[q] /\ plen'[q] = plen[q]
  BY <1>1, <1>t DEF Done, TypeOK
<1>4. \A q \in Path : (pc'[q] \in {"done", "write"} => q # p) /\ (pc'[q] = "clean" <=> pc[q] = "clean")
  BY <1>1, <1>3, <1>t DEF TypeOK
<1>5. \A m \in Pkt : Ent(m)' = Ent(m) /\ Arriving(m)' = Arriving(m) /\ (Stale(m)' <=> Stale(m))
  BY <1>1 DEF Ent, Arriving, Stale
<1>6. \A m \in Pkt : m # n0 => (Held(m)' <=> Held(m))
  <2> SUFFICES ASSUME NEW m \in Pkt, m # n0 PROVE Held(m)' <=> Held(m)
    OBVIOUS
  <2>1. PathOf(m) \in Path /\ PathOf(m)' = PathOf(m)
    BY Ranges DEF PathOf
  <2>2. CASE PathOf(m) = p
    BY <2>1, <2>2, <1>2, <1>3, <1>4 DEF Held
  <2>3. CASE PathOf(m) # p
    BY <2>1, <2>3, <1>3 DEF Held
  <2> QED BY <2>2, <2>3
<1>7. Held(n0) /\ ~Held(n0)'
  BY <1>1, <1>2, <1>3, <1>t DEF Held, TypeOK
<1>8. \A s : Passed(s)' = Passed(s)
  BY <1>1, <1>4 DEF Passed, Cleaning
<1>9. Traffic' /\ Entries' /\ CleansCounted' /\ Lengths'
  <2>1. \A m : m \in Busy' => m \in Busy
    <3>1. \A q \in Path : pc'[q] \in {"done", "write"} =>
             pc[q] \in {"done", "write"} /\ shard'[q] = shard[q]
      BY <1>3, <1>4
    <3>2. \A m : m \in Busy' =>
             \/ \E c \in net : m = c.n
             \/ \E q \in Path : pc'[q] \in {"done", "write"} /\ m = shard'[q].n
      BY <1>1 DEF Busy
    <3>3. \A m : /\ (\E c \in net : m = c.n) => m \in Busy
                 /\ (\E q \in Path : pc[q] \in {"done", "write"} /\ m = shard[q].n) => m \in Busy
      BY DEF Busy
    <3> QED BY <3>1, <3>2, <3>3
  <2>2. \A q \in Path : pc'[q] \in {"done", "write"} =>
          shard'[q].n \in batches /\ shard'[q].seq = SeqOf(shard'[q].n) /\ q = PathOf(shard'[q].n)
    BY <1>3, <1>4, <1>t DEF Traffic
  <2>3. Traffic'
    BY <2>1, <2>2, <1>1, <1>t DEF Traffic, PathOf
  <2>4. {q \in Path : pc'[q] = "clean"} = {q \in Path : pc[q] = "clean"}
    BY <1>4
  <2>5. Lengths'
    BY <1>1, <1>3, <1>4, <1>t DEF Lengths, Ent
  <2> QED BY <2>3, <2>4, <2>5, <1>1, <1>t DEF Entries, CleansCounted
<1>10. ASSUME NEW m \in Pkt, m # n0 PROVE PacketInv(m)'
  <2>1. PacketInv(m) /\ written'[m] = written[m]
    BY <1>w, <1>10, <1>t DEF TypeOK
  <2>2. UNCHANGED <<sender, batches, renamed, repeated, short, doomed>>
    BY <1>1
  <2>3. /\ Ent(m)' = Ent(m) /\ Arriving(m)' = Arriving(m) /\ (Stale(m)' <=> Stale(m))
        /\ (Held(m)' <=> Held(m)) /\ Passed(SlotOf(SeqOf(m)))' = Passed(SlotOf(SeqOf(m)))
    BY <1>5, <1>6, <1>8, <1>10
  <2> QED BY <2>1, <2>2, <2>3, Untouched, SMTT(30)
<1>11. PacketInv(n0)
  BY <1>t
<1>12. whole => Ent(n0).plen = n0
  BY <1>1, <1>2, <1>t DEF Lengths
<1>13. ~Stale(n0) => whole
  <2>1. ~Stale(n0) => Ent(n0).plen = n0 /\ \A i \in Data : Ent(n0).buf[i] = <<n0, i>>
    BY <1>7, <1>11 DEF PacketInv, Right
  <2>2. plen[p] = Ent(n0).plen
    BY <1>1, <1>2, <1>t DEF Lengths
  <2> QED BY <2>1, <2>2
<1> HIDE DEF whole
<1>14. CorruptionExplained'
  BY <1>1, <1>2, <1>w, <1>5, <1>13 DEF IInv, CorruptionExplained, Stale
<1>15. PacketInv(n0)'
  <2>1. /\ HeldCount(n0) = 1 /\ HeldCount(n0)' = 0 /\ GoodCount(n0)' = 0
        /\ GoodCount(n0) = IF Ent(n0).plen = n0 THEN 1 ELSE 0
    BY <1>7 DEF HeldCount, GoodCount
  <2>2. /\ whole => written'[n0] = written[n0] + 1
        /\ ~whole => written'[n0] = written[n0]
        /\ written[n0] \in Nat
    BY <1>w, <1>t DEF TypeOK
  <2>3. /\ Indices(n0)' = Indices(n0) /\ (Final(n0)' <=> Final(n0)) /\ (Mine(n0)' <=> Mine(n0))
        /\ Collected(n0)' = Collected(n0)
        /\ Unmarked(Ent(n0))' = Unmarked(Ent(n0)) /\ (Closed(Ent(n0))' <=> Closed(Ent(n0)))
    BY <1>5 DEF Indices, Final, Mine, Collected, Closed, Unmarked
  <2>4. written'[n0] + HeldCount(n0)' <= written[n0] + HeldCount(n0)
    BY <2>1, <2>2
  <2>5. Passed(SlotOf(SeqOf(n0)))' = Passed(SlotOf(SeqOf(n0))) /\ Passed(SlotOf(SeqOf(n0))) \in Int
    BY <1>8, <1>t, Counts
  <2>6. written'[n0] + HeldCount(n0)' \in Nat /\ written[n0] + HeldCount(n0) \in Nat
    BY <2>1, <2>2
  <2>7. Right(n0)'
    BY <1>5, <1>7, <1>11, <2>3 DEF PacketInv, Right
  <2>8. OncePerClean(n0)'
    <3>1. OncePerClean(n0)
      BY <1>11 DEF PacketInv
    <3> QED BY <3>1, <1>5, <2>3, <2>4, <2>5, <2>6 DEF OncePerClean
  <2>9. OnceUnlessRenamed(n0)'
    <3>1. OnceUnlessRenamed(n0)
      BY <1>11 DEF PacketInv
    <3> QED BY <3>1, <1>1, <1>5, <2>3, <2>4, <2>6 DEF OnceUnlessRenamed
  <2>10. OnceUnlessRepeated(n0)'
    <3> SUFFICES ASSUME N < K, n0 \notin repeated PROVE OnceUnlessRepeated(n0)'
      BY <1>1 DEF OnceUnlessRepeated
    <3>1. /\ written[n0] + GoodCount(n0) <= 1
          /\ Arriving(n0) # {} =>
              Collected(n0) + Cardinality(Indices(n0))
                <= IF written[n0] + GoodCount(n0) = 0 THEN K + N ELSE N
      BY <1>11 DEF PacketInv, OnceUnlessRepeated
    <3>2. Collected(n0) \in Nat /\ Cardinality(Indices(n0)) \in Nat
      BY <1>t, Counts
    <3>3. \/ written'[n0] + GoodCount(n0)' = written[n0] + GoodCount(n0)
          \/ written'[n0] + GoodCount(n0)' = 0
      BY <1>12, <2>1, <2>2, <3>1
    <3>4. CASE written'[n0] + GoodCount(n0)' = written[n0] + GoodCount(n0)
      BY <3>1, <3>4, <1>5, <2>3 DEF OnceUnlessRepeated
    <3>5. CASE written'[n0] + GoodCount(n0)' = 0
      BY <3>1, <3>2, <3>5, <1>5, <2>3, Indexes DEF OnceUnlessRepeated
    <3> QED BY <3>3, <3>4, <3>5
  <2>11. CountedOnce(n0)'
    BY <1>1, <1>5, <1>11, <2>3 DEF PacketInv, CountedOnce
  <2>12. OnItsWay(n0)'
    <3>1. ~Stale(n0)' => written'[n0] > 0
      BY <1>5, <1>13, <2>2
    <3> QED BY <3>1 DEF OnItsWay
  <2>13. ShortIsDoomed(n0)' /\ WrittenWasSent(n0)'
    <3>1. UNCHANGED <<sender, batches, short, doomed>>
      BY <1>1
    <3>2. ShortIsDoomed(n0)'
      BY <3>1, <1>11 DEF PacketInv, ShortIsDoomed, SentShards
    <3> QED BY <3>1, <3>2, <1>2 DEF WrittenWasSent
  <2> QED BY <2>7, <2>8, <2>9, <2>10, <2>11, <2>12, <2>13 DEF PacketInv
<1>16. ASSUME NEW m \in Pkt PROVE PacketInv(m)'
  BY <1>10, <1>15
<1> QED BY <1>9, <1>14, <1>16, SMTT(30) DEF IInv

LEMMA StartCleanStep ==
  ASSUME IInv, NEW p \in Path, StartClean(p), TypeOK'
  PROVE  IInv'
<1>t. TypeOK /\ Traffic /\ Entries /\ Lengths /\ CleansCounted /\ \A n \in Pkt : PacketInv(n)
  BY DEF IInv
<1>1. /\ pc[p] = "recv" /\ pc' = [pc EXCEPT ![p] = "clean"]
      /\ at' = [at EXCEPT ![p] = 0] /\ cleans' = cleans + 1
      /\ UNCHANGED <<sender, sequence, sent, batches, net, shard, plen, fec, renamed,
                     doomed, short, repeated, written, corrupt>>
  BY DEF StartClean, senderVars, fateVars
<1>2. \A q \in Path : /\ pc'[q] \in {"done", "write"} <=> pc[q] \in {"done", "write"}
                      /\ pc'[q] = "write" <=> pc[q] = "write"
                      /\ pc'[q] = "clean" <=> pc[q] = "clean" \/ q = p
                      /\ q # p => at'[q] = at[q]
  BY <1>1, <1>t DEF TypeOK
<1>3. \A n \in Pkt : /\ Ent(n)' = Ent(n) /\ Arriving(n)' = Arriving(n) /\ (Held(n)' <=> Held(n))
                     /\ (Stale(n)' <=> Stale(n))
  BY <1>1, <1>2, Ranges DEF Ent, Arriving, Held, Stale
<1>4. cleans \in Nat /\ at'[p] = 0
  BY <1>1, <1>t, Counts DEF TypeOK
<1>5. ASSUME NEW s \in Slot PROVE Passed(s)' = Passed(s)
  <2>1. s >= 0
    BY SeqSpaceAssumption DEF Slot
  <2>2. Cleaning(s)' = Cleaning(s) \cup {p}
    BY <1>2, <1>4, <2>1 DEF Cleaning
  <2>3. p \notin Cleaning(s) /\ IsFiniteSet(Cleaning(s)) /\ Cardinality(Cleaning(s)) \in Nat
    BY <1>1, <1>t, Counts DEF Cleaning
  <2>4. Cardinality(Cleaning(s)') = Cardinality(Cleaning(s)) + 1
    BY <2>2, <2>3, FS_AddElement
  <2> QED BY <1>1, <1>4, <2>3, <2>4 DEF Passed
<1>6. Busy' = Busy
  BY <1>1, <1>2 DEF Busy
<1>7. Traffic' /\ Entries' /\ Lengths' /\ CorruptionExplained'
  <2>1. Traffic'
    BY <1>1, <1>2, <1>6, <1>t DEF Traffic
  <2>2. Lengths'
    BY <1>1, <1>2, <1>t DEF Lengths, Ent
  <2>3. CorruptionExplained'
    BY <1>1 DEF IInv, CorruptionExplained, Stale
  <2> QED BY <2>1, <2>2, <2>3, <1>1, <1>t DEF Entries
<1>8. CleansCounted'
  <2> DEFINE C == {q \in Path : pc[q] = "clean"}
  <2>1. {q \in Path : pc'[q] = "clean"} = C \cup {p}
    BY <1>2
  <2>2. p \notin C /\ IsFiniteSet(C) /\ Cardinality(C) \in Nat /\ Cardinality(C) <= cleans
    BY <1>1, <1>t, Counts DEF CleansCounted
  <2> HIDE DEF C
  <2>3. Cardinality(C \cup {p}) = Cardinality(C) + 1
    BY <2>2, FS_AddElement
  <2>4. Cardinality(C \cup {p}) <= cleans'
    BY <2>2, <2>3, <1>1, <1>4
  <2> QED BY <2>1, <2>4 DEF CleansCounted
<1>9. ASSUME NEW n \in Pkt PROVE PacketInv(n)'
  <2>1. PacketInv(n) /\ SlotOf(SeqOf(n)) \in Slot
    BY <1>t, Ranges
  <2> QED BY <1>1, <1>3, <1>5, <2>1, Untouched
<1> QED BY <1>7, <1>8, <1>9 DEF IInv

\* Only packets of the entry's slot notice: their completions have one more
\* clean to account for, and those the entry was taken for are renamed.
LEMMA CleanEntryStep ==
  ASSUME IInv, NEW p \in Path, CleanEntry(p), TypeOK'
  PROVE  IInv'
<1>t. TypeOK /\ Traffic /\ Entries /\ Lengths /\ CleansCounted /\ \A n \in Pkt : PacketInv(n)
  BY DEF IInv
<1>p. PICK s \in Slot : s = at[p]
  BY <1>t DEF TypeOK
<1>1. /\ pc[p] = "clean"
      /\ fec' = [fec EXCEPT ![s].seq = FEC_EMPTY]
      /\ renamed' = renamed \cup {n \in batches : SeqOf(n) = fec[s].seq}
      /\ \/ s + 1 < SEQ_MAP_SIZE /\ at' = [at EXCEPT ![p] = s + 1] /\ pc' = pc
         \/ s + 1 >= SEQ_MAP_SIZE /\ at' = [at EXCEPT ![p] = 0] /\ pc' = [pc EXCEPT ![p] = "recv"]
      /\ UNCHANGED <<sender, sequence, sent, batches, net, shard, plen, cleans,
                     doomed, short, repeated, written, corrupt>>
  <2>1. s + 1 >= SEQ_MAP_SIZE <=> ~(s + 1 < SEQ_MAP_SIZE)
    BY SeqSpaceAssumption DEF Slot
  <2> QED BY <1>p, <2>1 DEF CleanEntry, senderVars, fateVars
<1>2. \A q \in Path : /\ pc'[q] \in {"done", "write"} <=> pc[q] \in {"done", "write"}
                      /\ pc'[q] = "write" <=> pc[q] = "write"
                      /\ pc'[q] = "clean" => pc[q] = "clean"
                      /\ q # p => at'[q] = at[q] /\ pc'[q] = pc[q]
  BY <1>1, <1>t DEF TypeOK
<1>3. /\ \A t \in Slot : t # s => fec'[t] = fec[t]
      /\ fec'[s].seq = FEC_EMPTY /\ fec'[s].plen = fec[s].plen /\ fec'[s].cnt = fec[s].cnt
      /\ fec'[s].marks = fec[s].marks /\ fec'[s].buf = fec[s].buf
  <2>1. fec[s] \in Entry /\ fec \in [Slot -> Entry]
    BY <1>t DEF TypeOK
  <2>2. fec'[s] = [fec[s] EXCEPT !.seq = FEC_EMPTY]
    BY <1>1, <2>1
  <2>3. fec'[s].seq = FEC_EMPTY
    BY <2>1, <2>2 DEF Entry
  <2>4. fec'[s].plen = fec[s].plen /\ fec'[s].cnt = fec[s].cnt
    BY <2>1, <2>2 DEF Entry
  <2>5. fec'[s].marks = fec[s].marks /\ fec'[s].buf = fec[s].buf
    BY <2>1, <2>2 DEF Entry
  <2> QED BY <1>1, <2>1, <2>3, <2>4, <2>5
<1>4. \A n \in Pkt : /\ Arriving(n)' = Arriving(n) /\ Indices(n)' = Indices(n)
                     /\ (Held(n)' <=> Held(n)) /\ (Stale(n)' <=> Stale(n))
                     /\ Ent(n)' = fec'[SlotOf(SeqOf(n))] /\ SlotOf(SeqOf(n)) \in Slot
  BY <1>1, <1>2, Ranges DEF Ent, Arriving, Indices, Held, Stale
<1>5. \A n \in Pkt : Ent(n)'.plen = Ent(n).plen
  BY <1>3, <1>4 DEF Ent
<1>6. \A t \in Slot : Passed(t)' = IF t = s THEN Passed(t) + 1 ELSE Passed(t)
  <2> SUFFICES ASSUME NEW t \in Slot PROVE Passed(t)' = IF t = s THEN Passed(t) + 1 ELSE Passed(t)
    OBVIOUS
  <2>1. t \in Int /\ s \in Int /\ t < SEQ_MAP_SIZE /\ SEQ_MAP_SIZE \in Int
    BY SeqSpaceAssumption DEF Slot
  <2>2. \A q \in Path : q # p => (q \in Cleaning(t)' <=> q \in Cleaning(t))
    BY <1>2 DEF Cleaning
  <2>3. Cleaning(t) \subseteq Path /\ Cleaning(t)' \subseteq Path
    BY DEF Cleaning
  <2>4. p \in Cleaning(t) <=> s <= t
    BY <1>1, <1>p DEF Cleaning
  <2>5. p \in Cleaning(t)' <=> s + 1 <= t
    <3>1. CASE s + 1 < SEQ_MAP_SIZE
      <4>1. pc'[p] = "clean" /\ at'[p] = s + 1
        BY <3>1, <1>1, <1>t, <2>1 DEF TypeOK
      <4> QED BY <4>1 DEF Cleaning
    <3>2. CASE s + 1 >= SEQ_MAP_SIZE
      <4>1. pc'[p] = "recv"
        BY <3>2, <1>1, <1>t, <2>1 DEF TypeOK
      <4> QED BY <3>2, <4>1, <2>1 DEF Cleaning
    <3> QED BY <3>1, <3>2, <2>1
  <2>6. /\ IsFiniteSet(Cleaning(t)) /\ Cardinality(Cleaning(t)) \in Nat /\ cleans \in Nat
        /\ Passed(t) \in Int /\ cleans' = cleans
    BY <1>1, <1>t, Counts
  <2>7. CASE t = s
    <3>1. p \in Cleaning(t) /\ p \notin Cleaning(t)'
      BY <2>1, <2>4, <2>5, <2>7
    <3>2. Cleaning(t)' = Cleaning(t) \ {p}
      BY <3>1, <2>2, <2>3
    <3>3. Cardinality(Cleaning(t)') = Cardinality(Cleaning(t)) - 1
      BY <3>1, <3>2, <2>6, FS_RemoveElement
    <3> QED BY <2>6, <2>7, <3>3 DEF Passed
  <2>8. CASE t # s
    <3>1. p \in Cleaning(t) <=> p \in Cleaning(t)'
      BY <2>1, <2>4, <2>5, <2>8
    <3>2. Cleaning(t)' = Cleaning(t)
      BY <3>1, <2>2, <2>3
    <3> QED BY <2>6, <2>8, <3>2 DEF Passed
  <2> QED BY <2>7, <2>8
<1>7. Traffic' /\ Entries' /\ Lengths' /\ CorruptionExplained'
  <2>1. Busy' = Busy
    BY <1>1, <1>2 DEF Busy
  <2>2. Traffic'
    BY <1>1, <1>2, <2>1, <1>t DEF Traffic
  <2>3. Lengths'
    <3> SUFFICES ASSUME NEW q \in Path, pc'[q] = "write" PROVE plen'[q] = Ent(shard[q].n)'.plen
      BY <1>1 DEF Lengths, Ent
    <3>1. pc[q] = "write" /\ shard[q].n \in Pkt
      BY <1>2, <1>t, BusyPackets DEF Traffic
    <3>2. plen[q] = Ent(shard[q].n).plen
      BY <3>1, <1>t DEF Lengths
    <3>3. Ent(shard[q].n)' = fec'[SlotOf(SeqOf(shard[q].n))] /\ SlotOf(SeqOf(shard[q].n)) \in Slot
      BY <3>1, <1>1, Ranges DEF Ent
    <3> QED BY <3>2, <3>3, <1>1, <1>3 DEF Ent
  <2>4. Entries'
    BY <1>1, <1>3, <1>t DEF Entries
  <2>5. CorruptionExplained'
    BY <1>1 DEF IInv, CorruptionExplained, Stale
  <2> QED BY <2>2, <2>3, <2>4, <2>5
<1>8. CleansCounted'
  <2> DEFINE C == {q \in Path : pc[q] = "clean"}
  <2>1. {q \in Path : pc'[q] = "clean"} \in SUBSET C
    BY <1>2
  <2>2. IsFiniteSet(C) /\ Cardinality(C) \in Nat /\ Cardinality(C) <= cleans /\ cleans \in Nat
    BY <1>t, Counts DEF CleansCounted
  <2> HIDE DEF C
  <2>3. /\ Cardinality({q \in Path : pc'[q] = "clean"}) <= Cardinality(C)
        /\ IsFiniteSet({q \in Path : pc'[q] = "clean"})
    BY <2>1, <2>2, FS_Subset
  <2>4. Cardinality({q \in Path : pc'[q] = "clean"}) \in Nat
    BY <2>3, FS_CardinalityType
  <2>5. Cardinality({q \in Path : pc'[q] = "clean"}) <= cleans'
    BY <2>2, <2>3, <2>4, <1>1
  <2> QED BY <2>5 DEF CleansCounted
<1>9. ASSUME NEW n \in Pkt, SlotOf(SeqOf(n)) # s PROVE PacketInv(n)'
  <2>1. PacketInv(n) /\ Ent(n)' = Ent(n) /\ Passed(SlotOf(SeqOf(n)))' = Passed(SlotOf(SeqOf(n)))
    BY <1>t, <1>3, <1>4, <1>6, <1>9 DEF Ent
  <2>2. n \in renamed => n \in renamed'
    BY <1>1
  <2> QED BY <1>1, <1>4, <2>1, <2>2, Untouched
<1>10. ASSUME NEW n \in Pkt, SlotOf(SeqOf(n)) = s PROVE PacketInv(n)'
  <2>1. PacketInv(n)
    BY <1>t
  <2>2. /\ Ent(n)'.seq = FEC_EMPTY /\ Ent(n)'.plen = Ent(n).plen /\ Ent(n)'.cnt = Ent(n).cnt
        /\ Ent(n)'.marks = Ent(n).marks /\ Ent(n)'.buf = Ent(n).buf /\ Ent(n) = fec[s]
    BY <1>3, <1>4, <1>10 DEF Ent
  <2>3. Passed(s)' = Passed(s) + 1 /\ Passed(s) \in Int
    BY <1>6, <1>t, Counts
  <2>4. HeldCount(n)' = HeldCount(n) /\ GoodCount(n)' = GoodCount(n) /\ written'[n] = written[n]
    BY <1>1, <1>4, <2>2 DEF HeldCount, GoodCount
  <2>5. /\ Unmarked(Ent(n)) = Unmarked(Ent(n))'
        /\ (Closed(Ent(n))' <=> Closed(Ent(n)))
    BY <2>2 DEF Unmarked, Closed
  <2>6. Mine(n)' => Mine(n) /\ SeqOf(n) = FEC_EMPTY
    BY <2>2, <1>t DEF Mine, Entries
  <2>7. /\ written[n] + HeldCount(n) \in Nat /\ Collected(n) \in Nat
        /\ Cardinality(Indices(n)) \in Nat
    <3>1. written[n] \in Nat /\ HeldCount(n) \in {0, 1} /\ Collected(n) \in Nat
          /\ Cardinality(Indices(n)) \in Nat
      BY <1>t, Counts
    <3> QED BY <3>1
  <2>8. Collected(n)' = Collected(n) \/ (Collected(n)' = 0 /\ ~Mine(n)')
    BY <2>2, <2>5, <2>6 DEF Collected
  <2>9. Mine(n) \/ Final(n) => n \in renamed' \/ n \notin batches
    BY <1>1, <2>2 DEF Mine, Final
  <2>10. Right(n)'
    BY <1>4, <2>1, <2>2, <2>6 DEF PacketInv, Right, Stale
  <2>11. OncePerClean(n)'
    <3>1. OncePerClean(n)
      BY <2>1 DEF PacketInv
    <3> QED BY <3>1, <1>10, <2>3, <2>4, <2>7 DEF OncePerClean
  <2>12. OnceUnlessRenamed(n)'
    <3>1. OnceUnlessRenamed(n)
      BY <2>1 DEF PacketInv
    <3>2. Arriving(n) # {} => n \in batches
      BY <1>t DEF Traffic, Arriving
    <3> QED BY <3>1, <3>2, <1>1, <1>4, <2>4, <2>9 DEF OnceUnlessRenamed
  <2>13. OnceUnlessRepeated(n)'
    <3> SUFFICES ASSUME N < K, n \notin repeated PROVE OnceUnlessRepeated(n)'
      BY <1>1 DEF OnceUnlessRepeated
    <3>1. /\ written[n] + GoodCount(n) <= 1
          /\ Arriving(n) # {} =>
              Collected(n) + Cardinality(Indices(n))
                <= IF written[n] + GoodCount(n) = 0 THEN K + N ELSE N
      BY <2>1 DEF PacketInv, OnceUnlessRepeated
    <3>2. Arriving(n) # {} =>
            Collected(n)' + Cardinality(Indices(n))
                <= IF written[n] + GoodCount(n) = 0 THEN K + N ELSE N
      BY <3>1, <2>7, <2>8, Indexes
    <3> QED BY <3>1, <3>2, <1>4, <2>4 DEF OnceUnlessRepeated
  <2>14. CountedOnce(n)'
    BY <1>1, <1>4, <2>1, <2>2, <2>5, <2>6 DEF PacketInv, CountedOnce
  <2>15. OnItsWay(n)'
    <3> SUFFICES ASSUME n \in batches \ (short \cup repeated \cup renamed'), ~Stale(n)
                 PROVE  \/ written[n] > 0 \/ Held(n)
                        \/ /\ Arriving(n) # {} /\ ~Final(n)'
                           /\ Collected(n)' + Cardinality(Indices(n)) >= K
      BY <1>1, <1>4 DEF OnItsWay
    <3>1. \/ written[n] > 0 \/ Held(n)
          \/ Arriving(n) # {} /\ ~Final(n) /\ Collected(n) + Cardinality(Indices(n)) >= K
      BY <1>1, <2>1 DEF PacketInv, OnItsWay
    <3>2. ~Mine(n) /\ ~Mine(n)'
      BY <2>6, <2>9
    <3>3. Collected(n)' = Collected(n)
      BY <3>2 DEF Collected
    <3>4. ~Final(n)'
      BY <2>2 DEF Final, Stale
    <3> QED BY <3>1, <3>3, <3>4
  <2>16. ShortIsDoomed(n)' /\ WrittenWasSent(n)'
    BY <1>1, <2>1 DEF PacketInv, ShortIsDoomed, SentShards, WrittenWasSent
  <2> QED BY <2>10, <2>11, <2>12, <2>13, <2>14, <2>15, <2>16 DEF PacketInv
<1> QED BY <1>7, <1>8, <1>9, <1>10 DEF IInv

-----------------------------------------------------------------------------
(* fec_recv_done *)

\* What the invariant says of a packet in terms of the entry fec_recv_done has
\* found, or taken over, for its shard.
LEMMA Gathered ==
  ASSUME IInv, FecWindow, NEW p \in Path, NEW c \in net, FecRecvDone(p, c), NEW n \in Pkt, n = c.n
  PROVE  LET e == Taken(Ent(n), c)
         IN /\ c \in Arriving(n) /\ n \in Busy /\ n \in batches /\ p = PathOf(n) /\ ~Held(n)
            /\ c.seq = SeqOf(n) /\ c.idx \in Indices(n) /\ (c.again => n \in repeated)
            /\ e \in Entry /\ e.seq = SeqOf(n)
            /\ ~Stale(n) => e.plen = n
            /\ e.plen \in Pkt => e.plen \in batches
            /\ Final(n) <=> Closed(e)
            /\ Collected(n) = IF e.plen = n /\ ~Closed(e) THEN e.cnt ELSE 0
            /\ ~Stale(n) => \A i \in Unmarked(e) : e.buf[i] = <<n, i>>
            /\ n \notin repeated /\ e.plen = n /\ ~Closed(e) =>
                 e.cnt = Cardinality(Unmarked(e)) /\ Unmarked(e) \cap Indices(n) = {}
<1> DEFINE e == Taken(Ent(n), c)
<1>t. TypeOK /\ Traffic /\ Entries /\ PacketInv(n)
  BY DEF IInv
<1>1. /\ c \in Shard /\ c.seq = SeqOf(n) /\ pc[p] = "recv" /\ p = PathOf(n) /\ n \in batches
      /\ (c.again => n \in repeated)
  <2>1. c \in Shard /\ pc[p] = "recv" /\ c.path = p
    BY <1>t, RecvOutcomes
  <2> QED BY <2>1, <1>t DEF Traffic
<1>2. c \in Arriving(n) /\ n \in Busy /\ c.idx \in Indices(n) /\ ~Held(n)
  BY <1>1 DEF Arriving, Busy, Indices, Held
<1>3. Ent(n) \in Entry /\ SlotOf(SeqOf(n)) \in Slot
  BY <1>t, Ranges DEF Ent, TypeOK
<1>4. /\ e \in Entry /\ e.seq = SeqOf(n) /\ e.buf = Ent(n).buf
      /\ Ent(n).seq = SeqOf(n) => e = Ent(n)
      /\ Ent(n).seq # SeqOf(n) => e.plen = n /\ e.cnt = 0 /\ e.marks = [i \in Idx |-> TRUE]
  <2>1. c \in Shard
    BY <1>1
  <2>2. PICK E \in Entry : E = Ent(n)
    BY <1>3
  <2>3. /\ Taken(E, c) \in Entry /\ Taken(E, c).seq = c.seq /\ Taken(E, c).buf = E.buf
        /\ E.seq = c.seq => Taken(E, c) = E
        /\ E.seq # c.seq => /\ Taken(E, c).plen = c.n /\ Taken(E, c).cnt = 0
                            /\ Taken(E, c).marks = [i \in Idx |-> TRUE]
    BY <2>1, TakenFields
  <2> QED BY <1>1, <2>2, <2>3
<1> HIDE DEF e
<1>5. CASE Ent(n).seq = SeqOf(n)
  <2>1. e = Ent(n)
    BY <1>4, <1>5
  <2>2. ~Stale(n) => e.plen = n
    BY <1>2, <1>5, <1>t, <2>1, OwnEntry DEF Mine
  <2>3. e.plen \in Pkt => e.plen \in batches
    BY <1>3, <1>t, <2>1 DEF Entries, Ent
  <2>4. /\ Final(n) <=> Closed(e)
        /\ Mine(n) <=> e.plen = n
        /\ Collected(n) = IF e.plen = n /\ ~Closed(e) THEN e.cnt ELSE 0
    BY <1>5, <2>1 DEF Final, Mine, Collected
  <2>5. ~Stale(n) => \A i \in Unmarked(e) : e.buf[i] = <<n, i>>
    BY <1>2, <1>t, <2>1, <2>2, <2>4 DEF PacketInv, Right
  <2>6. n \notin repeated /\ e.plen = n /\ ~Closed(e) =>
          e.cnt = Cardinality(Unmarked(e)) /\ Unmarked(e) \cap Indices(n) = {}
    BY <1>2, <1>t, <2>1, <2>4 DEF PacketInv, CountedOnce
  <2> QED BY <1>1, <1>2, <1>4, <2>2, <2>3, <2>4, <2>5, <2>6 DEF e
<1>6. CASE Ent(n).seq # SeqOf(n)
  <2>1. e.plen = n /\ e.cnt = 0 /\ e.marks = [i \in Idx |-> TRUE]
    BY <1>4, <1>6
  <2>2. Unmarked(e) = {} /\ Cardinality({}) = 0
    BY <2>1, FS_EmptySet DEF Unmarked
  <2>3. ~Final(n) /\ ~Closed(e) /\ Collected(n) = 0
    BY <1>6, <2>1, Indexes DEF Final, Closed, Collected, Mine
  <2> QED BY <1>1, <1>2, <1>4, <2>1, <2>2, <2>3 DEF e
<1> QED BY <1>5, <1>6

\* What fec_recv_done leaves of the packet: its shard comes too late, or is one
\* more, or completes it.
LEMMA Handled ==
  ASSUME IInv, FecWindow, NEW p \in Path, NEW c \in net, FecRecvDone(p, c), NEW n \in Pkt, n = c.n
  PROVE  LET e == Taken(Ent(n), c)
         IN /\ Ent(n)'.seq = SeqOf(n) /\ Ent(n)'.plen = e.plen
            /\ Arriving(n)' = Arriving(n) \ {c}
            /\ \/ /\ Closed(e) /\ Final(n)' /\ ~Held(n)' /\ Ent(n)' = e
               \/ /\ ~Closed(e) /\ ~Held(n)'
                  /\ ~Closed(Ent(n))' /\ ~Final(n)'
                  /\ e.cnt \in Nat /\ Ent(n)'.cnt = e.cnt + 1 /\ e.cnt + 1 < K
                  /\ Unmarked(Ent(n))' = Unmarked(e) \cup {c.idx}
                  /\ \A i \in Idx : Ent(n)'.buf[i] = IF i = c.idx THEN <<n, i>> ELSE e.buf[i]
               \/ /\ ~Closed(e) /\ e.cnt \in Nat /\ e.cnt + 1 = K
                  /\ Final(n)' /\ Closed(Ent(n))'
                  /\ Unmarked(Ent(n))' = Unmarked(e) \cup {c.idx}
                  /\ \A i \in Unmarked(Ent(n))' :
                       Ent(n)'.buf[i] = IF i = c.idx THEN <<n, i>> ELSE e.buf[i]
                  /\ Held(n)' /\ (\A i \in Unmarked(e) : e.buf[i] = <<n, i>>) =>
                       \A i \in Data : Ent(n)'.buf[i] = <<n, i>>
                  /\ Cardinality(Unmarked(Ent(n))') = K => Held(n)'
<1> DEFINE s == SlotOf(c.seq)
           e == Taken(Ent(n), c)
           f == Stored(e, c)
           d == Decode(f.marks, f.buf)
           g == [f EXCEPT !.buf = d.buf]
<1>t. TypeOK
  BY DEF IInv
<1>1. /\ e \in Entry /\ e.seq = SeqOf(n) /\ p = PathOf(n) /\ c.seq = SeqOf(n)
  BY Gathered
<1>2. s = SlotOf(SeqOf(n)) /\ Ent(n) = fec[s] /\ Ent(n)' = fec'[s] /\ s \in Slot
  BY <1>1, Ranges DEF Ent
<1>3. c \in Shard /\ c.n \in Pkt /\ c.idx \in Idx /\ net' = net \ {c} /\ pc[p] = "recv"
  BY <1>t, RecvOutcomes DEF Shard
<1>4. \/ Closed(e) /\ fec' = [fec EXCEPT ![s] = e] /\ Done(p)
      \/ /\ ~Closed(e) /\ f \in Entry /\ f.cnt < K
         /\ fec' = [fec EXCEPT ![s] = f] /\ Done(p)
      \/ /\ ~Closed(e) /\ f \in Entry /\ f.cnt = K
         /\ fec' = [fec EXCEPT ![s] = g]
         /\ g.seq = f.seq /\ g.plen = f.plen /\ g.cnt = f.cnt /\ g.marks = f.marks
         /\ g.buf = d.buf
         /\ \/ /\ d.ok
               /\ pc' = [pc EXCEPT ![p] = "done"]
               /\ shard' = [shard EXCEPT ![p] = c]
               /\ UNCHANGED plen
            \/ ~d.ok /\ Done(p)
  BY <1>t, <1>2, RecvOutcomes
<1>5. Arriving(n)' = Arriving(n) \ {c}
  BY <1>3 DEF Arriving
<1>6. Done(p) => ~Held(n)'
  <2>1. PathOf(n)' = p
    BY <1>1 DEF PathOf
  <2> QED BY <2>1, <1>t DEF Done, Held, TypeOK
<1>7. fec \in [Slot -> Entry] /\ K \in Nat \ {0}
  BY <1>t, Indexes DEF TypeOK
<1>8. ASSUME ~Closed(e)
      PROVE  /\ f.seq = e.seq /\ f.plen = e.plen /\ f.cnt = e.cnt + 1 /\ e.cnt \in Nat
             /\ f.marks = [e.marks EXCEPT ![c.idx] = FALSE]
             /\ f.buf = [e.buf EXCEPT ![c.idx] = <<c.n, c.idx>>]
             /\ Unmarked(f) = Unmarked(e) \cup {c.idx}
  <2>1. \A x \in 0 .. (K - 1) : x \in Nat
    BY <1>7
  <2> QED BY <1>1, <1>3, <1>8, <2>1, StoredFields
<1>9. ASSUME ~Closed(e) PROVE \A i \in Idx : f.buf[i] = IF i = c.idx THEN <<n, i>> ELSE e.buf[i]
  <2>1. e.buf \in [Idx -> Bytes]
    BY <1>1 DEF Entry
  <2> HIDE DEF e, f
  <2> QED BY <1>8, <1>9, <2>1
<1> HIDE DEF e, f, d, g
<1>10. CASE Closed(e) /\ fec' = [fec EXCEPT ![s] = e] /\ Done(p)
  <2>1. Ent(n)' = e
    BY <1>2, <1>7, <1>10
  <2>2. Final(n)'
    BY <2>1, <1>1, <1>10 DEF Final, Closed
  <2> QED BY <2>1, <2>2, <1>1, <1>5, <1>6, <1>10 DEF e
<1>11. CASE ~Closed(e) /\ f \in Entry /\ f.cnt < K /\ fec' = [fec EXCEPT ![s] = f] /\ Done(p)
  <2>1. Ent(n)' = f
    BY <1>2, <1>7, <1>11
  <2>2. ~Closed(Ent(n))' /\ ~Final(n)'
    BY <2>1, <1>7, <1>8, <1>11 DEF Final, Closed
  <2>3. Unmarked(Ent(n))' = Unmarked(e) \cup {c.idx}
    BY <2>1, <1>8, <1>11 DEF Unmarked
  <2> QED BY <2>1, <2>2, <2>3, <1>1, <1>5, <1>6, <1>8, <1>9, <1>11 DEF e
<1>12. ASSUME /\ ~Closed(e) /\ f \in Entry /\ f.cnt = K
              /\ fec' = [fec EXCEPT ![s] = g]
              /\ g.seq = f.seq /\ g.plen = f.plen /\ g.cnt = f.cnt /\ g.marks = f.marks
              /\ g.buf = d.buf
              /\ \/ /\ d.ok
                    /\ pc' = [pc EXCEPT ![p] = "done"]
                    /\ shard' = [shard EXCEPT ![p] = c]
                    /\ UNCHANGED plen
                 \/ ~d.ok /\ Done(p)
       PROVE  /\ Ent(n)'.seq = SeqOf(n) /\ Ent(n)'.plen = e.plen
              /\ e.cnt \in Nat /\ e.cnt + 1 = K /\ Final(n)' /\ Closed(Ent(n))'
              /\ Unmarked(Ent(n))' = Unmarked(e) \cup {c.idx}
              /\ \A i \in Unmarked(Ent(n))' :
                   Ent(n)'.buf[i] = IF i = c.idx THEN <<n, i>> ELSE e.buf[i]
              /\ Held(n)' /\ (\A i \in Unmarked(e) : e.buf[i] = <<n, i>>) =>
                   \A i \in Data : Ent(n)'.buf[i] = <<n, i>>
              /\ Cardinality(Unmarked(Ent(n))') = K => Held(n)'
  <2>1. Ent(n)' = g
    BY <1>2, <1>7, <1>12
  <2>2. /\ Ent(n)'.seq = SeqOf(n) /\ Ent(n)'.plen = e.plen /\ Ent(n)'.cnt = K
        /\ e.cnt \in Nat /\ e.cnt + 1 = K
    BY <2>1, <1>1, <1>8, <1>12
  <2>3. Closed(Ent(n))' /\ Final(n)'
    BY <2>2, <1>7 DEF Final, Closed
  <2>4. Unmarked(Ent(n))' = Unmarked(f) /\ Unmarked(f) = Unmarked(e) \cup {c.idx}
    BY <2>1, <1>8, <1>12 DEF Unmarked
  <2>5. f.marks \in [Idx -> BOOLEAN] /\ f.buf \in [Idx -> Bytes]
    BY <1>12 DEF Entry
  <2>6. \A i \in Idx : ~f.marks[i] => d.buf[i] = f.buf[i]
    BY <2>5, DecodeType DEF d
  <2>7. \A i \in Unmarked(Ent(n))' :
           Ent(n)'.buf[i] = IF i = c.idx THEN <<n, i>> ELSE e.buf[i]
    BY <2>1, <2>4, <2>6, <1>9, <1>12 DEF Unmarked
  <2>8. Held(n)' <=> d.ok
    <3>1. PathOf(n)' = p
      BY <1>1 DEF PathOf
    <3>2. ASSUME d.ok PROVE Held(n)'
      BY <3>1, <3>2, <1>12, <1>t DEF Held, TypeOK
    <3>3. ASSUME ~d.ok PROVE ~Held(n)'
      BY <3>3, <1>6, <1>12
    <3> QED BY <3>2, <3>3
  <2>9. ASSUME Held(n)', \A i \in Unmarked(e) : e.buf[i] = <<n, i>>
        PROVE  \A i \in Data : Ent(n)'.buf[i] = <<n, i>>
    <3>1. \A i \in Idx : ~f.marks[i] => f.buf[i] = <<n, i>>
      BY <2>4, <2>9, <1>9, <1>12 DEF Unmarked
    <3>2. \A i \in Data : d.buf[i] = <<n, i>>
      BY <2>5, <2>8, <2>9, <3>1, DecodeRight DEF d
    <3> QED BY <2>1, <3>2, <1>12
  <2>10. ASSUME Cardinality(Unmarked(Ent(n))') = K PROVE Held(n)'
    <3>1. Cardinality({i \in Idx : ~f.marks[i]}) = K
      BY <2>4, <2>10 DEF Unmarked
    <3>2. d.ok
      BY <2>5, <3>1, DecodeOk DEF d
    <3> QED BY <3>2, <2>8
  <2> QED BY <2>2, <2>3, <2>4, <2>7, <2>9, <2>10
<1> QED BY <1>4, <1>5, <1>10, <1>11, <1>12 DEF e

LEMMA SameShard ==
  ASSUME NEW c \in Shard, NEW d \in Shard, c.n = d.n, c.idx = d.idx, c.seq = d.seq,
         c.path = d.path, c.again = d.again
  PROVE  c = d
BY DEF Shard

LEMMA ReceivedStep ==
  ASSUME IInv, FecWindow, NEW p \in Path, NEW c \in net, FecRecvDone(p, c), NEW n \in Pkt, n = c.n
  PROVE  PacketInv(n)'
<1>t. TypeOK /\ Traffic /\ PacketInv(n) /\ CleansCounted
  BY DEF IInv
<1>e. PICK e \in Entry : e = Taken(Ent(n), c)
  BY Gathered
<1>1. /\ c \in Arriving(n) /\ n \in Busy /\ n \in batches /\ p = PathOf(n) /\ ~Held(n)
      /\ c.seq = SeqOf(n) /\ c.idx \in Indices(n) /\ (c.again => n \in repeated)
      /\ ~Stale(n) => e.plen = n
      /\ Final(n) <=> Closed(e)
      /\ Collected(n) = IF e.plen = n /\ ~Closed(e) THEN e.cnt ELSE 0
      /\ ~Stale(n) => \A i \in Unmarked(e) : e.buf[i] = <<n, i>>
      /\ n \notin repeated /\ e.plen = n /\ ~Closed(e) =>
           e.cnt = Cardinality(Unmarked(e)) /\ Unmarked(e) \cap Indices(n) = {}
  BY <1>e, Gathered
<1>2. Ent(n)'.seq = SeqOf(n) /\ Ent(n)'.plen = e.plen /\ Arriving(n)' = Arriving(n) \ {c}
  BY <1>e, Handled
<1>3. \/ /\ Closed(e) /\ Final(n)' /\ ~Held(n)' /\ Ent(n)' = e
      \/ /\ ~Closed(e) /\ ~Held(n)'
         /\ ~Closed(Ent(n))' /\ ~Final(n)'
         /\ e.cnt \in Nat /\ Ent(n)'.cnt = e.cnt + 1 /\ e.cnt + 1 < K
         /\ Unmarked(Ent(n))' = Unmarked(e) \cup {c.idx}
         /\ \A i \in Idx : Ent(n)'.buf[i] = IF i = c.idx THEN <<n, i>> ELSE e.buf[i]
      \/ /\ ~Closed(e) /\ e.cnt \in Nat /\ e.cnt + 1 = K
         /\ Final(n)' /\ Closed(Ent(n))'
         /\ Unmarked(Ent(n))' = Unmarked(e) \cup {c.idx}
         /\ \A i \in Unmarked(Ent(n))' :
              Ent(n)'.buf[i] = IF i = c.idx THEN <<n, i>> ELSE e.buf[i]
         /\ Held(n)' /\ (\A i \in Unmarked(e) : e.buf[i] = <<n, i>>) =>
              \A i \in Data : Ent(n)'.buf[i] = <<n, i>>
         /\ Cardinality(Unmarked(Ent(n))') = K => Held(n)'
  BY <1>e, Handled
<1>4. /\ c \in Shard
      /\ UNCHANGED <<sender, sequence, sent, batches, at, cleans, renamed,
                     doomed, short, repeated, written, corrupt>>
      /\ \A q \in Path : pc'[q] = "clean" <=> pc[q] = "clean"
  <2>1. /\ c \in Shard /\ pc[p] = "recv"
        /\ UNCHANGED <<sender, sequence, sent, batches, at, cleans, renamed,
                       doomed, short, repeated, written, corrupt>>
    BY <1>t, RecvOutcomes
  <2>2. pc' = [pc EXCEPT ![p] = "recv"] \/ pc' = [pc EXCEPT ![p] = "done"]
    BY <1>t, RecvOutcomes DEF Done
  <2> QED BY <2>1, <2>2, <1>t DEF TypeOK
<1>5. Stale(n)' <=> Stale(n)
  BY <1>4 DEF Stale
<1>6. Passed(SlotOf(SeqOf(n)))' = Passed(SlotOf(SeqOf(n)))
  BY <1>4 DEF Passed, Cleaning
<1>7. /\ Passed(SlotOf(SeqOf(n))) \in Int /\ Passed(SlotOf(SeqOf(n))) >= 0
      /\ written[n] \in Nat /\ Collected(n) \in Nat
      /\ IsFiniteSet(Indices(n)) /\ Cardinality(Indices(n)) \in Nat
      /\ Indices(n)' \subseteq Indices(n)
  BY <1>t, <1>2, Counts DEF Indices
<1>8. HeldCount(n) = 0 /\ GoodCount(n) = 0
  BY <1>1 DEF HeldCount, GoodCount
<1>9. /\ HeldCount(n)' = IF Held(n)' THEN 1 ELSE 0
      /\ GoodCount(n)' = IF Held(n)' /\ e.plen = n THEN 1 ELSE 0
      /\ Mine(n)' <=> e.plen = n
      /\ Collected(n)' = IF e.plen = n /\ ~Closed(Ent(n))' THEN Ent(n)'.cnt ELSE 0
  BY <1>2 DEF HeldCount, GoodCount, Mine, Collected
<1>10. Final(n)' <=> Closed(Ent(n))'
  BY <1>2 DEF Final
\* Without repeated shards this was the last with its index.
<1>11. ASSUME n \notin repeated
       PROVE  /\ Indices(n)' = Indices(n) \ {c.idx}
              /\ Cardinality(Indices(n)') = Cardinality(Indices(n)) - 1
              /\ Cardinality(Indices(n)') \in Nat
  <2>1. ASSUME NEW d \in Arriving(n), d.idx = c.idx PROVE d = c
    <3>1. /\ d \in Shard /\ d.n = n /\ d.seq = SeqOf(n) /\ d.path = PathOf(n) /\ ~d.again
      BY <1>11, <1>t DEF Arriving, Traffic, TypeOK
    <3>2. c.path = PathOf(n) /\ ~c.again
      BY <1>1, <1>11, <1>t DEF Traffic
    <3>3. d.again = FALSE /\ c.again = FALSE
      BY <3>1, <3>2, <1>4 DEF Shard
    <3> QED BY <2>1, <3>1, <3>2, <3>3, <1>1, <1>4, SameShard
  <2>2. Indices(n)' = {d.idx : d \in Arriving(n) \ {c}}
    BY <1>2 DEF Indices
  <2>3. Indices(n)' = Indices(n) \ {c.idx}
    BY <2>1, <2>2 DEF Indices
  <2>4. /\ Cardinality(Indices(n) \ {c.idx}) = Cardinality(Indices(n)) - 1
        /\ IsFiniteSet(Indices(n) \ {c.idx})
    BY <1>1, <1>7, FS_RemoveElement
  <2>5. Cardinality(Indices(n) \ {c.idx}) \in Nat
    BY <2>4, FS_CardinalityType
  <2> QED BY <2>3, <2>4, <2>5
<1>12. Right(n)'
  <2> SUFFICES ASSUME ~Stale(n)
               PROVE  /\ \A i \in Unmarked(Ent(n))' : Ent(n)'.buf[i] = <<n, i>>
                      /\ Held(n)' => \A i \in Data : Ent(n)'.buf[i] = <<n, i>>
    BY <1>1, <1>2, <1>5 DEF Right
  <2>1. \A i \in Unmarked(e) : e.buf[i] = <<n, i>>
    BY <1>1
  <2>2. Unmarked(e) \subseteq Idx /\ c.idx \in Idx
    BY <1>4 DEF Unmarked, Shard
  <2> QED BY <2>1, <2>2, <1>3
<1>13. OncePerClean(n)' /\ OnceUnlessRenamed(n)'
  <2>1. OncePerClean(n) /\ OnceUnlessRenamed(n) /\ Arriving(n) # {}
    BY <1>1, <1>t DEF PacketInv
  <2>2. ASSUME Closed(e), Final(n)', ~Held(n)'
        PROVE  OncePerClean(n)' /\ OnceUnlessRenamed(n)'
    BY <2>1, <2>2, <1>4, <1>6, <1>8, <1>9 DEF OncePerClean, OnceUnlessRenamed
  <2>3. ASSUME ~Closed(e), Final(n)' \/ ~Held(n)'
        PROVE  OncePerClean(n)' /\ OnceUnlessRenamed(n)'
    <3>1. /\ written[n] <= Passed(SlotOf(SeqOf(n)))
          /\ n \notin renamed => written[n] = 0
      BY <2>1, <2>3, <1>1, <1>7, <1>8 DEF OncePerClean, OnceUnlessRenamed
    <3>2. HeldCount(n)' \in {0, 1} /\ (~Final(n)' => HeldCount(n)' = 0)
      BY <2>3, <1>9
    <3> QED BY <3>1, <3>2, <1>4, <1>6, <1>7 DEF OncePerClean, OnceUnlessRenamed
  <2> QED BY <2>2, <2>3, <1>3
<1>14. OnceUnlessRepeated(n)'
  <2> SUFFICES ASSUME N < K, n \notin repeated
               PROVE  /\ written[n] + GoodCount(n)' <= 1
                      /\ Collected(n)' + Cardinality(Indices(n)')
                           <= IF written[n] + GoodCount(n)' = 0 THEN K + N ELSE N
    BY <1>4 DEF OnceUnlessRepeated
  <2> DEFINE k == Cardinality(Indices(n)')
             w == written[n]
  <2>1. /\ w <= 1
        /\ Collected(n) + (k + 1) <= IF w = 0 THEN K + N ELSE N
        /\ k \in Nat /\ w \in Nat
    BY <1>1, <1>7, <1>8, <1>11, <1>t DEF PacketInv, OnceUnlessRepeated
  <2> HIDE DEF k, w
  <2>2. K \in Nat /\ N \in Nat
    BY Indexes
  <2>3. CASE ~Held(n)'
    <3>1. GoodCount(n)' = 0 /\ Collected(n)' \in 0 .. (Collected(n) + 1)
      BY <2>3, <1>1, <1>3, <1>7, <1>9, <1>10
    <3>2. w + GoodCount(n)' = w /\ Collected(n)' \in Int /\ Collected(n)' <= Collected(n) + 1
      BY <3>1, <2>1, <1>7
    <3>3. Collected(n)' + k <= Collected(n) + (k + 1)
      BY <3>2, <2>1, <1>7
    <3>4. Collected(n)' + k <= IF w = 0 THEN K + N ELSE N
      BY <3>2, <3>3, <2>1, <2>2, <1>7
    <3> QED BY <3>2, <3>4, <2>1 DEF k, w
  <2>4. CASE Held(n)'
    <3>1. ~Closed(e) /\ e.cnt \in Nat /\ e.cnt + 1 = K /\ Collected(n)' = 0
      BY <2>4, <1>3, <1>9
    <3>2. CASE e.plen = n
      <4>1. Collected(n) = K - 1 /\ GoodCount(n)' = 1
        BY <3>1, <3>2, <2>4, <1>1, <1>9
      <4>2. w = 0 /\ k <= N
        BY <4>1, <2>1, <2>2
      <4> QED BY <3>1, <4>1, <4>2, <2>1, <2>2 DEF k, w
    <3>3. CASE e.plen # n
      <4>1. GoodCount(n)' = 0
        BY <3>3, <1>9
      <4>2. k <= IF w = 0 THEN K + N ELSE N
        BY <2>1, <2>2, <1>7
      <4> QED BY <3>1, <4>1, <4>2, <2>1 DEF k, w
    <3> QED BY <3>2, <3>3
  <2> QED BY <2>3, <2>4
<1>15. ASSUME n \notin repeated, e.plen = n, ~Closed(e)
       PROVE  /\ Cardinality(Unmarked(e) \cup {c.idx}) = e.cnt + 1
              /\ (Unmarked(e) \cup {c.idx}) \cap Indices(n)' = {}
  <2>1. e.cnt = Cardinality(Unmarked(e)) /\ c.idx \notin Unmarked(e)
    BY <1>1, <1>15
  <2>2. IsFiniteSet(Unmarked(e))
    BY Indexes, FS_Subset DEF Unmarked
  <2>3. Cardinality(Unmarked(e) \cup {c.idx}) = Cardinality(Unmarked(e)) + 1
    BY <2>1, <2>2, FS_AddElement
  <2>4. (Unmarked(e) \cup {c.idx}) \cap Indices(n)' = {}
    BY <1>1, <1>11, <1>15
  <2> QED BY <2>1, <2>3, <2>4
<1>16. CountedOnce(n)'
  <2> SUFFICES ASSUME n \notin repeated, e.plen = n, ~Closed(Ent(n))'
               PROVE  /\ Ent(n)'.cnt = Cardinality(Unmarked(Ent(n))')
                      /\ Unmarked(Ent(n))' \cap Indices(n)' = {}
    BY <1>4, <1>9 DEF CountedOnce
  <2>1. ~Closed(e) /\ Ent(n)'.cnt = e.cnt + 1 /\ Unmarked(Ent(n))' = Unmarked(e) \cup {c.idx}
    BY <1>3, <1>10
  <2> QED BY <2>1, <1>15
<1>17. OnItsWay(n)'
  <2> SUFFICES ASSUME n \notin short, n \notin repeated, n \notin renamed, ~Stale(n), written[n] = 0
               PROVE  \/ Held(n)'
                      \/ /\ Arriving(n)' # {} /\ ~Final(n)'
                         /\ Collected(n)' + Cardinality(Indices(n)') >= K
    <3>1. written[n] > 0 \/ written[n] = 0
      BY <1>7
    <3> QED BY <3>1, <1>4, <1>5 DEF OnItsWay
  <2>1. ~Final(n) /\ Collected(n) + Cardinality(Indices(n)) >= K
    BY <1>1, <1>t DEF PacketInv, OnItsWay
  <2>2. ~Closed(e) /\ e.plen = n /\ Collected(n) = e.cnt
    BY <2>1, <1>1
  <2>3. CASE /\ ~Closed(Ent(n))' /\ ~Final(n)' /\ Ent(n)'.cnt = e.cnt + 1 /\ e.cnt + 1 < K
    <3>1. Collected(n)' = e.cnt + 1 /\ e.cnt \in Nat
      BY <2>2, <2>3, <1>7, <1>9
    <3>2. Collected(n)' + Cardinality(Indices(n)') >= K /\ Cardinality(Indices(n)') > 0
      BY <2>1, <2>2, <2>3, <3>1, <1>7, <1>11, Indexes
    <3>3. Indices(n)' # {}
      BY <3>2, FS_EmptySet
    <3>4. Arriving(n)' # {}
      BY <3>3 DEF Indices
    <3> QED BY <2>3, <3>2, <3>4
  <2>4. CASE /\ e.cnt + 1 = K /\ Unmarked(Ent(n))' = Unmarked(e) \cup {c.idx}
             /\ Cardinality(Unmarked(Ent(n))') = K => Held(n)'
    BY <2>2, <2>4, <1>15
  <2> QED BY <2>2, <2>3, <2>4, <1>3
<1>18. ShortIsDoomed(n)' /\ WrittenWasSent(n)'
  BY <1>4, <1>t DEF PacketInv, ShortIsDoomed, SentShards, WrittenWasSent
<1> QED BY <1>12, <1>13, <1>14, <1>16, <1>17, <1>18 DEF PacketInv

LEMMA FecRecvDoneStep ==
  ASSUME IInv, FecWindow, NEW p \in Path, NEW c \in net, FecRecvDone(p, c), TypeOK'
  PROVE  IInv'
<1>t. TypeOK /\ Traffic /\ Entries /\ Lengths /\ CleansCounted /\ \A n \in Pkt : PacketInv(n)
  BY DEF IInv
<1>n. PICK n \in Pkt : n = c.n
  BY <1>t DEF TypeOK, Shard
<1>1. /\ n \in Busy /\ n \in batches /\ p = PathOf(n) /\ c.seq = SeqOf(n) /\ pc[p] = "recv"
      /\ net' = net \ {c} /\ c \in Shard
      /\ UNCHANGED <<sender, sequence, sent, batches, at, cleans, renamed,
                     doomed, short, repeated, written, corrupt>>
  <2>1. n \in Busy /\ n \in batches /\ p = PathOf(n) /\ c.seq = SeqOf(n)
    BY <1>n, Gathered
  <2>2. /\ pc[p] = "recv" /\ net' = net \ {c} /\ c \in Shard
        /\ UNCHANGED <<sender, sequence, sent, batches, at, cleans, renamed,
                       doomed, short, repeated, written, corrupt>>
    BY <1>t, RecvEffects
  <2> QED BY <2>1, <2>2
<1>s. PICK s \in Slot : s = SlotOf(SeqOf(n))
  BY Ranges
<1>2. /\ \A t \in Slot : t # s => fec'[t] = fec[t]
      /\ fec'[s].seq = SeqOf(n) /\ (fec'[s].plen \in Pkt => fec'[s].plen \in batches)
      /\ fec'[s].plen = n \/ (fec[s].seq = SeqOf(n) /\ fec'[s].plen = fec[s].plen)
  <2>1. \E g : fec' = [fec EXCEPT ![s] = g]
    BY <1>1, <1>s, <1>t, RecvEffects
  <2>2. \A t \in Slot : t # s => fec'[t] = fec[t]
    BY <2>1, <1>t DEF TypeOK
  <2>3. /\ fec'[s].seq = SeqOf(n) /\ fec'[s].plen = Taken(fec[s], c).plen
        /\ Taken(fec[s], c).plen \in Pkt => Taken(fec[s], c).plen \in batches
    BY <1>n, <1>s, Gathered, Handled DEF Ent
  <2>4. Taken(fec[s], c).plen = n \/ (fec[s].seq = SeqOf(n) /\ Taken(fec[s], c) = fec[s])
    <3>1. fec[s] \in Entry
      BY <1>t DEF TypeOK
    <3> QED BY <3>1, <1>1, <1>n, TakenFields
  <2> QED BY <2>2, <2>3, <2>4
<1>3. /\ \A q \in Path : q # p => pc'[q] = pc[q] /\ shard'[q] = shard[q] /\ plen'[q] = plen[q]
      /\ pc'[p] = "recv" \/ (pc'[p] = "done" /\ shard'[p] = c)
  <2>1. \/ Done(p)
        \/ pc' = [pc EXCEPT ![p] = "done"] /\ shard' = [shard EXCEPT ![p] = c] /\ UNCHANGED plen
    BY <1>t, RecvEffects
  <2> QED BY <2>1, <1>t DEF Done, TypeOK
<1>4. \A q \in Path : /\ pc'[q] = "clean" <=> pc[q] = "clean"
                      /\ pc'[q] = "write" => q # p /\ pc[q] = "write"
                      /\ pc'[q] \in {"done", "write"} =>
                           \/ q = p /\ shard'[q] = c
                           \/ q # p /\ pc[q] \in {"done", "write"} /\ shard'[q] = shard[q]
  BY <1>1, <1>3
<1>5. \A s1 : Passed(s1)' = Passed(s1)
  BY <1>1, <1>4 DEF Passed, Cleaning
<1>6. Traffic'
  <2>1. \A m \in Busy' : m \in Busy
    <3>1. \A m \in Busy' : \/ \E d \in net' : m = d.n
                           \/ \E q \in Path : pc'[q] \in {"done", "write"} /\ m = shard'[q].n
      BY DEF Busy
    <3>2. \A m : /\ (\E d \in net : m = d.n) => m \in Busy
                 /\ (\E q \in Path : pc[q] \in {"done", "write"} /\ m = shard[q].n) => m \in Busy
      BY DEF Busy
    <3> QED BY <3>1, <3>2, <1>1, <1>4
  <2>2. \A q \in Path : pc'[q] \in {"done", "write"} =>
          shard'[q].n \in batches /\ shard'[q].seq = SeqOf(shard'[q].n) /\ q = PathOf(shard'[q].n)
    BY <1>1, <1>4, <1>n, <1>t DEF Traffic
  <2> QED BY <2>1, <2>2, <1>1, <1>t DEF Traffic, PathOf
<1>7. Entries'
  BY <1>1, <1>2, <1>t DEF Entries
<1>8. Lengths'
  <2> SUFFICES ASSUME NEW q \in Path, pc'[q] = "write" PROVE plen'[q] = fec'[SlotOf(SeqOf(shard'[q].n))].plen
    BY DEF Lengths, Ent
  <2>1. q # p /\ pc[q] = "write" /\ shard'[q] = shard[q] /\ plen'[q] = plen[q]
    BY <1>3, <1>4
  <2>m. PICK m \in Pkt : m = shard[q].n /\ m \in batches /\ q = PathOf(m) /\ m \in Busy
    BY <2>1, <1>t, BusyPackets DEF Traffic, Busy
  <2>2. SlotOf(SeqOf(m)) # s
    BY <2>1, <2>m, <1>1, <1>s, <1>t, OneBusy
  <2>3. Ent(m)' = fec'[SlotOf(SeqOf(m))] /\ Ent(m) = fec[SlotOf(SeqOf(m))]
    BY DEF Ent
  <2>4. Ent(m)' = Ent(m)
    BY <2>2, <2>3, <1>2, Ranges
  <2>5. plen[q] = Ent(m).plen
    BY <2>1, <2>m, <1>t DEF Lengths
  <2> QED BY <2>1, <2>m, <2>3, <2>4, <2>5
<1>9. CleansCounted' /\ CorruptionExplained'
  <2>1. {q \in Path : pc'[q] = "clean"} = {q \in Path : pc[q] = "clean"}
    BY <1>4
  <2>2. CleansCounted'
    BY <2>1, <1>1, <1>t DEF CleansCounted
  <2> QED BY <2>2, <1>1 DEF IInv, CorruptionExplained, Stale
<1>10. ASSUME NEW m \in Pkt, m # n
       PROVE  /\ Arriving(m)' = Arriving(m) /\ (Held(m)' <=> Held(m)) /\ PacketInv(m)
              /\ (Stale(m)' <=> Stale(m))
  <2>1. Arriving(m)' = Arriving(m) /\ (Stale(m)' <=> Stale(m))
    BY <1>1, <1>n, <1>10 DEF Arriving, Stale
  <2>2. PathOf(m) \in Path /\ PathOf(m)' = PathOf(m)
    BY Ranges DEF PathOf
  <2>3. Held(m)' <=> Held(m)
    <3>1. CASE PathOf(m) = p
      BY <3>1, <2>2, <1>1, <1>3, <1>n, <1>10 DEF Held
    <3>2. CASE PathOf(m) # p
      BY <3>2, <2>2, <1>3 DEF Held
    <3> QED BY <3>1, <3>2
  <2> QED BY <2>1, <2>3, <1>t
<1>11. ASSUME NEW m \in Pkt, m # n, SlotOf(SeqOf(m)) # s PROVE PacketInv(m)'
  <2>1. Ent(m)' = Ent(m)
    BY <1>2, <1>11, Ranges DEF Ent
  <2> QED BY <2>1, <1>1, <1>5, <1>10, <1>11, Untouched
<1>12. ASSUME NEW m \in Pkt, m # n, SlotOf(SeqOf(m)) = s PROVE PacketInv(m)'
  <2>1. m \notin Busy
    BY <1>1, <1>12, <1>s, <1>t, OneBusy
  <2>2. Arriving(m) = {} /\ ~Held(m)
    BY <2>1, <1>t, BusyPackets
  <2>3. Arriving(m)' = {} /\ ~Held(m)' /\ PacketInv(m)
    BY <2>2, <1>10, <1>12
  <2> QED BY <2>2, <2>3, <1>1, <1>5, <1>t, Settled
<1>13. PacketInv(n)'
  BY <1>n, ReceivedStep
<1>14. \A m \in Pkt : PacketInv(m)'
  BY <1>11, <1>12, <1>13
<1> QED BY <1>6, <1>7, <1>8, <1>9, <1>14 DEF IInv

LEMMA StutterStep ==
  ASSUME IInv, UNCHANGED vars, TypeOK'
  PROVE  IInv'
<1>1. UNCHANGED <<sender, sequence, net, pc, shard, plen, fec, at, sent, batches, doomed, short,
                  repeated, cleans, renamed, written, corrupt>>
  BY DEF vars, senderVars, workerVars, cleanVars, fateVars
<1>2. \A n : Ent(n)' = Ent(n) /\ Arriving(n)' = Arriving(n) /\ (Held(n)' <=> Held(n)) /\ (Stale(n)' <=> Stale(n))
  BY <1>1 DEF Ent, Arriving, Held, Stale
<1>3. \A s : Passed(s)' = Passed(s)
  BY <1>1 DEF Passed, Cleaning
<1>4. ASSUME NEW n \in Pkt PROVE PacketInv(n)'
  BY <1>1, <1>2, <1>3, Untouched DEF IInv
<1>5. Traffic' /\ Entries' /\ Lengths'
  BY <1>1 DEF IInv, Traffic, Entries, Lengths, Busy, PathOf, Ent
<1>6. CleansCounted' /\ CorruptionExplained'
  BY <1>1 DEF IInv, CleansCounted, CorruptionExplained, Stale
<1> QED BY <1>4, <1>5, <1>6 DEF IInv

LEMMA InvNext ==
  ASSUME FecWindow
  PROVE  IInv /\ [Next]_vars => IInv'
<1> SUFFICES ASSUME IInv, [Next]_vars PROVE IInv'
  OBVIOUS
<1>1. TypeOK'
  BY TypeNext DEF IInv
<1>2. CASE SendBatch
  BY <1>1, <1>2, SendBatchStep
<1>3. CASE SendWhole
  BY <1>1, <1>3, SendWholeStep
<1>4. ASSUME NEW p \in Path, NEW c \in net, FecRecvDone(p, c) PROVE IInv'
  BY <1>1, <1>4, FecRecvDoneStep
<1>5. ASSUME NEW p \in Path, ReadLen(p) PROVE IInv'
  BY <1>1, <1>5, ReadLenStep
<1>6. ASSUME NEW p \in Path, WriteTun(p) PROVE IInv'
  BY <1>1, <1>6, WriteTunStep
<1>7. ASSUME NEW p \in Path, StartClean(p) PROVE IInv'
  BY <1>1, <1>7, StartCleanStep
<1>8. ASSUME NEW p \in Path, CleanEntry(p) PROVE IInv'
  BY <1>1, <1>8, CleanEntryStep
<1>9. CASE UNCHANGED vars
  BY <1>1, <1>9, StutterStep
<1> QED BY <1>2, <1>3, <1>4, <1>5, <1>6, <1>7, <1>8, <1>9 DEF Next

-----------------------------------------------------------------------------
(* The properties *)

LEMMA InvAlways ==
  ASSUME FecWindow
  PROVE  Spec => []IInv
BY InvInit, InvNext, PTL DEF Spec

\* What a thread writes to the TUN device, reading the shared entry after the
\* unlock (fec_recv_done, then write), is its packet whole, unless the entry was
\* taken for the packet's own: by the empty number, or by a number used before.
THEOREM FecCorruptionExplained ==
  ASSUME FecWindow
  PROVE  Spec => []CorruptionExplained
<1>1. IInv => CorruptionExplained
  BY DEF IInv
<1> QED BY <1>1, InvAlways, PTL

\* With fewer parity than data shards a packet is written once, however its
\* shards arrive, late, again or in any order: a second time only if a start
\* flag renamed its entry and shards came again, and once more per start flag
\* at most (fec_recv_done, init_dedup_state).
THEOREM FecWrittenOnce ==
  ASSUME FecWindow, N < K
  PROVE  Spec => []FecAtMostOnce
<1>1. IInv => FecAtMostOnce
  <2> SUFFICES ASSUME IInv, NEW n \in Pkt, written[n] > 1
               PROVE  n \in renamed \cap repeated /\ written[n] <= cleans + 1
    BY DEF FecAtMostOnce
  <2>1. PacketInv(n) /\ TypeOK
    BY DEF IInv
  <2>2. /\ written[n] \in Nat /\ HeldCount(n) \in {0, 1} /\ GoodCount(n) \in {0, 1}
        /\ cleans \in Nat /\ Cardinality(Cleaning(SlotOf(SeqOf(n)))) \in Nat
    BY <2>1, Counts
  <2>3. n \in renamed
    BY <2>1, <2>2 DEF PacketInv, OnceUnlessRenamed
  <2>4. n \in repeated
    BY <2>1, <2>2 DEF PacketInv, OnceUnlessRepeated
  <2>5. written[n] + HeldCount(n) <= 1 + Passed(SlotOf(SeqOf(n)))
    BY <2>1 DEF PacketInv, OncePerClean
  <2>6. written[n] <= cleans + 1
    BY <2>2, <2>5 DEF Passed
  <2> QED BY <2>3, <2>4, <2>6
<1> QED BY <1>1, InvAlways, PTL

\* Losing any N of the shards sent loses no packet, but for the reasons Excused
\* names (send_to_gateway, fec_recv_done, reed_solomon_decode).
THEOREM FecLossExplained ==
  ASSUME FecWindow
  PROVE  Spec => []LossExplained
<1>1. IInv => LossExplained
  <2> SUFFICES ASSUME IInv, NEW n \in Pkt, n \in batches \ doomed, n \notin Busy, ~Excused(n)
               PROVE  written[n] > 0
    BY DEF LossExplained, Survivor
  <2>1. PacketInv(n) /\ Arriving(n) = {} /\ ~Held(n)
    BY BusyPackets DEF IInv
  <2>2. n \notin short
    BY <2>1 DEF PacketInv, ShortIsDoomed, Excused
  <2> QED BY <2>1, <2>2 DEF PacketInv, OnItsWay, Excused
<1> QED BY <1>1, InvAlways, PTL

=============================================================================
