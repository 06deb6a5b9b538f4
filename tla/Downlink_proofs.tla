-------------------------- MODULE Downlink_proofs --------------------------
(***************************************************************************)
(* Safety of the downlink for every table size, number of paths, number of *)
(* packets and clock: type correctness, at-most-once delivery, and the     *)
(* only two reasons a packet is thrown away unseen; and, in the second     *)
(* part, of the downlink whose server is restarted any number of times.    *)
(***************************************************************************)
EXTENDS DownlinkRestart, TLAPS

\* The network facts at-most-once delivery needs: a copy is looked up before
\* SEQ_MAP_SIZE further packets are numbered, and two copy lifetimes fit in
\* the idle time that clears the table (one for the copy that is late, one
\* for a thread that set last_update to a time it read before the lock).
NetworkBounds ==
  /\ SKEW <= SEQ_MAP_SIZE
  /\ 2 * LIFE <= CONN_TIMEOUT

-----------------------------------------------------------------------------
(* The inductive invariant *)

\* Copies and the counter carry the packet's own number.
Numbering ==
  /\ sequence = SeqOf(sent)
  /\ \A c \in net : c.n < sent /\ c.seq = SeqOf(c.n)
  /\ \A p \in Path : pc[p] # "recv" =>
       copy[p].n < sent /\ copy[p].seq = SeqOf(copy[p].n)

\* Copies under way are neither too far behind nor too old.
InWindow ==
  \A c \in UnderWay :
    /\ sent <= c.n + SKEW
    /\ now <= sentAt[c.n] + LIFE

\* Times a thread has read lie between the packet's and the present.
Clocks ==
  /\ \A n \in Pkt : sentAt[n] <= now
  /\ \A p \in Path : pc[p] # "recv" => sentAt[copy[p].n] <= ts[p] /\ ts[p] <= now

\* Every accepted packet whose copies may still come is in the table, and the
\* table will not idle out before they have come.
Remembered ==
  \A n \in accepted :
    /\ n < sent
    /\ sentAt[n] <= last_update + LIFE
    /\ sent <= n + SKEW /\ now <= sentAt[n] + LIFE
         => seq_map[SlotOf(SeqOf(n))] = SeqOf(n)

\* Every entry is cleared or holds the number of an accepted packet.
Entries ==
  \A s \in Slot :
    seq_map[s] = EMPTY \/ \E m \in accepted : seq_map[s] = SeqOf(m)

\* A packet being written was accepted, has not been written yet, and is
\* being written by one thread only.
Writing ==
  /\ \A n \in Pkt : written[n] <= 1 /\ (written[n] > 0 => n \in accepted)
  /\ \A p \in Path : pc[p] = "write" =>
       copy[p].n \in accepted /\ written[copy[p].n] = 0
  /\ \A p, q \in Path :
       p # q /\ pc[p] = "write" /\ pc[q] = "write" => copy[p].n # copy[q].n

IInv ==
  /\ TypeOK
  /\ Numbering
  /\ InWindow
  /\ Clocks
  /\ Remembered
  /\ Entries
  /\ Writing
  /\ DropsExplained

-----------------------------------------------------------------------------
(* Type correctness *)

LEMMA TypeInit == Init => TypeOK
<1> SUFFICES ASSUME Init PROVE TypeOK
  OBVIOUS
<1>1. 0 \in SeqNo /\ Cleared \in [Slot -> SeqNo]
  BY SeqTypes, SeqSpaceAssumption, SeqMapAssumption DEF SeqNo, Cleared, Slot
<1> QED BY <1>1, DownlinkAssumption DEF Init, TypeOK, Pkt

LEMMA TypeStep == TypeOK /\ [Next]_vars => TypeOK'
<1> SUFFICES ASSUME TypeOK, [Next]_vars PROVE TypeOK'
  OBVIOUS
<1> USE DEF TypeOK
<1>0. /\ SEQ_MOD \in Nat \ {0}
      /\ EMPTY \in SeqNo
      /\ \A s \in SeqNo : SlotOf(s) \in Slot
  BY SeqTypes, SeqSpaceAssumption, SeqMapAssumption DEF SeqNo
<1>1. CASE SendToGateway
  <2>1. (sequence + 1) % SEQ_MOD \in SeqNo
    <3>1. sequence + 1 \in Nat
      BY DEF SeqNo
    <3> QED BY <1>0, <3>1, DivMod DEF SeqNo
  <2>2. sent \in Pkt /\ sent' \in 0 .. MaxPackets
    BY <1>1, DownlinkAssumption DEF SendToGateway, Pkt
  <2>3. net' \subseteq Copy
    BY <1>1, <2>2 DEF SendToGateway, Copy
  <2>4. sentAt' \in [Pkt -> Nat]
    BY <1>1, <2>2 DEF SendToGateway
  <2> QED
    BY <1>1, <2>1, <2>2, <2>3, <2>4
    DEF SendToGateway, workerVars, dedupVars
<1>2. CASE Tick
  BY <1>2, DownlinkAssumption DEF Tick, senderVars, workerVars, dedupVars
<1>3. ASSUME NEW c \in net, Lose(c)
      PROVE  TypeOK'
  BY <1>3 DEF Lose, senderVars, workerVars, dedupVars
<1>4. ASSUME NEW p \in Path, NEW c \in net, Receive(p, c)
      PROVE  TypeOK'
  BY <1>4 DEF Receive, senderVars, dedupVars
<1>5. ASSUME NEW p \in Path, IsDuplicate(p)
      PROVE  TypeOK'
  <2> DEFINE map == IF Idle(ts[p], last_update) THEN Cleared ELSE seq_map
  <2>1. map \in [Slot -> SeqNo]
    BY <1>0 DEF Cleared
  <2>2. copy[p] \in Copy
    BY <1>5 DEF IsDuplicate
  <2>3. copy[p].n \in Pkt /\ copy[p].seq \in SeqNo
    BY <2>2 DEF Copy
  <2>4. Store(map, copy[p].seq) \in [Slot -> SeqNo]
    BY <2>1, <2>3 DEF Store
  <2> HIDE DEF map
  <2>5. seq_map' \in {map, Store(map, copy[p].seq)}
    BY <1>5 DEF IsDuplicate, map
  <2> QED
    BY <1>5, <2>1, <2>3, <2>4, <2>5 DEF IsDuplicate, Done, senderVars
<1>6. ASSUME NEW p \in Path, WriteTun(p)
      PROVE  TypeOK'
  <2>1. copy[p] \in Copy
    BY <1>6 DEF WriteTun
  <2>2. copy[p].n \in Pkt
    BY <2>1 DEF Copy
  <2> QED BY <1>6, <2>2 DEF WriteTun, Done, senderVars, dedupVars
<1>7. CASE UNCHANGED vars
  BY <1>7 DEF vars, senderVars, workerVars, dedupVars
<1> QED BY <1>1, <1>2, <1>3, <1>4, <1>5, <1>6, <1>7 DEF Next

\* Type correctness of the downlink, for every value of the constants.
THEOREM TypeCorrect == Spec => []TypeOK
BY TypeInit, TypeStep, PTL DEF Spec

-----------------------------------------------------------------------------
(* The invariant is inductive *)

LEMMA InvInit == Init => IInv
<1> SUFFICES ASSUME Init PROVE IInv
  OBVIOUS
<1>1. TypeOK
  BY TypeInit
<1>2. SeqOf(0) = 0
  BY SeqTypes DEF SeqOf
<1>3. \A p \in Path : pc[p] = "recv"
  BY DEF Init
<1>4. UnderWay = {}
  BY <1>3 DEF Init, UnderWay
<1>5. Numbering /\ InWindow /\ Clocks /\ Remembered /\ Writing /\ DropsExplained
  BY <1>2, <1>3, <1>4
  DEF Init, Numbering, InWindow, Clocks, Remembered, Writing, DropsExplained
<1>6. Entries
  BY DEF Init, Entries, Cleared
<1> QED BY <1>1, <1>5, <1>6 DEF IInv

\* A new packet leaves the older ones as they were.
LEMMA SendStep ==
  ASSUME NetworkBounds, IInv, TypeOK', SendToGateway
  PROVE  IInv'
<1> USE DEF IInv
<1>1. /\ sent \in Pkt /\ sent' = sent + 1 /\ sent \in Nat
      /\ \A n \in Pkt : n # sent => sentAt'[n] = sentAt[n]
      /\ sentAt'[sent] = now
      /\ now' = now /\ now \in Nat
  BY DownlinkAssumption DEF SendToGateway, TypeOK, Pkt
<1>2. /\ pc' = pc /\ copy' = copy /\ ts' = ts /\ seq_map' = seq_map
      /\ last_update' = last_update /\ accepted' = accepted
      /\ dropped' = dropped /\ written' = written
  BY DEF SendToGateway, workerVars, dedupVars
<1>3. \A c \in net' : c \in net \/ (c.n = sent /\ c.seq = sequence)
  BY DEF SendToGateway
<1>4. \A p \in Path : pc[p] # "recv" => copy[p].n \in Pkt /\ copy[p].n < sent
  BY DEF TypeOK, Numbering, Copy
<1>5. \A c \in UnderWay : c.n \in Pkt /\ c.n < sent
  BY <1>4 DEF UnderWay, TypeOK, Numbering, Copy
<1>6. Numbering'
  <2>1. sequence' = SeqOf(sent')
    BY <1>1, SeqSuccessor DEF SendToGateway, Numbering
  <2>2. \A c \in net' : c.n < sent' /\ c.seq = SeqOf(c.n)
    BY <1>1, <1>3, TypeOK DEF Numbering, TypeOK, Copy, Pkt
  <2>3. \A p \in Path : pc'[p] # "recv" =>
          copy'[p].n < sent' /\ copy'[p].seq = SeqOf(copy'[p].n)
    BY <1>1, <1>2, <1>4 DEF Numbering, Pkt
  <2> QED BY <2>1, <2>2, <2>3 DEF Numbering
<1>7. InWindow'
  <2> SUFFICES ASSUME NEW c \in UnderWay'
               PROVE  sent' <= c.n + SKEW /\ now' <= sentAt'[c.n] + LIFE
    BY DEF InWindow
  <2>1. c \in UnderWay \/ c.n = sent
    BY <1>2, <1>3 DEF UnderWay
  <2>2. CASE c.n = sent
    BY <1>1, <2>2, DownlinkAssumption
  <2>3. CASE c \in UnderWay
    <3>1. sent + 1 - c.n <= SKEW
      BY <2>3 DEF SendToGateway
    <3>2. c.n \in Pkt /\ c.n < sent
      BY <1>5, <2>3
    <3>3. now <= sentAt[c.n] + LIFE
      BY <2>3 DEF InWindow
    <3> QED BY <1>1, <3>1, <3>2, <3>3, DownlinkAssumption DEF Pkt
  <2> QED BY <2>1, <2>2, <2>3
<1>8. Clocks'
  <2>1. \A n \in Pkt : sentAt'[n] <= now'
    BY <1>1 DEF Clocks
  <2>2. \A p \in Path : pc[p] # "recv" => sentAt'[copy[p].n] = sentAt[copy[p].n]
    BY <1>1, <1>4 DEF Pkt
  <2>3. \A p \in Path : pc'[p] # "recv" =>
          sentAt'[copy'[p].n] <= ts'[p] /\ ts'[p] <= now'
    BY <1>1, <1>2, <2>2 DEF Clocks
  <2> QED BY <2>1, <2>3 DEF Clocks
<1>9. Remembered'
  <2> SUFFICES ASSUME NEW n \in accepted
               PROVE  /\ n < sent'
                      /\ sentAt'[n] <= last_update' + LIFE
                      /\ sent' <= n + SKEW /\ now' <= sentAt'[n] + LIFE
                           => seq_map'[SlotOf(SeqOf(n))] = SeqOf(n)
    BY <1>2 DEF Remembered
  <2>1. n \in Pkt /\ n < sent
    BY DEF Remembered, TypeOK
  <2>2. sentAt'[n] = sentAt[n]
    BY <1>1, <2>1 DEF Pkt
  <2>3. sent' <= n + SKEW => sent <= n + SKEW
    BY <1>1, <2>1, DownlinkAssumption DEF Pkt
  <2> QED BY <1>1, <1>2, <2>1, <2>2, <2>3 DEF Remembered, Pkt
<1>10. Entries' /\ Writing' /\ DropsExplained'
  BY <1>2 DEF Entries, Writing, DropsExplained
<1> QED BY <1>6, <1>7, <1>8, <1>9, <1>10

\* Time only makes copies older; the guard keeps them young enough.
LEMMA TickStep ==
  ASSUME NetworkBounds, IInv, TypeOK', Tick
  PROVE  IInv'
<1> USE DEF IInv
<1>1. /\ sequence' = sequence /\ sent' = sent /\ sentAt' = sentAt
      /\ net' = net /\ pc' = pc /\ copy' = copy /\ ts' = ts
      /\ seq_map' = seq_map /\ last_update' = last_update
      /\ accepted' = accepted /\ dropped' = dropped /\ written' = written
      /\ now' = now + 1 /\ now \in Nat
  BY DEF Tick, senderVars, workerVars, dedupVars, TypeOK
<1>2. Numbering' /\ Entries' /\ Writing' /\ DropsExplained'
  BY <1>1 DEF Numbering, Entries, Writing, DropsExplained
<1>3. InWindow'
  <2>1. UnderWay' = UnderWay
    BY <1>1 DEF UnderWay
  <2>2. \A c \in UnderWay : c.n \in Pkt
    BY DEF UnderWay, TypeOK, Copy
  <2> QED BY <1>1, <2>1, <2>2, DownlinkAssumption DEF InWindow, Tick, TypeOK
<1>4. Clocks'
  <2>1. \A p \in Path : pc[p] # "recv" => copy[p].n \in Pkt
    BY DEF TypeOK, Copy
  <2> QED BY <1>1, <2>1 DEF Clocks, TypeOK
<1>5. Remembered'
  <2>1. \A n \in accepted : n \in Pkt /\ sentAt[n] \in Nat
    BY DEF TypeOK
  <2> QED BY <1>1, <2>1, DownlinkAssumption DEF Remembered
<1> QED BY <1>2, <1>3, <1>4, <1>5

\* Losing or receiving a copy puts no new copy under way.
LEMMA LoseStep ==
  ASSUME IInv, TypeOK', NEW c \in net, Lose(c)
  PROVE  IInv'
<1> USE DEF IInv
<1>1. /\ sequence' = sequence /\ sent' = sent /\ sentAt' = sentAt
      /\ net' \subseteq net /\ pc' = pc /\ copy' = copy /\ ts' = ts
      /\ seq_map' = seq_map /\ last_update' = last_update
      /\ accepted' = accepted /\ dropped' = dropped /\ written' = written
      /\ now' = now
  BY DEF Lose, senderVars, workerVars, dedupVars
<1>2. Numbering' /\ Clocks' /\ Remembered' /\ Entries' /\ Writing' /\ DropsExplained'
  BY <1>1 DEF Numbering, Clocks, Remembered, Entries, Writing, DropsExplained
<1>3. UnderWay' \subseteq UnderWay
  BY <1>1 DEF UnderWay
<1> QED BY <1>1, <1>2, <1>3 DEF InWindow

LEMMA ReceiveStep ==
  ASSUME IInv, TypeOK', NEW p \in Path, NEW c \in net, Receive(p, c)
  PROVE  IInv'
<1> USE DEF IInv
<1>1. /\ sequence' = sequence /\ sent' = sent /\ sentAt' = sentAt
      /\ net' \subseteq net
      /\ seq_map' = seq_map /\ last_update' = last_update
      /\ accepted' = accepted /\ dropped' = dropped /\ written' = written
      /\ now' = now
  BY DEF Receive, senderVars, dedupVars
<1>2. /\ pc[p] = "recv" /\ pc'[p] = "check" /\ copy'[p] = c /\ ts'[p] = now
      /\ \A q \in Path : q # p => pc'[q] = pc[q] /\ copy'[q] = copy[q] /\ ts'[q] = ts[q]
  BY DEF Receive, TypeOK
<1>3. c \in Copy /\ c.n \in Pkt
  BY DEF TypeOK, Copy
<1>4. Numbering'
  BY <1>1, <1>2 DEF Numbering
<1>5. Clocks'
  BY <1>1, <1>2, <1>3 DEF Clocks, TypeOK
<1>6. InWindow'
  <2>1. UnderWay' \subseteq UnderWay
    BY <1>1, <1>2 DEF UnderWay
  <2> QED BY <1>1, <2>1 DEF InWindow
<1>7. Writing'
  BY <1>1, <1>2 DEF Writing
<1>8. Remembered' /\ Entries' /\ DropsExplained'
  BY <1>1 DEF Remembered, Entries, DropsExplained
<1> QED BY <1>4, <1>5, <1>6, <1>7, <1>8

\* The write makes the count 1: it was 0, and no other thread has the packet.
LEMMA WriteStep ==
  ASSUME IInv, TypeOK', NEW p \in Path, WriteTun(p)
  PROVE  IInv'
<1> USE DEF IInv
<1>1. /\ sequence' = sequence /\ sent' = sent /\ sentAt' = sentAt
      /\ net' = net
      /\ seq_map' = seq_map /\ last_update' = last_update
      /\ accepted' = accepted /\ dropped' = dropped
      /\ now' = now
  BY DEF WriteTun, senderVars, dedupVars
<1>2. /\ pc[p] = "write" /\ pc'[p] = "recv"
      /\ \A q \in Path : q # p => pc'[q] = pc[q] /\ copy'[q] = copy[q] /\ ts'[q] = ts[q]
  BY DEF WriteTun, Done, TypeOK
<1>3. copy[p] \in Copy /\ copy[p].n \in Pkt
  BY <1>2 DEF TypeOK, Copy
<1>4. /\ written'[copy[p].n] = written[copy[p].n] + 1
      /\ \A n \in Pkt : n # copy[p].n => written'[n] = written[n]
  BY <1>3 DEF WriteTun, TypeOK
<1>5. Numbering'
  BY <1>1, <1>2 DEF Numbering
<1>6. Clocks'
  BY <1>1, <1>2 DEF Clocks
<1>7. InWindow'
  <2>1. UnderWay' \subseteq UnderWay
    BY <1>1, <1>2 DEF UnderWay
  <2> QED BY <1>1, <2>1 DEF InWindow
<1>8. Writing'
  <2>1. \A q \in Path : pc[q] = "write" => copy[q].n \in Pkt
    BY DEF TypeOK, Copy
  <2> QED BY <1>1, <1>2, <1>3, <1>4, <2>1 DEF Writing, TypeOK
<1>9. Remembered' /\ Entries' /\ DropsExplained'
  BY <1>1 DEF Remembered, Entries, DropsExplained
<1> QED BY <1>5, <1>6, <1>7, <1>8, <1>9

\* While the copy in hand is under way the table idles out only if no accepted
\* packet has copies under way.
LEMMA IdleMeansNoneLive ==
  ASSUME NetworkBounds, IInv, NEW p \in Path, pc[p] = "check",
         Idle(ts[p], last_update),
         NEW n \in accepted
  PROVE  ~(now <= sentAt[n] + LIFE)
<1>1. /\ n \in Pkt /\ sentAt[n] \in Nat /\ last_update \in Nat
      /\ ts[p] \in Nat /\ now \in Nat
  BY DEF IInv, TypeOK
<1>2. sentAt[n] <= last_update + LIFE /\ ts[p] <= now
  BY DEF IInv, Remembered, Clocks
<1>3. ts[p] - last_update > CONN_TIMEOUT
  BY DEF Idle
<1> QED
  BY <1>1, <1>2, <1>3, SeqSpaceAssumption, SeqMapAssumption, DownlinkAssumption DEF NetworkBounds

\* A packet that shares a slot with the copy in hand is that packet, or its
\* copies are no longer under way.
LEMMA SlotOwner ==
  ASSUME NetworkBounds, NEW i \in Nat, NEW j \in Nat, sent \in Nat,
         i < sent, j < sent, sent <= i + SKEW, sent <= j + SKEW,
         SlotOf(SeqOf(i)) = SlotOf(SeqOf(j))
  PROVE  i = j
<1>1. SKEW \in Nat /\ SEQ_MAP_SIZE \in Nat /\ SKEW <= SEQ_MAP_SIZE
  BY SeqSpaceAssumption, SeqMapAssumption, DownlinkAssumption DEF NetworkBounds
<1>2. ~(i < j)
  BY <1>1, SlotDistance
<1>3. ~(j < i)
  BY <1>1, SlotDistance
<1> QED BY <1>2, <1>3

LEMMA IsDuplicateStep ==
  ASSUME NetworkBounds, IInv, TypeOK', NEW p \in Path, IsDuplicate(p)
  PROVE  IInv'
<1> USE DEF IInv
<1> DEFINE k == copy[p].n
           seq == copy[p].seq
           idle == Idle(ts[p], last_update)
           map == IF idle THEN Cleared ELSE seq_map
<1>1. /\ sequence' = sequence /\ sent' = sent /\ sentAt' = sentAt
      /\ net' = net /\ written' = written /\ now' = now
      /\ pc[p] = "check"
  BY DEF IsDuplicate, senderVars
<1>2. /\ copy[p] \in Copy /\ k \in Pkt /\ k < sent /\ seq = SeqOf(k)
      /\ copy[p] \in UnderWay
  BY <1>1 DEF TypeOK, Copy, Numbering, UnderWay
<1>3. /\ sent <= k + SKEW /\ now <= sentAt[k] + LIFE
      /\ sentAt[k] <= ts[p] /\ ts[p] <= now
  BY <1>1, <1>2 DEF InWindow, Clocks
<1>4. /\ sent \in Nat /\ now \in Nat /\ last_update \in Nat /\ ts[p] \in Nat
      /\ \A n \in Pkt : n \in Nat /\ sentAt[n] \in Nat /\ sentAt[n] <= now
      /\ LIFE \in Nat /\ SKEW \in Nat
  BY DownlinkAssumption DEF TypeOK, Pkt, Clocks
<1>5. map \in [Slot -> SeqNo]
  BY SeqSpaceAssumption, SeqMapAssumption DEF TypeOK, Cleared, SeqNo
<1>6. seq \in SeqNo /\ SlotOf(seq) \in Slot
  BY <1>2, <1>4, SeqTypes
\* What the table says of the packets whose copies are under way survives the
\* idle test, whichever way it goes.
<1>7. \A n \in accepted : sent <= n + SKEW /\ now <= sentAt[n] + LIFE
        => map[SlotOf(SeqOf(n))] = SeqOf(n)
  BY <1>1, IdleMeansNoneLive DEF Remembered
<1>8. \A s \in Slot : map[s] = EMPTY \/ \E m \in accepted : map[s] = SeqOf(m)
  BY DEF Entries, Cleared
<1>9. \A q \in Path : q # p => pc'[q] = pc[q] /\ copy'[q] = copy[q] /\ ts'[q] = ts[q]
  BY DEF IsDuplicate, Done, TypeOK
<1> HIDE DEF map
<1>10. CASE Holds(map, seq)
  <2>1. /\ seq_map' = map /\ accepted' = accepted
        /\ last_update' \in {ts[p], last_update}
        /\ idle => last_update' = ts[p]
        /\ ~idle => last_update' = last_update
        /\ dropped' = IF k \in accepted THEN dropped ELSE dropped \cup {k}
        /\ pc'[p] = "recv"
    BY <1>10 DEF IsDuplicate, Done, TypeOK, map
  <2>2. Numbering' /\ Clocks' /\ Writing'
    BY <1>1, <1>9, <2>1 DEF Numbering, Clocks, Writing
  <2>3. InWindow'
    <3>1. UnderWay' \subseteq UnderWay
      BY <1>1, <1>9, <2>1 DEF UnderWay
    <3> QED BY <1>1, <3>1 DEF InWindow
  <2>4. Remembered'
    <3>1. \A n \in accepted : sentAt[n] <= last_update' + LIFE
      <4> SUFFICES ASSUME NEW n \in accepted
                   PROVE  sentAt[n] <= last_update' + LIFE
        OBVIOUS
      <4>1. n \in Pkt /\ sentAt[n] <= last_update + LIFE
        BY DEF Remembered, TypeOK
      <4>2. CASE idle
        BY <1>3, <1>4, <2>1, <4>1, <4>2, SeqSpaceAssumption, SeqMapAssumption DEF Idle
      <4>3. CASE ~idle
        BY <2>1, <4>1, <4>3
      <4> QED BY <4>2, <4>3
    <3> QED BY <1>1, <1>7, <2>1, <3>1 DEF Remembered
  <2>5. Entries'
    BY <1>8, <2>1 DEF Entries
  <2>6. DropsExplained'
    <3> SUFFICES ASSUME k \notin accepted, SeqOf(k) # EMPTY
                 PROVE  \E m \in accepted : m + SEQ_MOD <= k /\ SeqOf(m) = SeqOf(k)
      BY <2>1 DEF DropsExplained
    <3>1. map[SlotOf(seq)] = SeqOf(k)
      BY <1>2, <1>10 DEF Holds
    <3>2. PICK m \in accepted : SeqOf(m) = SeqOf(k)
      BY <1>6, <1>8, <3>1
    <3>3. m \in Nat /\ k \in Nat /\ m < sent /\ m # k
      BY <1>2, <1>4 DEF Remembered, TypeOK
    <3>4. SlotOf(SeqOf(m)) = SlotOf(SeqOf(k))
      BY <3>2
    <3>5. ~(k < m)
      <4>1. SKEW <= SEQ_MAP_SIZE /\ SEQ_MAP_SIZE \in Nat
        BY SeqSpaceAssumption, SeqMapAssumption DEF NetworkBounds
      <4>2. ASSUME k < m PROVE k + SEQ_MAP_SIZE <= m
        BY <3>3, <3>4, <4>2, SlotDistance
      <4> QED BY <1>3, <1>4, <3>3, <4>1, <4>2
    <3>6. m < k
      BY <3>3, <3>5
    <3>7. m + SEQ_MOD <= k
      BY <3>2, <3>3, <3>6, SeqDistance
    <3> QED BY <3>2, <3>7
  <2> QED BY <2>2, <2>3, <2>4, <2>5, <2>6
<1>11. CASE ~Holds(map, seq)
  <2>1. /\ seq_map' = Store(map, seq) /\ accepted' = accepted \cup {k}
        /\ last_update' = ts[p] /\ dropped' = dropped
        /\ pc'[p] = "write" /\ copy' = copy /\ ts' = ts
    BY <1>11 DEF IsDuplicate, TypeOK, map
  <2>2. \A s \in Slot : seq_map'[s] = IF s = SlotOf(seq) THEN seq ELSE map[s]
    BY <1>5, <1>6, <2>1 DEF Store
  <2>3. k \notin accepted
    BY <1>2, <1>3, <1>7, <1>11 DEF Holds
  <2>4. Numbering' /\ Clocks'
    BY <1>1, <1>9, <2>1 DEF Numbering, Clocks
  <2>5. InWindow'
    <3>1. UnderWay' \subseteq UnderWay
      BY <1>1, <1>9, <2>1 DEF UnderWay
    <3> QED BY <1>1, <3>1 DEF InWindow
  <2>6. Writing'
    BY <1>1, <1>2, <1>9, <2>1, <2>3 DEF Writing, TypeOK
  <2>7. Remembered'
    <3> SUFFICES ASSUME NEW n \in accepted'
                 PROVE  /\ n < sent
                        /\ sentAt[n] <= ts[p] + LIFE
                        /\ sent <= n + SKEW /\ now <= sentAt[n] + LIFE
                             => seq_map'[SlotOf(SeqOf(n))] = SeqOf(n)
      BY <1>1, <2>1 DEF Remembered
    <3>1. n \in Pkt /\ n < sent
      BY <1>2, <2>1 DEF Remembered, TypeOK
    <3>2. sentAt[n] <= ts[p] + LIFE
      BY <1>2, <1>3, <1>4, <3>1
    <3>3. SlotOf(SeqOf(n)) \in Slot
      BY <1>4, <3>1, SeqTypes
    <3>4. ASSUME sent <= n + SKEW, now <= sentAt[n] + LIFE
          PROVE  seq_map'[SlotOf(SeqOf(n))] = SeqOf(n)
      <4>1. CASE n = k
        BY <1>2, <2>2, <3>3, <4>1
      <4>2. CASE n # k
        <5>1. SlotOf(SeqOf(n)) # SlotOf(SeqOf(k))
          BY <1>2, <1>3, <1>4, <3>1, <3>4, <4>2, SlotOwner
        <5>2. n \in accepted
          BY <2>1, <4>2
        <5> QED BY <1>2, <1>7, <2>2, <3>3, <3>4, <5>1, <5>2
      <4> QED BY <4>1, <4>2
    <3> QED BY <3>1, <3>2, <3>4
  <2>8. Entries'
    BY <1>2, <1>8, <2>1, <2>2 DEF Entries
  <2>9. DropsExplained'
    BY <2>1 DEF DropsExplained
  <2> QED BY <2>4, <2>5, <2>6, <2>7, <2>8, <2>9
<1> QED BY <1>10, <1>11

LEMMA InvStep ==
  ASSUME NetworkBounds
  PROVE  IInv /\ [Next]_vars => IInv'
<1> SUFFICES ASSUME IInv, [Next]_vars PROVE IInv'
  OBVIOUS
<1>1. TypeOK'
  BY TypeStep DEF IInv
<1>2. CASE SendToGateway
  BY <1>1, <1>2, SendStep
<1>3. CASE Tick
  BY <1>1, <1>3, TickStep
<1>4. ASSUME NEW c \in net, Lose(c) PROVE IInv'
  BY <1>1, <1>4, LoseStep
<1>5. ASSUME NEW p \in Path, NEW c \in net, Receive(p, c) PROVE IInv'
  BY <1>1, <1>5, ReceiveStep
<1>6. ASSUME NEW p \in Path, IsDuplicate(p) PROVE IInv'
  BY <1>1, <1>6, IsDuplicateStep
<1>7. ASSUME NEW p \in Path, WriteTun(p) PROVE IInv'
  BY <1>1, <1>7, WriteStep
<1>8. CASE UNCHANGED vars
  <2>1. UnderWay' = UnderWay
    BY <1>8 DEF vars, workerVars, UnderWay
  <2> QED
    BY <1>8, <2>1
    DEF vars, senderVars, workerVars, dedupVars, IInv, TypeOK, Numbering,
        InWindow, Clocks, Remembered, Entries, Writing, DropsExplained
<1> QED BY <1>2, <1>3, <1>4, <1>5, <1>6, <1>7, <1>8 DEF Next

-----------------------------------------------------------------------------
(* The theorems *)

LEMMA Inductive ==
  ASSUME NetworkBounds
  PROVE  Spec => []IInv
BY InvInit, InvStep, PTL DEF Spec

\* No packet is written to the client's TUN device twice, whatever the
\* receiver threads of uctun.c interleave and the network loses, repeats and
\* reorders within NetworkBounds.
THEOREM DownlinkAtMostOnce ==
  ASSUME NetworkBounds
  PROVE  Spec => []AtMostOnce
<1>1. IInv => AtMostOnce
  BY DEF IInv, Writing, AtMostOnce
<1> QED BY <1>1, Inductive, PTL

\* A packet of which no copy was accepted is dropped only for carrying the
\* number a cleared entry reads, or for meeting a packet at least one whole
\* lap of the counter older in its slot.
THEOREM DownlinkDropsExplained ==
  ASSUME NetworkBounds
  PROVE  Spec => []DropsExplained
<1>1. IInv => DropsExplained
  BY DEF IInv
<1> QED BY <1>1, Inductive, PTL

\* The downlink implements at-most-once packet delivery: numbering a packet is
\* accepting it, the write to the TUN device is the delivery.
THEOREM DownlinkImplements ==
  ASSUME NetworkBounds
  PROVE  Spec => Implements
<1>1. Init => Delivery!DInit
  BY DEF Init, Delivery!DInit, Pkt
<1>2. IInv /\ [Next]_vars => [Delivery!DNext]_(Delivery!dvars)
  <2> SUFFICES ASSUME IInv, [Next]_vars
               PROVE  [Delivery!DNext]_(Delivery!dvars)
    OBVIOUS
  <2> USE DEF Delivery!dvars
  <2>1. CASE SendToGateway
    BY <2>1 DEF SendToGateway, Delivery!DNext, Delivery!Accept
  <2>2. ASSUME NEW p \in Path, WriteTun(p)
        PROVE  [Delivery!DNext]_(Delivery!dvars)
    <3> DEFINE n == copy[p].n
    <3>1. n \in Pkt /\ n < sent /\ written[n] = 0
      BY <2>2 DEF WriteTun, IInv, TypeOK, Copy, Numbering, Writing
    <3>2. written' = [written EXCEPT ![n] = 1]
      BY <2>2, <3>1 DEF WriteTun, IInv, TypeOK
    <3>3. Delivery!Deliver(n)
      BY <2>2, <3>1, <3>2 DEF WriteTun, senderVars, Delivery!Deliver
    <3> QED BY <3>1, <3>3 DEF Delivery!DNext, Pkt
  <2>3. CASE Tick
    BY <2>3 DEF Tick, senderVars
  <2>4. ASSUME NEW c \in net, Lose(c)
        PROVE  UNCHANGED Delivery!dvars
    BY <2>4 DEF Lose, senderVars
  <2>5. ASSUME NEW p \in Path, NEW c \in net, Receive(p, c)
        PROVE  UNCHANGED Delivery!dvars
    BY <2>5 DEF Receive, senderVars
  <2>6. ASSUME NEW p \in Path, IsDuplicate(p)
        PROVE  UNCHANGED Delivery!dvars
    BY <2>6 DEF IsDuplicate, senderVars
  <2>7. CASE UNCHANGED vars
    BY <2>7 DEF vars, senderVars
  <2> QED BY <2>1, <2>2, <2>3, <2>4, <2>5, <2>6, <2>7 DEF Next
<1> QED BY <1>1, <1>2, Inductive, PTL DEF Spec, Implements, Delivery!DSpec

-----------------------------------------------------------------------------
(* A server that is restarted: the inductive invariant *)

\* Within a run the numbers go up by one, modulo SEQ_MOD, from wherever the
\* counter was; what a run starts with does not matter.
Runs ==
  /\ \A n \in Pkt : n < sent => runOf[n] <= run
  /\ \A m, n \in Pkt : m < n /\ n < sent /\ runOf[m] = runOf[n] =>
       seqOf[n] = (seqOf[m] + (n - m)) % SEQ_MOD
  /\ \A m \in Pkt : m < sent /\ runOf[m] = run =>
       sequence = (seqOf[m] + (sent - m)) % SEQ_MOD

\* Copies carry their packet's number, and those that will be looked up are
\* of the current run; nothing is judged that was not sent.
Carried ==
  /\ \A c \in UnderWay : c.n < sent /\ c.seq = seqOf[c.n] /\ runOf[c.n] = run
  /\ \A p \in Path : pc[p] # "recv" => copy[p].n < sent
  /\ \A n \in dropped : n < sent

\* Remembered, of the packets of the current run.
RRemembered ==
  \A n \in accepted :
    /\ n < sent
    /\ sentAt[n] <= last_update + LIFE
    /\ runOf[n] = run /\ sent <= n + SKEW /\ now <= sentAt[n] + LIFE
         => seq_map[SlotOf(seqOf[n])] = seqOf[n]

REntries ==
  \A s \in Slot :
    seq_map[s] = EMPTY \/ \E m \in accepted : seq_map[s] = seqOf[m]

RInv ==
  /\ RTypeOK
  /\ Runs
  /\ Carried
  /\ InWindow
  /\ Clocks
  /\ RRemembered
  /\ REntries
  /\ Writing
  /\ RestartDropsExplained

-----------------------------------------------------------------------------
(* A server that is restarted: types and numbers *)

LEMMA RTypeInit == RInit => RTypeOK
<1> SUFFICES ASSUME RInit PROVE RTypeOK
  OBVIOUS
<1>1. TypeOK
  BY TypeInit DEF RInit
<1>2. 0 \in SeqNo /\ 0 \in 0 .. MaxRestarts
  BY SeqTypes, RestartAssumption DEF SeqNo
<1> QED BY <1>1, <1>2 DEF RInit, RTypeOK

LEMMA RTypeStep == RTypeOK /\ [RNext]_rvars => RTypeOK'
<1> SUFFICES ASSUME RTypeOK, [RNext]_rvars PROVE RTypeOK'
  OBVIOUS
<1> USE DEF RTypeOK
<1>1. CASE ServerRestart
  <2>1. 0 \in SeqNo
    BY SeqTypes DEF SeqNo
  <2>2. run' \in 0 .. MaxRestarts
    BY <1>1, RestartAssumption DEF ServerRestart
  <2> QED BY <1>1, <2>1, <2>2 DEF ServerRestart, TypeOK, workerVars, dedupVars
<1>2. CASE RSend
  <2>1. TypeOK'
    BY <1>2, TypeStep DEF RSend, Next
  <2>2. sent \in Pkt /\ sequence \in SeqNo
    BY <1>2, DownlinkAssumption DEF RSend, SendToGateway, TypeOK, Pkt
  <2> QED BY <1>2, <2>1, <2>2 DEF RSend
<1>3. CASE ClientOrNetwork
  <2>1. Next /\ UNCHANGED <<run, runOf, seqOf>>
    BY <1>3 DEF ClientOrNetwork, Next
  <2> QED BY <2>1, TypeStep
<1>4. CASE UNCHANGED rvars
  BY <1>4, TypeStep DEF rvars
<1> QED BY <1>1, <1>2, <1>3, <1>4 DEF RNext

\* Type correctness of the downlink with restarts of the server.
THEOREM RestartTypeCorrect == RSpec => []RTypeOK
BY RTypeInit, RTypeStep, PTL DEF RSpec

\* How far on a counter is when it shows a number, or selects a slot, again.
LEMMA Again ==
  ASSUME NEW q \in SeqNo, NEW d \in Nat \ {0}
  PROVE  /\ (q + d) % SEQ_MOD = q => SEQ_MOD <= d
         /\ SlotOf((q + d) % SEQ_MOD) = SlotOf(q) => SEQ_MAP_SIZE <= d
<1>1. /\ SEQ_MOD \in Nat \ {0} /\ SEQ_MAP_SIZE \in Nat
      /\ q \in Nat /\ q + d \in Nat /\ q < q + d /\ q < SEQ_MOD
  BY SeqTypes, SeqSpaceAssumption DEF SeqNo
<1>2. SeqOf(q) = q
  <2> DEFINE M == SEQ_MOD
  <2>1. \A m \in Nat \ {0} : q < m => q % m = q
    BY <1>1
  <2> QED BY <1>1, <2>1 DEF SeqOf
<1>3. SeqOf(q + d) = (q + d) % SEQ_MOD
  BY DEF SeqOf
<1>4. SeqOf(q + d) = SeqOf(q) => q + SEQ_MOD <= q + d
  BY <1>1, SeqDistance
<1>5. SlotOf(SeqOf(q + d)) = SlotOf(SeqOf(q)) => q + SEQ_MAP_SIZE <= q + d
  BY <1>1, SlotDistance
<1> QED BY <1>1, <1>2, <1>3, <1>4, <1>5

LEMMA SameRun ==
  ASSUME RTypeOK, Runs, NEW m \in Pkt, NEW n \in Pkt, m < n, n < sent, runOf[m] = runOf[n]
  PROVE  /\ seqOf[m] = seqOf[n] => m + SEQ_MOD <= n
         /\ SlotOf(seqOf[m]) = SlotOf(seqOf[n]) => m + SEQ_MAP_SIZE <= n
<1>1. seqOf[n] = (seqOf[m] + (n - m)) % SEQ_MOD
  BY DEF Runs
<1>2. seqOf[m] \in SeqNo /\ m \in Nat /\ n \in Nat /\ n - m \in Nat \ {0}
  BY DownlinkAssumption DEF RTypeOK, Pkt
<1>3. SEQ_MOD \in Nat /\ SEQ_MAP_SIZE \in Nat
  BY SeqTypes, SeqSpaceAssumption
<1> DEFINE d == n - m
<1> HIDE DEF d
<1>4. /\ (seqOf[m] + d) % SEQ_MOD = seqOf[m] => SEQ_MOD <= d
      /\ SlotOf((seqOf[m] + d) % SEQ_MOD) = SlotOf(seqOf[m]) => SEQ_MAP_SIZE <= d
  BY <1>2, Again DEF d
<1> QED BY <1>1, <1>2, <1>3, <1>4 DEF d

\* Two packets of the current run whose copies are under way, or could be,
\* share no slot.
LEMMA RSlotOwner ==
  ASSUME RTypeOK, Runs, SKEW <= SEQ_MAP_SIZE, NEW i \in Pkt, NEW j \in Pkt,
         i < sent, j < sent, sent <= i + SKEW, sent <= j + SKEW,
         runOf[i] = runOf[j], SlotOf(seqOf[i]) = SlotOf(seqOf[j])
  PROVE  i = j
<1>1. /\ SKEW \in Nat /\ SEQ_MAP_SIZE \in Nat /\ i \in Nat /\ j \in Nat /\ sent \in Nat
  BY SeqSpaceAssumption, DownlinkAssumption DEF RTypeOK, TypeOK, Pkt
<1>2. ~(i < j)
  BY <1>1, SameRun
<1>3. ~(j < i)
  BY <1>1, SameRun
<1> QED BY <1>1, <1>2, <1>3

-----------------------------------------------------------------------------
(* A server that is restarted: the invariant is inductive *)

LEMMA RInvInit == RInit => RInv
<1> SUFFICES ASSUME RInit PROVE RInv
  OBVIOUS
<1>1. RTypeOK
  BY RTypeInit
<1>2. /\ \A p \in Path : pc[p] = "recv"
      /\ sent = 0 /\ UnderWay = {} /\ accepted = {} /\ dropped = {} /\ seq_map = Cleared
      /\ \A n \in Pkt : n \in Nat /\ written[n] = 0 /\ sentAt[n] = 0
      /\ now = 0
  BY DownlinkAssumption DEF RInit, Init, UnderWay, Pkt
<1>3. Runs /\ Carried /\ InWindow
  BY <1>2 DEF Runs, Carried, InWindow
<1>4. Clocks /\ RRemembered /\ Writing /\ RestartDropsExplained
  BY <1>2 DEF Clocks, RRemembered, Writing, RestartDropsExplained
<1>5. REntries
  BY <1>2 DEF REntries, Cleared
<1> QED BY <1>1, <1>3, <1>4, <1>5 DEF RInv

\* A restart waits for the previous run's copies; of the new run nothing is
\* sent yet, and the client keeps its table.
LEMMA RRestartStep ==
  ASSUME RInv, RTypeOK', ServerRestart
  PROVE  RInv'
<1> USE DEF RInv
<1>1. /\ UnderWay = {} /\ run' = run + 1 /\ run \in Nat
      /\ net' = net /\ pc' = pc /\ copy' = copy /\ ts' = ts /\ now' = now
      /\ seq_map' = seq_map /\ last_update' = last_update
      /\ accepted' = accepted /\ dropped' = dropped
      /\ sent' = sent /\ sentAt' = sentAt /\ written' = written
      /\ runOf' = runOf /\ seqOf' = seqOf
  BY RestartAssumption DEF ServerRestart, workerVars, dedupVars, RTypeOK
<1>2. UnderWay' = {}
  BY <1>1 DEF UnderWay
<1>3. \A n \in Pkt : runOf[n] \in Nat /\ (n < sent => runOf[n] < run')
  BY <1>1, RestartAssumption DEF Runs, RTypeOK
<1>4. Runs'
  <2>1. \A n \in Pkt : n < sent => runOf[n] <= run' /\ runOf[n] # run'
    BY <1>1, <1>3
  <2> QED BY <1>1, <2>1 DEF Runs
<1>5. Carried' /\ InWindow'
  BY <1>1, <1>2 DEF Carried, InWindow
<1>6. RRemembered'
  <2>1. \A n \in accepted : runOf[n] # run'
    <3>1. \A n \in accepted : n \in Pkt /\ n < sent
      BY DEF RTypeOK, TypeOK, RRemembered
    <3> QED BY <1>1, <1>3, <3>1
  <2> QED BY <1>1, <2>1 DEF RRemembered
<1>7. Clocks' /\ REntries' /\ Writing' /\ RestartDropsExplained'
  BY <1>1 DEF Clocks, REntries, Writing, RestartDropsExplained
<1> QED BY <1>4, <1>5, <1>6, <1>7

LEMMA RSendStep ==
  ASSUME RInv, RTypeOK', RSend
  PROVE  RInv'
<1> USE DEF RInv
<1>1. /\ sent \in Pkt /\ sent' = sent + 1 /\ sent \in Nat
      /\ now' = now /\ now \in Nat /\ run' = run /\ run \in Nat
      /\ \A n \in Pkt : n # sent => /\ sentAt'[n] = sentAt[n] /\ runOf'[n] = runOf[n]
                                    /\ seqOf'[n] = seqOf[n]
      /\ sentAt'[sent] = now /\ runOf'[sent] = run /\ seqOf'[sent] = sequence
      /\ sequence' = (sequence + 1) % SEQ_MOD /\ sequence \in SeqNo
  BY DownlinkAssumption, RestartAssumption
  DEF RSend, SendToGateway, RTypeOK, TypeOK, Pkt
<1>2. /\ pc' = pc /\ copy' = copy /\ ts' = ts /\ seq_map' = seq_map
      /\ last_update' = last_update /\ accepted' = accepted
      /\ dropped' = dropped /\ written' = written
      /\ \A c \in UnderWay : sent + 1 - c.n <= SKEW
  BY DEF RSend, SendToGateway, workerVars, dedupVars
<1>3. \A c \in net' : c \in net \/ (c.n = sent /\ c.seq = sequence)
  BY DEF RSend, SendToGateway
<1>4. \A c \in UnderWay' : c \in UnderWay \/ (c.n = sent /\ c.seq = sequence)
  BY <1>2, <1>3 DEF UnderWay
<1>6. \A n \in Pkt : n \in Nat /\ (n < sent => n # sent /\ n < sent')
  BY <1>1, DownlinkAssumption DEF Pkt
<1>5. /\ \A c \in UnderWay : c.n \in Pkt /\ c.n \in Nat /\ c.n < sent /\ c.n # sent
      /\ \A p \in Path : pc[p] # "recv" =>
           copy[p].n \in Pkt /\ copy[p].n # sent /\ copy[p].n < sent'
  <2>1. \A c \in UnderWay : c \in Copy
    BY DEF UnderWay, RTypeOK, TypeOK
  <2>2. \A c \in UnderWay : c.n \in Pkt /\ c.n < sent
    BY <2>1 DEF Carried, Copy
  <2>3. \A p \in Path : pc[p] # "recv" => copy[p].n \in Pkt /\ copy[p].n < sent
    BY DEF Carried, RTypeOK, TypeOK, Copy
  <2> QED BY <1>6, <2>2, <2>3
<1>7. Runs'
  <2> SUFFICES
        /\ \A n \in Pkt : n < sent' => runOf'[n] <= run
        /\ \A m, n \in Pkt : m < n /\ n < sent' /\ runOf'[m] = runOf'[n] =>
             seqOf'[n] = (seqOf'[m] + (n - m)) % SEQ_MOD
        /\ \A m \in Pkt : m < sent' /\ runOf'[m] = run =>
             sequence' = (seqOf'[m] + (sent' - m)) % SEQ_MOD
    BY <1>1 DEF Runs
  <2>1. \A n \in Pkt : n < sent' => n = sent \/ (n # sent /\ n < sent)
    BY <1>1, <1>6
  <2>2. \A n \in Pkt : n < sent' => runOf'[n] <= run
    BY <1>1, <2>1 DEF Runs
  <2>3. ASSUME NEW m \in Pkt, NEW n \in Pkt, m < n, n < sent', runOf'[m] = runOf'[n]
        PROVE  seqOf'[n] = (seqOf'[m] + (n - m)) % SEQ_MOD
    <3>1. m < sent /\ m # sent /\ seqOf'[m] = seqOf[m] /\ runOf'[m] = runOf[m]
      BY <1>1, <1>6, <2>3
    <3>2. CASE n = sent
      BY <1>1, <2>3, <3>1, <3>2 DEF Runs
    <3>3. CASE n # sent
      <4>1. n < sent /\ seqOf'[n] = seqOf[n] /\ runOf'[n] = runOf[n]
        BY <1>1, <1>6, <2>3, <3>3
      <4> QED BY <2>3, <3>1, <4>1 DEF Runs
    <3> QED BY <3>2, <3>3
  <2>4. ASSUME NEW m \in Pkt, m < sent', runOf'[m] = run
        PROVE  sequence' = (seqOf'[m] + (sent' - m)) % SEQ_MOD
    <3>1. CASE m = sent
      <4>1. sent' - m = 1 /\ seqOf'[m] = sequence
        BY <1>1, <3>1
      <4> QED BY <1>1, <4>1
    <3>2. CASE m # sent
      <4>1. m < sent /\ seqOf'[m] = seqOf[m] /\ runOf'[m] = runOf[m]
        BY <1>1, <1>6, <2>4, <3>2
      <4> DEFINE x == seqOf[m] + (sent - m)
      <4>2. x \in Nat /\ x + 1 = seqOf[m] + (sent' - m)
        <5>1. seqOf[m] \in Nat
          BY DEF RTypeOK, SeqNo
        <5> QED BY <1>1, <1>6, <4>1, <5>1
      <4>3. sequence = SeqOf(x)
        BY <2>4, <4>1 DEF Runs, SeqOf
      <4> HIDE DEF x
      <4>4. sequence' = SeqOf(x + 1)
        BY <1>1, <4>2, <4>3, SeqSuccessor
      <4> QED BY <4>1, <4>2, <4>4 DEF SeqOf
    <3> QED BY <3>1, <3>2
  <2> QED BY <2>2, <2>3, <2>4
<1>8. Carried'
  <2>1. ASSUME NEW c \in UnderWay'
        PROVE  c.n < sent' /\ c.seq = seqOf'[c.n] /\ runOf'[c.n] = run'
    <3>1. CASE c \in UnderWay
      <4>1. c.n \in Pkt /\ c.n # sent /\ c.n < sent'
        BY <1>5, <1>6, <3>1
      <4> QED BY <1>1, <3>1, <4>1 DEF Carried
    <3>2. CASE c.n = sent /\ c.seq = sequence
      BY <1>1, <3>2
    <3> QED BY <1>4, <3>1, <3>2
  <2>2. \A p \in Path : pc'[p] # "recv" => copy'[p].n < sent'
    BY <1>2, <1>5
  <2>3. \A n \in dropped' : n < sent'
    BY <1>1, <1>2, <1>6 DEF Carried, RTypeOK, TypeOK
  <2> QED BY <2>1, <2>2, <2>3 DEF Carried
<1>9. InWindow'
  <2> SUFFICES ASSUME NEW c \in UnderWay'
               PROVE  sent' <= c.n + SKEW /\ now' <= sentAt'[c.n] + LIFE
    BY DEF InWindow
  <2>1. CASE c \in UnderWay
    <3>1. /\ c.n \in Pkt /\ c.n \in Nat /\ c.n # sent /\ sent + 1 - c.n <= SKEW
          /\ now <= sentAt[c.n] + LIFE
      BY <1>2, <1>5, <2>1 DEF InWindow
    <3> QED BY <1>1, <3>1, DownlinkAssumption
  <2>2. CASE c.n = sent
    BY <1>1, <2>2, DownlinkAssumption
  <2> QED BY <1>4, <2>1, <2>2
<1>10. Clocks'
  <2>1. \A n \in Pkt : sentAt'[n] <= now'
    BY <1>1 DEF Clocks
  <2>2. \A p \in Path : pc[p] # "recv" => sentAt'[copy[p].n] = sentAt[copy[p].n]
    BY <1>1, <1>5
  <2> QED BY <1>1, <1>2, <2>1, <2>2 DEF Clocks
<1>11. RRemembered'
  <2> SUFFICES ASSUME NEW n \in accepted
               PROVE  /\ n < sent'
                      /\ sentAt'[n] <= last_update' + LIFE
                      /\ runOf'[n] = run' /\ sent' <= n + SKEW /\ now' <= sentAt'[n] + LIFE
                           => seq_map'[SlotOf(seqOf'[n])] = seqOf'[n]
    BY <1>2 DEF RRemembered
  <2>1. n \in Pkt /\ n < sent /\ n \in Nat /\ n # sent
    BY <1>1, <1>6 DEF RRemembered, RTypeOK, TypeOK
  <2>2. sent' <= n + SKEW => sent <= n + SKEW
    BY <1>1, <2>1, DownlinkAssumption
  <2> QED BY <1>1, <1>2, <2>1, <2>2 DEF RRemembered
<1>12. REntries' /\ Writing' /\ RestartDropsExplained'
  <2>1. \A n \in accepted : n \in Pkt /\ n < sent /\ n # sent
    BY <1>1, <1>6 DEF RRemembered, RTypeOK, TypeOK
  <2>2. REntries'
    BY <1>1, <1>2, <2>1 DEF REntries
  <2>3. Writing'
    BY <1>2 DEF Writing
  <2>4. RestartDropsExplained'
    <3>1. \A n \in dropped : n \in Pkt /\ n < sent /\ n # sent
      BY <1>1, <1>6 DEF Carried, RTypeOK, TypeOK
    <3> QED BY <1>1, <1>2, <2>1, <3>1 DEF RestartDropsExplained
  <2> QED BY <2>2, <2>3, <2>4
<1> QED BY <1>7, <1>8, <1>9, <1>10, <1>11, <1>12

LEMMA RTickStep ==
  ASSUME RInv, RTypeOK', Tick, UNCHANGED <<run, runOf, seqOf>>
  PROVE  RInv'
<1> USE DEF RInv
<1>1. /\ sequence' = sequence /\ sent' = sent /\ sentAt' = sentAt
      /\ net' = net /\ pc' = pc /\ copy' = copy /\ ts' = ts
      /\ seq_map' = seq_map /\ last_update' = last_update
      /\ accepted' = accepted /\ dropped' = dropped /\ written' = written
      /\ now' = now + 1 /\ now \in Nat
      /\ \A c \in UnderWay : now + 1 - sentAt[c.n] <= LIFE
  BY DEF Tick, senderVars, workerVars, dedupVars, RTypeOK, TypeOK
<1>2. UnderWay' = UnderWay
  BY <1>1 DEF UnderWay
<1>3. Runs' /\ Carried' /\ REntries' /\ Writing' /\ RestartDropsExplained'
  BY <1>1, <1>2 DEF Runs, Carried, REntries, Writing, RestartDropsExplained
<1>4. InWindow'
  <2>1. \A c \in UnderWay : c.n \in Pkt
    BY DEF UnderWay, RTypeOK, TypeOK, Copy
  <2>2. \A n \in Pkt : sentAt[n] \in Nat
    BY DEF RTypeOK, TypeOK
  <2> QED BY <1>1, <1>2, <2>1, <2>2, DownlinkAssumption DEF InWindow
<1>5. Clocks'
  <2>1. \A p \in Path : ts[p] \in Nat
    BY DEF RTypeOK, TypeOK
  <2>2. \A n \in Pkt : sentAt[n] \in Nat
    BY DEF RTypeOK, TypeOK
  <2> QED BY <1>1, <2>1, <2>2 DEF Clocks
<1>6. RRemembered'
  <2>1. \A n \in accepted : sentAt[n] \in Nat
    BY DEF RTypeOK, TypeOK
  <2> QED BY <1>1, <2>1, DownlinkAssumption DEF RRemembered
<1> QED BY <1>3, <1>4, <1>5, <1>6

LEMMA RLoseStep ==
  ASSUME RInv, RTypeOK', NEW c \in net, Lose(c), UNCHANGED <<run, runOf, seqOf>>
  PROVE  RInv'
<1> USE DEF RInv
<1>1. /\ sequence' = sequence /\ sent' = sent /\ sentAt' = sentAt
      /\ net' \subseteq net /\ pc' = pc /\ copy' = copy /\ ts' = ts
      /\ seq_map' = seq_map /\ last_update' = last_update
      /\ accepted' = accepted /\ dropped' = dropped /\ written' = written
      /\ now' = now
  BY DEF Lose, senderVars, workerVars, dedupVars
<1>2. UnderWay' \subseteq UnderWay
  BY <1>1 DEF UnderWay
<1>3. Carried' /\ InWindow'
  BY <1>1, <1>2 DEF Carried, InWindow
<1> QED BY <1>1, <1>3 DEF Runs, Clocks, RRemembered, REntries, Writing, RestartDropsExplained

LEMMA RReceiveStep ==
  ASSUME RInv, RTypeOK', NEW p \in Path, NEW c \in net, Receive(p, c), UNCHANGED <<run, runOf, seqOf>>
  PROVE  RInv'
<1> USE DEF RInv
<1>1. /\ sequence' = sequence /\ sent' = sent /\ sentAt' = sentAt
      /\ net' \subseteq net
      /\ seq_map' = seq_map /\ last_update' = last_update
      /\ accepted' = accepted /\ dropped' = dropped /\ written' = written
      /\ now' = now
  BY DEF Receive, senderVars, dedupVars
<1>2. /\ pc[p] = "recv" /\ pc'[p] = "check" /\ copy'[p] = c /\ ts'[p] = now
      /\ \A q \in Path : q # p => pc'[q] = pc[q] /\ copy'[q] = copy[q] /\ ts'[q] = ts[q]
  BY DEF Receive, RTypeOK, TypeOK
<1>3. c \in UnderWay /\ c.n \in Pkt
  BY DEF UnderWay, RTypeOK, TypeOK, Copy
<1>4. UnderWay' \subseteq UnderWay
  BY <1>1, <1>2, <1>3 DEF UnderWay
<1>5. Carried' /\ InWindow'
  BY <1>1, <1>2, <1>3, <1>4 DEF Carried, InWindow
<1>6. Clocks'
  BY <1>1, <1>2, <1>3 DEF Clocks, RTypeOK, TypeOK
<1>7. Writing'
  BY <1>1, <1>2 DEF Writing
<1> QED BY <1>1, <1>5, <1>6, <1>7 DEF Runs, RRemembered, REntries, RestartDropsExplained

LEMMA RWriteStep ==
  ASSUME RInv, RTypeOK', NEW p \in Path, WriteTun(p), UNCHANGED <<run, runOf, seqOf>>
  PROVE  RInv'
<1> USE DEF RInv
<1>1. /\ sequence' = sequence /\ sent' = sent /\ sentAt' = sentAt
      /\ net' = net
      /\ seq_map' = seq_map /\ last_update' = last_update
      /\ accepted' = accepted /\ dropped' = dropped
      /\ now' = now
  BY DEF WriteTun, senderVars, dedupVars
<1>2. /\ pc[p] = "write" /\ pc'[p] = "recv"
      /\ \A q \in Path : q # p => pc'[q] = pc[q] /\ copy'[q] = copy[q] /\ ts'[q] = ts[q]
  BY DEF WriteTun, Done, RTypeOK, TypeOK
<1>3. copy[p].n \in Pkt
  BY <1>2 DEF RTypeOK, TypeOK, Copy
<1>4. /\ written'[copy[p].n] = written[copy[p].n] + 1
      /\ \A n \in Pkt : n # copy[p].n => written'[n] = written[n]
  BY <1>3 DEF WriteTun, RTypeOK, TypeOK
<1>5. UnderWay' \subseteq UnderWay
  BY <1>1, <1>2 DEF UnderWay
<1>6. Carried' /\ InWindow' /\ Clocks'
  BY <1>1, <1>2, <1>5 DEF Carried, InWindow, Clocks
<1>7. Writing'
  <2>1. \A q \in Path : pc[q] = "write" => copy[q].n \in Pkt
    BY DEF RTypeOK, TypeOK, Copy
  <2> QED BY <1>1, <1>2, <1>3, <1>4, <2>1 DEF Writing, RTypeOK, TypeOK
<1> QED BY <1>1, <1>6, <1>7 DEF Runs, RRemembered, REntries, RestartDropsExplained

\* The copy in hand is of the current run, and so is every packet the table
\* must remember; one of an earlier run in its slot is a reason to drop it.
LEMMA RIsDuplicateStep ==
  ASSUME NetworkBounds, RInv, RTypeOK', NEW p \in Path, IsDuplicate(p),
         UNCHANGED <<run, runOf, seqOf>>
  PROVE  RInv'
<1> USE DEF RInv
<1>k. PICK k \in Pkt, seq \in SeqNo : k = copy[p].n /\ seq = copy[p].seq
  BY DEF IsDuplicate, RTypeOK, TypeOK, Copy
<1> DEFINE idle == Idle(ts[p], last_update)
           map == IF idle THEN Cleared ELSE seq_map
<1>1. /\ sequence' = sequence /\ sent' = sent /\ sentAt' = sentAt
      /\ net' = net /\ written' = written /\ now' = now
      /\ pc[p] = "check"
  BY DEF IsDuplicate, senderVars
<1>2. copy[p] \in UnderWay /\ k < sent /\ seq = seqOf[k] /\ runOf[k] = run
  BY <1>1, <1>k DEF UnderWay, Carried
<1>3. /\ sent <= k + SKEW /\ now <= sentAt[k] + LIFE
      /\ sentAt[k] <= ts[p] /\ ts[p] <= now
  BY <1>1, <1>2, <1>k DEF InWindow, Clocks
<1>4. /\ sent \in Nat /\ now \in Nat /\ last_update \in Nat /\ ts[p] \in Nat
      /\ \A n \in Pkt : /\ n \in Nat /\ sentAt[n] \in Nat /\ sentAt[n] <= now
                        /\ seqOf[n] \in SeqNo /\ SlotOf(seqOf[n]) \in Slot
                        /\ runOf[n] \in Nat
      /\ LIFE \in Nat /\ SKEW \in Nat /\ CONN_TIMEOUT \in Nat /\ 2 * LIFE <= CONN_TIMEOUT
  <2>1. 0 \in Nat
    OBVIOUS
  <2>2. \A q \in SeqNo : SlotOf(q) \in Slot
    BY <2>1, SeqTypes
  <2>3. \A r \in 0 .. MaxRestarts : r \in Nat
    BY RestartAssumption
  <2>4. sent \in Nat /\ now \in Nat /\ last_update \in Nat /\ ts[p] \in Nat
    BY DownlinkAssumption DEF RTypeOK, TypeOK
  <2>5. \A n \in Pkt : /\ n \in Nat /\ sentAt[n] \in Nat /\ sentAt[n] <= now
                       /\ seqOf[n] \in SeqNo /\ runOf[n] \in Nat
    BY <2>3, DownlinkAssumption DEF RTypeOK, TypeOK, Pkt, Clocks
  <2> QED BY <2>2, <2>4, <2>5, DownlinkAssumption, SeqMapAssumption DEF NetworkBounds
<1>5. map \in [Slot -> SeqNo]
  BY SeqMapAssumption DEF RTypeOK, TypeOK, Cleared
<1>6. \A n \in accepted : n \in Pkt /\ n < sent /\ sentAt[n] <= last_update + LIFE
  BY DEF RRemembered, RTypeOK, TypeOK
\* What the table says of the packets whose copies are under way survives the
\* idle test, whichever way it goes.
<1>7. \A n \in accepted : runOf[n] = run /\ sent <= n + SKEW /\ now <= sentAt[n] + LIFE
        => map[SlotOf(seqOf[n])] = seqOf[n]
  <2> SUFFICES ASSUME NEW n \in accepted, runOf[n] = run, sent <= n + SKEW, now <= sentAt[n] + LIFE
               PROVE  map[SlotOf(seqOf[n])] = seqOf[n]
    OBVIOUS
  <2>1. ~idle
    BY <1>3, <1>4, <1>6 DEF Idle
  <2> QED BY <2>1 DEF RRemembered
<1>8. \A s \in Slot : map[s] = EMPTY \/ \E m \in accepted : map[s] = seqOf[m]
  BY DEF REntries, Cleared
<1>9. \A q \in Path : q # p => pc'[q] = pc[q] /\ copy'[q] = copy[q] /\ ts'[q] = ts[q]
  BY DEF IsDuplicate, Done, RTypeOK, TypeOK
<1>10. pc'[p] # "check" => UnderWay' \subseteq UnderWay
  BY <1>1, <1>9 DEF UnderWay
<1> HIDE DEF map
<1>11. CASE Holds(map, seq)
  <2>1. /\ seq_map' = map /\ accepted' = accepted
        /\ idle => last_update' = ts[p]
        /\ ~idle => last_update' = last_update
        /\ dropped' = IF k \in accepted THEN dropped ELSE dropped \cup {k}
        /\ pc'[p] = "recv"
    BY <1>11, <1>k DEF IsDuplicate, Done, RTypeOK, TypeOK, map
  <2>2. Runs' /\ Clocks' /\ Writing' /\ InWindow'
    BY <1>1, <1>9, <1>10, <2>1 DEF Runs, Clocks, Writing, InWindow
  <2>3. Carried'
    BY <1>1, <1>2, <1>9, <1>10, <2>1 DEF Carried
  <2>4. RRemembered'
    <3>1. \A n \in accepted : sentAt[n] <= last_update' + LIFE
      BY <1>3, <1>4, <1>6, <2>1 DEF Idle
    <3> QED BY <1>1, <1>6, <1>7, <2>1, <3>1 DEF RRemembered
  <2>5. REntries'
    BY <1>8, <2>1 DEF REntries
  <2>6. RestartDropsExplained'
    <3> SUFFICES ASSUME k \notin accepted, seqOf[k] # EMPTY
                 PROVE  \E m \in accepted :
                          /\ seqOf[m] = seqOf[k]
                          /\ runOf[m] < runOf[k] \/ (runOf[m] = runOf[k] /\ m + SEQ_MOD <= k)
      BY <2>1 DEF RestartDropsExplained
    <3>1. map[SlotOf(seqOf[k])] = seqOf[k]
      BY <1>2, <1>11 DEF Holds
    <3>2. PICK m \in accepted : seqOf[m] = seqOf[k]
      BY <1>4, <1>8, <3>1
    <3>3. m \in Pkt /\ m < sent /\ m # k /\ runOf[m] <= run /\ m \in Nat /\ k \in Nat
          /\ runOf[m] \in Nat /\ runOf[k] \in Nat
      BY <1>4, <1>6 DEF Runs
    <3>4. CASE runOf[m] = runOf[k]
      <4>1. ~(k < m)
        <5>1. k < m => k + SEQ_MAP_SIZE <= m
          BY <3>2, <3>3, <3>4, SameRun
        <5> QED BY <1>3, <1>4, <3>3, <5>1, SeqSpaceAssumption DEF NetworkBounds
      <4>2. m < k
        BY <3>3, <4>1
      <4>3. m + SEQ_MOD <= k
        BY <1>2, <3>2, <3>3, <3>4, <4>2, SameRun
      <4> QED BY <3>2, <3>4, <4>3
    <3>5. CASE runOf[m] # runOf[k]
      BY <1>2, <3>2, <3>3, <3>5
    <3> QED BY <3>4, <3>5
  <2> QED BY <2>2, <2>3, <2>4, <2>5, <2>6
<1>12. CASE ~Holds(map, seq)
  <2>1. /\ seq_map' = Store(map, seq) /\ accepted' = accepted \cup {k}
        /\ last_update' = ts[p] /\ dropped' = dropped
        /\ pc'[p] = "write" /\ copy' = copy /\ ts' = ts
    BY <1>12, <1>k DEF IsDuplicate, RTypeOK, TypeOK, map
  <2>2. \A s \in Slot : seq_map'[s] = IF s = SlotOf(seq) THEN seq ELSE map[s]
    BY <1>5, <2>1 DEF Store
  <2>3. k \notin accepted
    BY <1>2, <1>3, <1>7, <1>12 DEF Holds
  <2>4. Runs' /\ Clocks' /\ InWindow'
    BY <1>1, <1>9, <1>10, <2>1 DEF Runs, Clocks, InWindow
  <2>5. Carried'
    BY <1>1, <1>9, <1>10, <2>1 DEF Carried
  <2>6. Writing'
    BY <1>1, <1>k, <1>9, <2>1, <2>3 DEF Writing, RTypeOK, TypeOK
  <2>7. RRemembered'
    <3> SUFFICES ASSUME NEW n \in accepted'
                 PROVE  /\ n < sent
                        /\ sentAt[n] <= ts[p] + LIFE
                        /\ runOf[n] = run /\ sent <= n + SKEW /\ now <= sentAt[n] + LIFE
                             => seq_map'[SlotOf(seqOf[n])] = seqOf[n]
      BY <1>1, <2>1 DEF RRemembered
    <3>1. n \in Pkt /\ n < sent
      BY <1>2, <1>6, <2>1
    <3>2. sentAt[n] <= ts[p] + LIFE
      BY <1>3, <1>4, <3>1
    <3>3. ASSUME runOf[n] = run, sent <= n + SKEW, now <= sentAt[n] + LIFE
          PROVE  seq_map'[SlotOf(seqOf[n])] = seqOf[n]
      <4>1. CASE n = k
        BY <1>2, <1>4, <2>2, <4>1
      <4>2. CASE n # k
        <5>1. SlotOf(seqOf[n]) # SlotOf(seqOf[k])
          BY <1>2, <1>3, <3>1, <3>3, <4>2, RSlotOwner DEF NetworkBounds
        <5>2. n \in accepted
          BY <2>1, <4>2
        <5> QED BY <1>2, <1>4, <1>7, <2>2, <3>1, <3>3, <5>1, <5>2
      <4> QED BY <4>1, <4>2
    <3> QED BY <3>1, <3>2, <3>3
  <2>8. REntries'
    BY <1>2, <1>8, <2>1, <2>2 DEF REntries
  <2>9. RestartDropsExplained'
    BY <2>1 DEF RestartDropsExplained
  <2> QED BY <2>4, <2>5, <2>6, <2>7, <2>8, <2>9
<1> QED BY <1>11, <1>12

LEMMA RInvStep ==
  ASSUME NetworkBounds
  PROVE  RInv /\ [RNext]_rvars => RInv'
<1> SUFFICES ASSUME RInv, [RNext]_rvars PROVE RInv'
  OBVIOUS
<1>1. RTypeOK'
  BY RTypeStep DEF RInv
<1>2. CASE ServerRestart
  BY <1>1, <1>2, RRestartStep
<1>3. CASE RSend
  BY <1>1, <1>3, RSendStep
<1>4. ASSUME Tick, UNCHANGED <<run, runOf, seqOf>> PROVE RInv'
  BY <1>1, <1>4, RTickStep
<1>5. ASSUME NEW c \in net, Lose(c), UNCHANGED <<run, runOf, seqOf>> PROVE RInv'
  BY <1>1, <1>5, RLoseStep
<1>6. ASSUME NEW p \in Path, NEW c \in net, Receive(p, c), UNCHANGED <<run, runOf, seqOf>>
      PROVE  RInv'
  BY <1>1, <1>6, RReceiveStep
<1>7. ASSUME NEW p \in Path, IsDuplicate(p), UNCHANGED <<run, runOf, seqOf>> PROVE RInv'
  BY <1>1, <1>7, RIsDuplicateStep
<1>8. ASSUME NEW p \in Path, WriteTun(p), UNCHANGED <<run, runOf, seqOf>> PROVE RInv'
  BY <1>1, <1>8, RWriteStep
<1>9. CASE UNCHANGED rvars
  <2>1. /\ UNCHANGED <<run, runOf, seqOf, sequence, sent, sentAt, net, pc, copy, ts, seq_map>>
        /\ UNCHANGED <<last_update, accepted, dropped, now, written>>
    BY <1>9 DEF rvars, vars, senderVars, workerVars, dedupVars
  <2>2. UnderWay' = UnderWay
    BY <2>1 DEF UnderWay
  <2>3. Runs' /\ Carried' /\ InWindow' /\ Clocks'
    BY <2>1, <2>2 DEF RInv, Runs, Carried, InWindow, Clocks
  <2>4. RRemembered' /\ REntries' /\ Writing' /\ RestartDropsExplained'
    BY <2>1 DEF RInv, RRemembered, REntries, Writing, RestartDropsExplained
  <2> QED BY <1>1, <2>3, <2>4 DEF RInv
<1> QED BY <1>2, <1>3, <1>4, <1>5, <1>6, <1>7, <1>8, <1>9 DEF RNext, ClientOrNetwork

-----------------------------------------------------------------------------
(* A server that is restarted: the theorems *)

LEMMA RInductive ==
  ASSUME NetworkBounds
  PROVE  RSpec => []RInv
BY RInvInit, RInvStep, PTL DEF RSpec

\* However often the server is restarted, a packet is thrown away unseen only
\* for the number a cleared entry reads, for an accepted packet of an earlier
\* run with its number, which the client was never told to forget, or for one
\* of its own run at least a whole lap of the counter older.
THEOREM RestartDrops ==
  ASSUME NetworkBounds
  PROVE  RSpec => []RestartDropsExplained
<1>1. RInv => RestartDropsExplained
  BY DEF RInv
<1> QED BY <1>1, RInductive, PTL

\* No restart of the server makes the client write a packet twice.
THEOREM RestartAtMostOnce ==
  ASSUME NetworkBounds
  PROVE  RSpec => []AtMostOnce
<1>1. RInv => AtMostOnce
  BY DEF RInv, Writing, AtMostOnce
<1> QED BY <1>1, RInductive, PTL

\* With restarts, too, the downlink is at-most-once delivery: a restart loses
\* what was on its way and delivers nothing.
THEOREM RestartImplements ==
  ASSUME NetworkBounds
  PROVE  RSpec => Implements
<1>1. RInit => Delivery!DInit
  BY DEF RInit, Init, Delivery!DInit, Pkt
<1>2. RInv /\ [RNext]_rvars => [Delivery!DNext]_(Delivery!dvars)
  <2> SUFFICES ASSUME RInv, [RNext]_rvars
               PROVE  [Delivery!DNext]_(Delivery!dvars)
    OBVIOUS
  <2> USE DEF Delivery!dvars
  <2>1. CASE RSend
    BY <2>1 DEF RSend, SendToGateway, Delivery!DNext, Delivery!Accept
  <2>2. ASSUME NEW p \in Path, WriteTun(p)
        PROVE  [Delivery!DNext]_(Delivery!dvars)
    <3> DEFINE n == copy[p].n
    <3>1. n \in Pkt /\ n < sent /\ written[n] = 0
      BY <2>2 DEF WriteTun, RInv, RTypeOK, TypeOK, Copy, Carried, Writing
    <3>2. written' = [written EXCEPT ![n] = 1]
      BY <2>2, <3>1 DEF WriteTun, RInv, RTypeOK, TypeOK
    <3>3. Delivery!Deliver(n)
      BY <2>2, <3>1, <3>2 DEF WriteTun, senderVars, Delivery!Deliver
    <3> QED BY <3>1, <3>3 DEF Delivery!DNext, Pkt
  <2>3. CASE ServerRestart
    BY <2>3 DEF ServerRestart
  <2>4. CASE UNCHANGED <<sent, written>>
    BY <2>4
  <2>5. ClientOrNetwork => (\E p \in Path : WriteTun(p)) \/ UNCHANGED <<sent, written>>
    BY DEF ClientOrNetwork, Tick, Lose, Receive, IsDuplicate, senderVars
  <2>6. UNCHANGED rvars => UNCHANGED <<sent, written>>
    BY DEF rvars, vars, senderVars
  <2> QED BY <2>1, <2>2, <2>3, <2>4, <2>5, <2>6 DEF RNext
<1> QED BY <1>1, <1>2, RInductive, PTL DEF RSpec, Implements, Delivery!DSpec

=============================================================================
