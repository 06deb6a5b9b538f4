--------------------------- MODULE Uplink_proofs ---------------------------
(***************************************************************************)
(* Safety of the uplink for every table size, number of paths, receiver    *)
(* threads, packets and restarts of the client: type correctness; a packet *)
(* settled outside a client's start is written once; and a handled start   *)
(* leaves nothing of the last run behind.                                  *)
(***************************************************************************)
EXTENDS Uplink, TLAPS

\* Every number below is counted by one client: two clients number their
\* packets from 0 independently and share the server's table.
OneGateway == \A g, h \in Gateway : g = h

\* What SettledOnce needs of the network: a copy is looked up before
\* SEQ_MAP_SIZE further packets are numbered, and two copy lifetimes fit in
\* the idle time that clears the table.
NetworkBounds ==
  /\ SKEW <= SEQ_MAP_SIZE
  /\ 2 * LIFE <= CONN_TIMEOUT

\* What StartCleans needs of a restart: the start copies of the last run, and
\* the seconds in which no second clean is made, are over before the next
\* run starts; and no run wraps the counter.
RestartBounds ==
  /\ CLEAN_SECS + LIFE <= GAP
  /\ MaxPackets <= SEQ_MOD

-----------------------------------------------------------------------------
(* The inductive invariant *)

\* Copies under way are of their client's present run, which has sent its
\* first packet, and are neither too far behind nor too old.
Copies ==
  /\ \A n \in accepted : n < sent
  /\ \A c \in UnderWay :
       /\ c.n < sent
       /\ c.run = run[c.gw] /\ ~first[c.gw]
       /\ sent <= c.n + SKEW
       /\ now <= sentAt[c.n] + LIFE
       /\ c.start => sentAt[c.n] = started[c.gw]

\* Times a thread has read lie between the packet's and the present, and only
\* start copies take a thread into init_dedup_state.
Clocks ==
  /\ \A n \in Pkt : sentAt[n] <= now
  /\ \A g \in Gateway : started[g] <= now
  /\ \A w \in Worker : pc[w] \in {"mark", "clear", "check"} =>
       sentAt[copy[w].n] <= ts[w] /\ ts[w] <= now
  /\ \A w \in Worker : pc[w] \in {"init", "mark", "clear"} => copy[w].start

\* The present run counts from packet b.
Numbered(b) ==
  /\ b <= sent
  /\ \A g \in Gateway : sequence[g] = SeqOf(sent - b)
  /\ \A c \in UnderWay : b <= c.n /\ c.seq = SeqOf(c.n - b)

\* While copies of a settled packet may come, the table holds its number,
\* will not idle out, and no thread is, or will be, clearing it.
Settled ==
  \A c \in UnderWay : c.n \in settled =>
    /\ StartOver
    /\ seq_map[SlotOf(c.seq)] = c.seq
    /\ sentAt[c.n] <= last_update + LIFE

\* A settled packet that is being written has not been written yet, and is
\* being written by one thread only.
Writing ==
  /\ \A n \in Pkt : n \notin accepted => written[n] = 0
  /\ \A w \in Worker : pc[w] = "write" => copy[w].n \in accepted
  /\ \A n \in settled : written[n] <= 1
  /\ \A w \in Worker :
       pc[w] = "write" /\ copy[w].n \in settled => written[copy[w].n] = 0
  /\ \A v, w \in Worker :
       /\ pc[v] = "write" /\ pc[w] = "write"
       /\ copy[v].n = copy[w].n /\ copy[v].n \in settled
       => v = w

\* An entry that is cleared, or was stored by the run that counts from b.
OfRun(b, s) ==
  seq_map[s] = EMPTY \/ \E m \in accepted : b <= m /\ seq_map[s] = SeqOf(m - b)

\* last_ts lies in the run that made the clean: not long after its start, and,
\* once a start of the present run is handled, not before it.
Runs ==
  /\ \A w \in Worker : pc[w] = "clear" => started[copy[w].gw] <= last_ts
  /\ \A g \in Gateway :
       /\ \A r \in Run : <<g, r>> \in handled => r <= run[g]
       /\ first[g] => <<g, run[g]>> \notin handled
       /\ last_ts <= started[g] + LIFE
       /\ run[g] > 1 /\ first[g] => last_ts + CLEAN_SECS < now
       /\ run[g] > 1 /\ ~first[g] =>
            last_ts + CLEAN_SECS < started[g] \/ started[g] <= last_ts
       /\ run[g] > 1 /\ <<g, run[g]>> \in handled => started[g] <= last_ts

\* A thread that clears leaves nothing of an earlier run behind it.
Cleaned(b) ==
  /\ \A g \in Gateway :
       \/ run[g] = 1
       \/ /\ ~first[g] /\ started[g] <= last_ts
          /\ \A w \in Worker : pc[w] # "clear"
       => \A s \in Slot : OfRun(b, s)
  /\ \A w \in Worker : pc[w] = "clear" =>
       \A s \in Slot : s < pos[w] => OfRun(b, s)

\* The part both properties rest on.
Common == TypeOK /\ Copies /\ Clocks

-----------------------------------------------------------------------------
(* Type correctness *)

LEMMA TypeInit == Init => TypeOK
<1> SUFFICES ASSUME Init PROVE TypeOK
  OBVIOUS
<1>1. 0 \in SeqNo /\ Cleared \in [Slot -> SeqNo]
  BY SeqTypes, SeqSpaceAssumption, SeqMapAssumption DEF SeqNo, Cleared, Slot
<1>2. 1 \in Run /\ 0 \in 0 .. SEQ_MAP_SIZE /\ 0 \in 0 .. MaxPackets
  BY UplinkAssumption, SeqSpaceAssumption DEF Run
<1> QED BY <1>1, <1>2 DEF Init, TypeOK

\* What a thread holds while it is not at recvmmsg or at write is under way,
\* and so is everything in the network.
LEMMA UnderWayIs ==
  ASSUME TypeOK
  PROVE  /\ net \subseteq UnderWay
         /\ \A w \in Worker : pc[w] \notin {"recv", "write"} => copy[w] \in UnderWay
         /\ \A c \in UnderWay :
              \/ c \in net
              \/ \E w \in Worker : pc[w] \notin {"recv", "write"} /\ c = copy[w]
         /\ UnderWay \subseteq Copy
BY DEF TypeOK, UnderWay

LEMMA TypeStep == TypeOK /\ [Next]_vars => TypeOK'
<1> SUFFICES ASSUME TypeOK, [Next]_vars PROVE TypeOK'
  OBVIOUS
<1> USE DEF TypeOK
<1>0. /\ SEQ_MOD \in Nat \ {0}
      /\ EMPTY \in SeqNo
      /\ \A s \in SeqNo : SlotOf(s) \in Slot
      /\ Cleared \in [Slot -> SeqNo]
  BY SeqTypes, SeqSpaceAssumption, SeqMapAssumption DEF SeqNo, Cleared
<1>1. ASSUME NEW g \in Gateway, SendPacket(g) PROVE TypeOK'
  <2>1. PICK up \in SUBSET Path :
          net' = net \cup {[n |-> sent, gw |-> g, run |-> run[g], seq |-> sequence[g],
                            start |-> first[g], path |-> p] : p \in up}
    BY <1>1 DEF SendPacket
  <2>2. sent \in Pkt /\ sent + 1 \in 0 .. MaxPackets
    BY <1>1, UplinkAssumption DEF SendPacket, Pkt
  <2>3. net' \subseteq Copy
    <3>1. ASSUME NEW p \in up
          PROVE  [n |-> sent, gw |-> g, run |-> run[g], seq |-> sequence[g],
                  start |-> first[g], path |-> p] \in Copy
      BY <2>2 DEF Copy
    <3> QED BY <2>1, <3>1
  <2>4. (sequence[g] + 1) % SEQ_MOD \in SeqNo
    BY <1>0 DEF SeqNo
  <2>5. sequence' \in [Gateway -> SeqNo]
    BY <1>1, <2>4 DEF SendPacket
  <2> QED BY <1>1, <2>2, <2>3, <2>5
          DEF SendPacket, workerVars, dedupVars, verdictVars
<1>2. ASSUME NEW g \in Gateway, ClientRestart(g) PROVE TypeOK'
  <2>1. run[g] + 1 \in Run
    BY <1>2, UplinkAssumption DEF ClientRestart, Run
  <2>2. 0 \in SeqNo
    BY <1>0 DEF SeqNo
  <2> QED BY <1>2, <2>1, <2>2 DEF ClientRestart, workerVars, dedupVars, verdictVars
<1>3. CASE Tick
  BY <1>3 DEF Tick, clientVars, workerVars, dedupVars, verdictVars
<1>4. ASSUME NEW c \in net, Lose(c) PROVE TypeOK'
  BY <1>4 DEF Lose, clientVars, workerVars, dedupVars, verdictVars
<1>5. ASSUME NEW w \in Worker, NEW c \in net, Receive(w, c) PROVE TypeOK'
  BY <1>5 DEF Receive, clientVars, dedupVars, verdictVars
<1>6. ASSUME NEW w \in Worker, pc[w] # "recv", StartHandled(w)
      PROVE  handled' \subseteq Gateway \X Run
  BY <1>6 DEF StartHandled, Copy
<1>7. ASSUME NEW w \in Worker, InitTest(w) PROVE TypeOK'
  <2>1. handled' \subseteq Gateway \X Run
    BY <1>6, <1>7 DEF InitTest
  <2> QED BY <1>7, <2>1 DEF InitTest, StartHandled, clientVars, dedupVars, verdictVars
<1>8. ASSUME NEW w \in Worker, InitMark(w) PROVE TypeOK'
  <2>1. 0 \in 0 .. SEQ_MAP_SIZE
    BY SeqSpaceAssumption
  <2> QED BY <1>8, <2>1 DEF InitMark, clientVars, verdictVars
<1>9. ASSUME NEW w \in Worker, InitClear(w) PROVE TypeOK'
  <2>1. CASE pos[w] < SEQ_MAP_SIZE /\ UNCHANGED <<pc, last_update, handled>>
    <3>1. pos[w] + 1 \in 0 .. SEQ_MAP_SIZE
      BY <2>1, SeqSpaceAssumption
    <3>2. /\ pos' = [pos EXCEPT ![w] = @ + 1]
          /\ seq_map' = [seq_map EXCEPT ![pos[w]] = EMPTY]
      BY <1>9, <2>1, SeqSpaceAssumption DEF InitClear
    <3> QED BY <1>0, <1>9, <2>1, <3>1, <3>2 DEF InitClear, clientVars, verdictVars
  <2>2. CASE last_update' = ts[w] /\ StartHandled(w) /\ UNCHANGED <<seq_map, pos>>
    <3>1. handled' \subseteq Gateway \X Run
      BY <1>6, <1>9, <2>2 DEF InitClear
    <3> QED BY <1>9, <2>2, <3>1 DEF InitClear, StartHandled, clientVars, verdictVars
  <2> QED BY <1>9, <2>1, <2>2 DEF InitClear
<1>10. ASSUME NEW w \in Worker, ReadTime(w) PROVE TypeOK'
  BY <1>10 DEF ReadTime, clientVars, dedupVars, verdictVars
<1>11. ASSUME NEW w \in Worker, IsDuplicate(w) PROVE TypeOK'
  <2> DEFINE c == copy[w]
             map == IF Idle(ts[w], last_update) THEN Cleared ELSE seq_map
  <2>1. /\ c \in Copy /\ c.n \in Pkt /\ c.seq \in SeqNo
        /\ map \in [Slot -> SeqNo]
    BY <1>0, <1>11 DEF IsDuplicate, Copy
  <2>2. CASE Holds(map, c.seq)
    <3>0. /\ seq_map' = map
          /\ last_update' = IF Idle(ts[w], last_update) THEN ts[w] ELSE last_update
          /\ Done(w)
          /\ UNCHANGED <<accepted, settled>>
      BY <1>11, <2>2 DEF IsDuplicate
    <3>1. dropped' \subseteq [n : Pkt, seq : SeqNo, known : BOOLEAN]
      <4> DEFINE known == <<c.gw, c.run>> \in handled /\ NoClean
                 d == [n |-> c.n, seq |-> c.seq, known |-> known]
      <4>1. known \in BOOLEAN
        BY DEF NoClean
      <4>2. d \in [n : Pkt, seq : SeqNo, known : BOOLEAN]
        BY <2>1, <4>1
      <4>3. dropped' = dropped \/ dropped' = dropped \cup {d}
        BY <1>11, <2>2 DEF IsDuplicate
      <4> QED BY <4>2, <4>3
    <3>2. 0 \in 0 .. SEQ_MAP_SIZE
      BY SeqSpaceAssumption
    <3>3. last_update' \in Nat
      BY <3>0
    <3> QED BY <1>11, <2>1, <3>0, <3>1, <3>2, <3>3 DEF IsDuplicate, Done, clientVars
  <2>3. CASE ~Holds(map, c.seq)
    <3>0. /\ seq_map' = Store(map, c.seq)
          /\ last_update' = ts[w]
          /\ accepted' = accepted \cup {c.n}
          /\ settled' = settled \/ settled' = settled \cup {c.n}
          /\ pc' = [pc EXCEPT ![w] = "write"]
          /\ UNCHANGED <<copy, ts, pos, dropped>>
      BY <1>11, <2>3 DEF IsDuplicate
    <3>1. seq_map' \in [Slot -> SeqNo]
      BY <1>0, <2>1, <3>0 DEF Store
    <3>2. settled' \subseteq accepted' /\ accepted' \subseteq Pkt
      BY <2>1, <3>0
    <3> QED BY <1>11, <2>1, <3>0, <3>1, <3>2 DEF IsDuplicate, clientVars
  <2> QED BY <2>2, <2>3
<1>12. ASSUME NEW w \in Worker, WriteTun(w) PROVE TypeOK'
  <2>1. copy[w].n \in Pkt
    BY <1>12 DEF WriteTun, Copy
  <2>2. 0 \in 0 .. SEQ_MAP_SIZE
    BY SeqSpaceAssumption
  <2> QED BY <1>12, <2>1, <2>2 DEF WriteTun, Done, clientVars, dedupVars, verdictVars
<1>13. CASE UNCHANGED vars
  BY <1>13 DEF vars, clientVars, workerVars, dedupVars, verdictVars
<1> QED BY <1>1, <1>2, <1>3, <1>4, <1>5, <1>7, <1>8, <1>9, <1>10, <1>11, <1>12, <1>13 DEF Next

\* Each variable always holds a value the code's type and range allow: in
\* particular every entry of seq_map stays a uint16_t and every thread that is
\* past recvmmsg holds a copy.
THEOREM UplinkTypeCorrect == Spec => []TypeOK
BY TypeInit, TypeStep, PTL DEF Spec

-----------------------------------------------------------------------------
(* What is under way *)

\* The steps of a receiver thread, which leave the clients and the clock alone.
Thread(w) ==
  \/ \E c \in net : Receive(w, c)
  \/ InitTest(w) \/ InitMark(w) \/ InitClear(w)
  \/ ReadTime(w) \/ IsDuplicate(w) \/ WriteTun(w)

LEMMA Steps ==
  ASSUME Next
  PROVE  \/ \E g \in Gateway : SendPacket(g) \/ ClientRestart(g)
         \/ Tick
         \/ \E c \in net : Lose(c)
         \/ \E w \in Worker : Thread(w)
BY DEF Next, Thread

LEMMA ThreadFrame ==
  ASSUME TypeOK, NEW w \in Worker, Thread(w)
  PROVE  /\ UNCHANGED <<clientVars, now>>
         /\ net' \subseteq net
         /\ UnderWay' \subseteq UnderWay
         /\ \A v \in Worker \ {w} : /\ pc'[v] = pc[v] /\ copy'[v] = copy[v]
                                    /\ ts'[v] = ts[v] /\ pos'[v] = pos[v]
<1>1. UNCHANGED <<clientVars, now>> /\ net' \subseteq net
  BY DEF Thread, Receive, InitTest, InitMark, InitClear, ReadTime, IsDuplicate, WriteTun
<1>2. \A v \in Worker \ {w} : /\ pc'[v] = pc[v] /\ copy'[v] = copy[v]
                              /\ ts'[v] = ts[v] /\ pos'[v] = pos[v]
  BY DEF TypeOK, Thread, Receive, InitTest, InitMark, InitClear, ReadTime, IsDuplicate,
         WriteTun, StartHandled, Done
<1>3. pc'[w] \notin {"recv", "write"} => copy'[w] \in UnderWay
  <2>1. CASE \E c \in net : Receive(w, c)
    BY <2>1, UnderWayIs DEF TypeOK, Receive
  <2>2. CASE InitTest(w) \/ InitMark(w) \/ InitClear(w) \/ ReadTime(w)
    BY <2>2, UnderWayIs DEF TypeOK, InitTest, InitMark, InitClear, ReadTime, StartHandled
  <2>3. CASE IsDuplicate(w) \/ WriteTun(w)
    BY <2>3 DEF TypeOK, IsDuplicate, WriteTun, Done
  <2> QED BY <2>1, <2>2, <2>3 DEF Thread
<1>4. UnderWay' \subseteq UnderWay
  <2>1. ASSUME NEW c \in UnderWay' PROVE c \in UnderWay
    <3>1. c \in net' \/ \E v \in Worker : pc'[v] \notin {"recv", "write"} /\ c = copy'[v]
      BY DEF UnderWay
    <3>2. CASE c \in net'
      BY <1>1, <3>2, UnderWayIs
    <3>3. ASSUME NEW v \in Worker, pc'[v] \notin {"recv", "write"}, c = copy'[v]
          PROVE  c \in UnderWay
      BY <1>2, <1>3, <3>3, UnderWayIs
    <3> QED BY <3>1, <3>2, <3>3
  <2> QED BY <2>1
<1> QED BY <1>1, <1>2, <1>4

\* A packet that is sent adds copies that carry the next number and, when it is
\* the first of its run, the start flag.
LEMMA SendFrame ==
  ASSUME TypeOK, NEW g \in Gateway, SendPacket(g)
  PROVE  /\ sent \in Pkt
         /\ \A c \in UnderWay' : c \in UnderWay \/
              /\ c.n = sent /\ c.gw = g /\ c.run = run[g]
              /\ c.seq = sequence[g] /\ c.start = first[g]
         /\ \A c \in net' : c \in net \/ c.start = first[g]
         /\ \A c \in UnderWay : sent + 1 - c.n <= SKEW
<1>1. PICK up \in SUBSET Path :
        net' = net \cup {[n |-> sent, gw |-> g, run |-> run[g], seq |-> sequence[g],
                          start |-> first[g], path |-> p] : p \in up}
  BY DEF SendPacket
<1>2. sent \in Pkt
  BY UplinkAssumption DEF SendPacket, TypeOK, Pkt
<1>3. \A c \in net' : c \in net \/
        /\ c.n = sent /\ c.gw = g /\ c.run = run[g]
        /\ c.seq = sequence[g] /\ c.start = first[g]
  BY <1>1
<1>4. UNCHANGED <<pc, copy>>
  BY DEF SendPacket, workerVars
<1>5. ASSUME NEW c \in UnderWay' PROVE c \in UnderWay \/ c \in net'
  BY <1>4 DEF UnderWay
<1>6. \A c \in UnderWay : sent + 1 - c.n <= SKEW
  BY DEF SendPacket
<1> QED BY <1>2, <1>3, <1>5, <1>6, UnderWayIs

LEMMA OtherFrame ==
  ASSUME TypeOK,
         \/ \E g \in Gateway : ClientRestart(g)
         \/ Tick
         \/ \E c \in net : Lose(c)
  PROVE  /\ UnderWay' \subseteq UnderWay
         /\ net' \subseteq net
         /\ UNCHANGED <<workerVars, dedupVars, verdictVars, handled, written, sent, sentAt, started>>
<1>1. /\ net' \subseteq net
      /\ UNCHANGED <<workerVars, dedupVars, verdictVars, handled, written, sent, sentAt, started>>
  BY DEF ClientRestart, Tick, Lose, clientVars
<1>2. UnderWay' \subseteq UnderWay
  BY <1>1 DEF UnderWay, workerVars
<1> QED BY <1>1, <1>2

-----------------------------------------------------------------------------
(* Copies and clocks *)

LEMMA CommonInit == Init => Common
<1> SUFFICES ASSUME Init PROVE Common
  OBVIOUS
<1>1. TypeOK
  BY TypeInit
<1>2. UnderWay = {}
  BY DEF Init, UnderWay
<1>3. Copies
  BY <1>2 DEF Init, Copies
<1>4. Clocks
  BY DEF Init, Clocks
<1> QED BY <1>1, <1>3, <1>4 DEF Common

LEMMA SendCommon ==
  ASSUME Common, NEW g \in Gateway, SendPacket(g)
  PROVE  Copies' /\ Clocks'
<1> USE DEF Common
<1>0. sent \in Pkt /\ sent \in Nat /\ now \in Nat
  BY SendFrame DEF TypeOK
<1>1. /\ sent' = sent + 1 /\ now' = now
      /\ sentAt' = [sentAt EXCEPT ![sent] = now]
      /\ first' = [first EXCEPT ![g] = FALSE]
      /\ started' = IF first[g] THEN [started EXCEPT ![g] = now] ELSE started
      /\ UNCHANGED <<run, pc, copy, ts, accepted>>
  BY DEF SendPacket, workerVars, verdictVars
<1>2. \A n \in Pkt : n < sent => sentAt'[n] = sentAt[n]
  BY <1>0, <1>1 DEF TypeOK
<1>3. sentAt'[sent] = now
  BY <1>0, <1>1 DEF TypeOK
<1>4. \A n \in accepted' : n < sent'
  BY <1>0, <1>1 DEF Copies, TypeOK, Pkt
<1>5. ASSUME NEW c \in UnderWay'
      PROVE  /\ c.n < sent'
             /\ c.run = run'[c.gw] /\ ~first'[c.gw]
             /\ sent' <= c.n + SKEW
             /\ now' <= sentAt'[c.n] + LIFE
             /\ c.start => sentAt'[c.n] = started'[c.gw]
  <2>1. CASE c \in UnderWay
    <3>1. c \in Copy /\ c.n \in Pkt /\ c.gw \in Gateway /\ c.n \in Nat
      BY <2>1, UnderWayIs DEF Copy, Pkt
    <3>2. /\ c.n < sent /\ c.run = run[c.gw] /\ ~first[c.gw]
          /\ now <= sentAt[c.n] + LIFE
          /\ c.start => sentAt[c.n] = started[c.gw]
      BY <2>1 DEF Copies
    <3>3. started'[c.gw] = started[c.gw] /\ ~first'[c.gw]
      BY <1>0, <1>1, <3>1, <3>2 DEF TypeOK
    <3>4. sent + 1 - c.n <= SKEW
      BY <2>1, SendFrame
    <3>5. sent + 1 <= c.n + SKEW
      BY <1>0, <1>1, <3>1, <3>4, UplinkAssumption
    <3> QED BY <1>0, <1>1, <1>2, <3>1, <3>2, <3>3, <3>5
  <2>2. CASE c.n = sent /\ c.gw = g /\ c.run = run[g] /\ c.start = first[g]
    <3>1. ~first'[g] /\ (first[g] => started'[g] = now)
      BY <1>0, <1>1 DEF TypeOK
    <3> QED BY <1>0, <1>1, <1>3, <2>2, <3>1, UplinkAssumption
  <2> QED BY <2>1, <2>2, SendFrame
<1>6. Copies'
  BY <1>4, <1>5 DEF Copies
<1>7. \A n \in Pkt : sentAt'[n] <= now'
  BY <1>0, <1>1 DEF TypeOK, Clocks
<1>8. \A h \in Gateway : started'[h] <= now'
  BY <1>0, <1>1 DEF TypeOK, Clocks
<1>9. ASSUME NEW w \in Worker, pc[w] \in {"mark", "clear", "check"}
      PROVE  sentAt'[copy[w].n] = sentAt[copy[w].n]
  <2>1. copy[w] \in UnderWay /\ copy[w].n \in Pkt
    BY <1>9, UnderWayIs DEF Copy
  <2> QED BY <1>2, <2>1 DEF Copies
<1>10. Clocks'
  BY <1>0, <1>1, <1>7, <1>8, <1>9 DEF Clocks
<1> QED BY <1>6, <1>10

LEMMA ThreadCommon ==
  ASSUME Common, NEW w \in Worker, Thread(w)
  PROVE  Copies' /\ Clocks'
<1> USE DEF Common
<1>1. /\ UnderWay' \subseteq UnderWay
      /\ UNCHANGED <<sent, run, first, started, sentAt, now>>
      /\ \A v \in Worker \ {w} : /\ pc'[v] = pc[v] /\ copy'[v] = copy[v] /\ ts'[v] = ts[v]
  BY ThreadFrame DEF clientVars
<1>2. \A n \in accepted' : n < sent'
  <2>1. CASE IsDuplicate(w)
    <3>1. copy[w] \in UnderWay /\ (\A n \in accepted' : n \in accepted \/ n = copy[w].n)
      BY <2>1, UnderWayIs DEF IsDuplicate
    <3> QED BY <1>1, <3>1 DEF Copies
  <2>2. CASE ~IsDuplicate(w)
    <3>1. accepted' = accepted
      BY <2>2 DEF Thread, Receive, InitTest, InitMark, InitClear, ReadTime, WriteTun, verdictVars
    <3> QED BY <1>1, <3>1 DEF Copies
  <2> QED BY <2>1, <2>2
<1>3. Copies'
  BY <1>1, <1>2 DEF Copies
<1>4. /\ pc'[w] \in {"mark", "clear", "check"} => sentAt[copy'[w].n] <= ts'[w] /\ ts'[w] <= now
      /\ pc'[w] \in {"init", "mark", "clear"} => copy'[w].start
  <2>1. pc[w] # "recv" => copy[w].n \in Pkt
    BY DEF TypeOK, Copy
  <2>2. CASE \E c \in net : Receive(w, c)
    BY <2>2 DEF Receive, TypeOK
  <2>3. CASE InitTest(w)
    BY <2>1, <2>3 DEF InitTest, StartHandled, TypeOK, Clocks
  <2>4. CASE InitMark(w)
    BY <2>4 DEF InitMark, TypeOK, Clocks
  <2>5. CASE InitClear(w)
    BY <2>5 DEF InitClear, StartHandled, TypeOK, Clocks
  <2>6. CASE ReadTime(w)
    BY <2>1, <2>6 DEF ReadTime, TypeOK, Clocks
  <2>7. CASE IsDuplicate(w) \/ WriteTun(w)
    BY <2>7 DEF IsDuplicate, WriteTun, Done, TypeOK
  <2> QED BY <2>2, <2>3, <2>4, <2>5, <2>6, <2>7 DEF Thread
<1>5. \A v \in Worker :
        /\ pc'[v] \in {"mark", "clear", "check"} => sentAt[copy'[v].n] <= ts'[v] /\ ts'[v] <= now
        /\ pc'[v] \in {"init", "mark", "clear"} => copy'[v].start
  BY <1>1, <1>4 DEF Clocks
<1>6. Clocks'
  BY <1>1, <1>5 DEF Clocks
<1> QED BY <1>3, <1>6

LEMMA CommonStep == Common /\ [Next]_vars => Common'
<1> SUFFICES ASSUME Common, [Next]_vars PROVE Copies' /\ Clocks'
  BY TypeStep DEF Common
<1> USE DEF Common
<1>1. ASSUME NEW g \in Gateway, SendPacket(g) PROVE Copies' /\ Clocks'
  BY <1>1, SendCommon
<1>2. ASSUME NEW w \in Worker, Thread(w) PROVE Copies' /\ Clocks'
  BY <1>2, ThreadCommon
<1>3. CASE \/ \E g \in Gateway : ClientRestart(g)
           \/ Tick
           \/ \E c \in net : Lose(c)
  <2>1. /\ UnderWay' \subseteq UnderWay
        /\ UNCHANGED <<pc, copy, ts, accepted, sent, sentAt, started>>
    BY <1>3, OtherFrame DEF workerVars, verdictVars
  <2>2. now' \in Nat /\ now <= now' /\ now \in Nat
    BY <1>3 DEF TypeOK, ClientRestart, Tick, Lose
  <2>3. \A c \in UnderWay' : now' <= sentAt[c.n] + LIFE
    <3>1. CASE Tick
      <4>1. ASSUME NEW c \in UnderWay PROVE now + 1 <= sentAt[c.n] + LIFE
        <5>1. c.n \in Pkt /\ now + 1 - sentAt[c.n] <= LIFE
          BY <3>1, <4>1, UnderWayIs DEF Tick, Copy
        <5> QED BY <5>1, <2>2, UplinkAssumption DEF TypeOK
      <4> QED BY <2>1, <3>1, <4>1 DEF Tick
    <3>2. CASE ~Tick
      BY <1>3, <2>1, <3>2 DEF Copies, ClientRestart, Lose
    <3> QED BY <3>1, <3>2
  <2>4. \A c \in UnderWay' : run'[c.gw] = run[c.gw] /\ first'[c.gw] = first[c.gw]
    <3>1. ASSUME NEW g \in Gateway, ClientRestart(g), NEW c \in UnderWay'
          PROVE  run'[c.gw] = run[c.gw] /\ first'[c.gw] = first[c.gw]
      <4>1. c.gw # g /\ c.gw \in Gateway
        BY <2>1, <3>1, UnderWayIs DEF ClientRestart, Copy
      <4> QED BY <3>1, <4>1 DEF ClientRestart, TypeOK
    <3>2. CASE Tick \/ \E c \in net : Lose(c)
      BY <3>2 DEF Tick, Lose, clientVars
    <3> QED BY <1>3, <3>1, <3>2
  <2>5. Copies'
    BY <2>1, <2>3, <2>4 DEF Copies
  <2>6. Clocks'
    <3>1. \A n \in Pkt : sentAt'[n] <= now'
      BY <2>1, <2>2 DEF Clocks, TypeOK
    <3>2. \A g \in Gateway : started'[g] <= now'
      BY <2>1, <2>2 DEF Clocks, TypeOK
    <3>3. \A w \in Worker : ts[w] \in Nat
      BY DEF TypeOK
    <3> QED BY <2>1, <2>2, <3>1, <3>2, <3>3 DEF Clocks
  <2> QED BY <2>5, <2>6
<1>4. CASE UNCHANGED vars
  BY <1>4 DEF vars, clientVars, workerVars, dedupVars, verdictVars, Copies, Clocks, UnderWay
<1> QED BY <1>1, <1>2, <1>3, <1>4, Steps

-----------------------------------------------------------------------------
(* Numbers *)

LEMMA NumberedInit == Init => Numbered(0)
<1> SUFFICES ASSUME Init PROVE Numbered(0)
  OBVIOUS
<1>1. UnderWay = {}
  BY DEF Init, UnderWay
<1>2. SeqOf(0 - 0) = 0
  BY SeqTypes, SMT DEF SeqOf
<1> QED BY <1>1, <1>2 DEF Init, Numbered

\* A client that restarts has nothing under way, and counts from the packet it
\* will send next.
LEMMA RestartNumbered ==
  ASSUME OneGateway, Common, NEW g \in Gateway, ClientRestart(g)
  PROVE  /\ UnderWay = {}
         /\ \A d \in Nat : d = sent => Numbered(d)'
<1>1. UnderWay = {}
  BY UnderWayIs DEF Common, OneGateway, ClientRestart, Copy
<1>2. UnderWay' = {}
  BY <1>1, OtherFrame DEF Common
<1>3. sent' = sent /\ sequence' = [h \in Gateway |-> 0]
  BY DEF Common, TypeOK, OneGateway, ClientRestart
<1>4. ASSUME NEW d \in Nat, d = sent PROVE Numbered(d)'
  <2>1. SeqOf(d - d) = 0
    BY SeqTypes, SMT DEF SeqOf
  <2>2. \A h \in Gateway : sequence'[h] = SeqOf(sent' - d)
    BY <1>3, <1>4, <2>1
  <2> QED BY <1>2, <1>3, <1>4, <2>2 DEF Numbered
<1> QED BY <1>1, <1>4

LEMMA NumberedStep ==
  ASSUME OneGateway, Common, NEW b \in Nat, Numbered(b), [Next]_vars,
         \A g \in Gateway : ~ClientRestart(g)
  PROVE  Numbered(b)'
<1> USE DEF Common
<1>1. ASSUME NEW g \in Gateway, SendPacket(g) PROVE Numbered(b)'
  <2>1. sent' = sent + 1 /\ sequence' = [sequence EXCEPT ![g] = (@ + 1) % SEQ_MOD]
    BY <1>1 DEF SendPacket
  <2>2. sent \in Nat /\ b <= sent /\ sequence[g] = SeqOf(sent - b)
    BY DEF TypeOK, Numbered
  <2>3. (SeqOf(sent - b) + 1) % SEQ_MOD = SeqOf((sent + 1) - b)
    <3>1. sent - b \in Nat /\ (sent - b) + 1 = (sent + 1) - b
      BY <2>2
    <3>2. (SeqOf(sent - b) + 1) % SEQ_MOD = SeqOf((sent - b) + 1)
      BY <3>1, SeqSuccessor
    <3> QED BY <3>1, <3>2
  <2>4. \A h \in Gateway : sequence'[h] = SeqOf(sent' - b)
    BY <2>1, <2>2, <2>3 DEF TypeOK, OneGateway
  <2>5. \A c \in UnderWay' : b <= c.n /\ c.seq = SeqOf(c.n - b)
    BY <1>1, <2>2, SendFrame DEF Numbered
  <2> QED BY <2>1, <2>2, <2>4, <2>5 DEF Numbered
<1>2. ASSUME UnderWay' \subseteq UnderWay, UNCHANGED <<sent, sequence>> PROVE Numbered(b)'
  BY <1>2 DEF Numbered
<1>3. ASSUME NEW w \in Worker, Thread(w) PROVE Numbered(b)'
  BY <1>2, <1>3, ThreadFrame DEF clientVars
<1>4. CASE Tick \/ \E c \in net : Lose(c)
  <2>1. UNCHANGED <<sent, sequence>>
    BY <1>4 DEF Tick, Lose, clientVars
  <2> QED BY <1>2, <1>4, <2>1, OtherFrame
<1>5. CASE UNCHANGED vars
  BY <1>2, <1>5 DEF vars, clientVars, workerVars, UnderWay
<1> QED BY <1>1, <1>3, <1>4, <1>5, Steps

\* Copies under way that carry different packets select different slots.
LEMMA SlotOwner ==
  ASSUME SKEW <= SEQ_MAP_SIZE, Common, NEW b \in Nat, Numbered(b),
         NEW c \in UnderWay, NEW d \in UnderWay
  PROVE  IF c.n = d.n THEN c.seq = d.seq ELSE SlotOf(c.seq) # SlotOf(d.seq)
<1>1. /\ c.n \in Nat /\ d.n \in Nat
      /\ b <= c.n /\ b <= d.n
      /\ c.seq = SeqOf(c.n - b) /\ d.seq = SeqOf(d.n - b)
  BY UnderWayIs DEF Common, Numbered, Copy, Pkt
<1>2. /\ sent \in Nat /\ SKEW \in Nat /\ SEQ_MAP_SIZE \in Nat
      /\ c.n < sent /\ d.n < sent
      /\ sent <= c.n + SKEW /\ sent <= d.n + SKEW
  BY UplinkAssumption, SeqSpaceAssumption DEF Common, TypeOK, Copies
<1>3. CASE c.n < d.n
  <2>1. c.n - b \in Nat /\ d.n - b \in Nat /\ c.n - b < d.n - b
    BY <1>1, <1>3
  <2>2. SlotOf(c.seq) = SlotOf(d.seq) => (c.n - b) + SEQ_MAP_SIZE <= d.n - b
    BY <1>1, <2>1, SlotDistance
  <2> QED BY <1>1, <1>2, <1>3, <2>2
<1>4. CASE d.n < c.n
  <2>1. c.n - b \in Nat /\ d.n - b \in Nat /\ d.n - b < c.n - b
    BY <1>1, <1>4
  <2>2. SlotOf(c.seq) = SlotOf(d.seq) => (d.n - b) + SEQ_MAP_SIZE <= c.n - b
    BY <1>1, <2>1, SlotDistance
  <2> QED BY <1>1, <1>2, <1>4, <2>2
<1> QED BY <1>1, <1>3, <1>4

-----------------------------------------------------------------------------
(* A settled packet is written once *)

SettledInv ==
  /\ Common
  /\ \E b \in Nat : Numbered(b)
  /\ Settled
  /\ Writing

\* While copies of a settled packet may come, no lookup finds the table idle.
LEMMA NotIdle ==
  ASSUME NetworkBounds, Common, Settled, NEW c \in UnderWay, c.n \in settled,
         NEW w \in Worker, pc[w] = "check"
  PROVE  ~Idle(ts[w], last_update)
<1>1. c.n \in Pkt
  BY UnderWayIs DEF Common, Copy
<1>2. /\ ts[w] \in Nat /\ now \in Nat /\ last_update \in Nat /\ sentAt[c.n] \in Nat
      /\ LIFE \in Nat /\ CONN_TIMEOUT \in Nat
  BY <1>1, UplinkAssumption, SeqMapAssumption DEF Common, TypeOK
<1>3. /\ ts[w] <= now /\ now <= sentAt[c.n] + LIFE
      /\ sentAt[c.n] <= last_update + LIFE /\ 2 * LIFE <= CONN_TIMEOUT
  BY DEF Common, Clocks, Copies, Settled, NetworkBounds
<1> QED BY <1>2, <1>3 DEF Idle

\* A lookup that lets a packet through does not find it settled.
LEMMA NotSettledYet ==
  ASSUME NetworkBounds, Common, Settled, NEW w \in Worker, pc[w] = "check",
         ~Holds(IF Idle(ts[w], last_update) THEN Cleared ELSE seq_map, copy[w].seq)
  PROVE  copy[w].n \notin settled
<1>1. copy[w] \in UnderWay
  BY UnderWayIs DEF Common
<1> QED BY <1>1, NotIdle DEF Settled, Holds

LEMMA SettledIsDuplicate ==
  ASSUME NetworkBounds, SettledInv, NEW w \in Worker, IsDuplicate(w)
  PROVE  Settled' /\ Writing'
<1> DEFINE c == copy[w]
           map == IF Idle(ts[w], last_update) THEN Cleared ELSE seq_map
<1> USE DEF SettledInv, Common
<1>1. /\ c \in UnderWay /\ c.n \in Pkt /\ pc[w] = "check"
      /\ UnderWay' \subseteq UnderWay
      /\ UNCHANGED <<net, sentAt, written>>
  BY UnderWayIs, ThreadFrame DEF IsDuplicate, Thread, clientVars, Copy
<1>2. PICK b \in Nat : Numbered(b)
  BY DEF SettledInv
<1>3. CASE Holds(map, c.seq)
  <2>1. /\ seq_map' = map
        /\ last_update' = IF Idle(ts[w], last_update) THEN ts[w] ELSE last_update
        /\ Done(w)
        /\ UNCHANGED <<accepted, settled>>
    BY <1>3 DEF IsDuplicate
  <2>2. \A v \in Worker : pc'[v] = "recv" \/ (pc'[v] = pc[v] /\ copy'[v] = copy[v])
    BY <2>1 DEF Done, TypeOK
  <2>3. StartOver => StartOver'
    BY <1>1, <2>2 DEF StartOver, NoClean
  <2>4. ASSUME NEW d \in UnderWay, d.n \in settled
        PROVE  map = seq_map /\ last_update' = last_update
    BY <1>1, <2>1, <2>4, NotIdle
  <2>5. Settled'
    BY <1>1, <2>1, <2>3, <2>4 DEF Settled
  <2>6. Writing'
    BY <1>1, <2>1, <2>2 DEF Writing
  <2> QED BY <2>5, <2>6
<1>4. CASE ~Holds(map, c.seq)
  <2>1. /\ seq_map' = Store(map, c.seq)
        /\ last_update' = ts[w]
        /\ accepted' = accepted \cup {c.n}
        /\ settled' = IF StartOver /\ c.n \notin accepted
                      THEN settled \cup {c.n} ELSE settled
        /\ pc' = [pc EXCEPT ![w] = "write"]
        /\ UNCHANGED copy
    BY <1>4 DEF IsDuplicate
  <2>2. c.n \notin settled
    BY <1>1, <1>4, NotSettledYet
  <2>3. StartOver => StartOver'
    BY <1>1, <2>1 DEF StartOver, NoClean, TypeOK
  <2>4. /\ c.seq \in SeqNo /\ SlotOf(c.seq) \in Slot
        /\ map \in [Slot -> SeqNo]
    BY <1>1, UnderWayIs, SeqTypes, SeqMapAssumption DEF Copy, TypeOK, Cleared
  <2>5. /\ seq_map'[SlotOf(c.seq)] = c.seq
        /\ \A s \in Slot : s # SlotOf(c.seq) => seq_map'[s] = map[s]
    BY <2>1, <2>4 DEF Store
  <2>6. ASSUME NEW d \in UnderWay, d.n \in settled'
        PROVE  /\ StartOver'
               /\ seq_map'[SlotOf(d.seq)] = d.seq
               /\ sentAt[d.n] <= last_update' + LIFE
    <3>1. CASE d.n = c.n
      <4>1. StartOver
        BY <2>1, <2>2, <2>6, <3>1
      <4>2. d.seq = c.seq
        BY <1>1, <1>2, <3>1, SlotOwner DEF NetworkBounds
      <4>3. sentAt[c.n] <= ts[w] /\ sentAt[c.n] \in Nat /\ ts[w] \in Nat
        BY <1>1 DEF Clocks, TypeOK
      <4> QED BY <2>1, <2>3, <2>5, <3>1, <4>1, <4>2, <4>3, UplinkAssumption
    <3>2. CASE d.n # c.n
      <4>1. d.n \in settled
        BY <2>1, <2>6, <3>2
      <4>2. StartOver /\ seq_map[SlotOf(d.seq)] = d.seq
        BY <4>1 DEF Settled
      <4>3. SlotOf(d.seq) # SlotOf(c.seq)
        BY <1>1, <1>2, <3>2, SlotOwner DEF NetworkBounds
      <4>4. map = seq_map /\ SlotOf(d.seq) \in Slot
        BY <1>1, <4>1, NotIdle, UnderWayIs, SeqTypes DEF Copy
      <4>5. d.n \in Pkt
        BY UnderWayIs DEF Copy
      <4>6. /\ sentAt[d.n] \in Nat /\ sentAt[c.n] \in Nat /\ ts[w] \in Nat
            /\ now \in Nat /\ LIFE \in Nat
        BY <1>1, <4>5, UplinkAssumption DEF TypeOK
      <4>7. sentAt[d.n] <= now /\ now <= sentAt[c.n] + LIFE /\ sentAt[c.n] <= ts[w]
        BY <1>1, <4>5 DEF Clocks, Copies
      <4>8. sentAt[d.n] <= ts[w] + LIFE
        BY <4>6, <4>7
      <4> QED BY <2>1, <2>3, <2>5, <4>2, <4>3, <4>4, <4>8
    <3> QED BY <3>1, <3>2
  <2>7. Settled'
    BY <1>1, <2>6 DEF Settled
  <2>8. \A v \in Worker : v # w => (pc'[v] = "write" <=> pc[v] = "write") /\ copy'[v] = copy[v]
    BY <2>1 DEF TypeOK
  <2>9. c.n \in settled' => /\ written[c.n] = 0
                            /\ \A v \in Worker : pc[v] = "write" => copy[v].n # c.n
    BY <1>1, <2>1, <2>2 DEF Writing
  <2>10. \A n \in settled' : n \in settled \/ n = c.n
    BY <2>1
  <2>11. Writing'
    <3>1. \A n \in Pkt : n \notin accepted' => written'[n] = 0
      BY <1>1, <2>1 DEF Writing
    <3>2. \A v \in Worker : pc'[v] = "write" => copy'[v].n \in accepted'
      BY <2>1, <2>8 DEF Writing
    <3>3. \A n \in settled' : written'[n] <= 1
      BY <1>1, <2>9, <2>10 DEF Writing
    <3>4. \A v \in Worker :
            pc'[v] = "write" /\ copy'[v].n \in settled' => written'[copy'[v].n] = 0
      BY <1>1, <2>1, <2>8, <2>9, <2>10 DEF Writing
    <3>5. \A u, v \in Worker :
            /\ pc'[u] = "write" /\ pc'[v] = "write"
            /\ copy'[u].n = copy'[v].n /\ copy'[u].n \in settled'
            => u = v
      BY <2>1, <2>8, <2>9, <2>10 DEF Writing
    <3> QED BY <3>1, <3>2, <3>3, <3>4, <3>5 DEF Writing
  <2> QED BY <2>7, <2>11
<1> QED BY <1>3, <1>4

LEMMA SettledInit == Init => SettledInv
<1> SUFFICES ASSUME Init PROVE SettledInv
  OBVIOUS
<1>1. UnderWay = {}
  BY DEF Init, UnderWay
<1>2. Settled /\ Writing
  BY <1>1 DEF Init, Settled, Writing
<1> QED BY <1>2, CommonInit, NumberedInit DEF SettledInv

\* A thread that lets no packet through changes what Settled and Writing say of
\* a packet only by writing it.
LEMMA SettledThread ==
  ASSUME NetworkBounds, SettledInv, NEW w \in Worker, Thread(w)
  PROVE  Settled' /\ Writing'
<1> USE DEF SettledInv, Common
<1>1. /\ UnderWay' \subseteq UnderWay
      /\ net' \subseteq net
      /\ UNCHANGED sentAt
      /\ \A v \in Worker \ {w} : pc'[v] = pc[v] /\ copy'[v] = copy[v]
  BY ThreadFrame DEF clientVars
<1>2. CASE IsDuplicate(w)
  BY <1>2, SettledIsDuplicate
<1>3. ASSUME UNCHANGED <<accepted, settled, written>>,
             pc[w] # "write", pc'[w] # "write"
      PROVE  Writing'
  BY <1>1, <1>3 DEF Writing
<1>4. CASE \E c \in net : Receive(w, c)
  <2>1. PICK c \in net : Receive(w, c)
    BY <1>4
  <2>2. /\ UNCHANGED <<accepted, settled, written, seq_map, last_update>>
        /\ pc[w] = "recv" /\ pc'[w] = IF c.start THEN "init" ELSE "time"
    BY <2>1 DEF Receive, TypeOK, dedupVars, verdictVars
  <2>3. StartOver => StartOver'
    BY <1>1, <2>2 DEF StartOver, NoClean
  <2>4. Settled'
    BY <1>1, <2>2, <2>3 DEF Settled
  <2> QED BY <1>3, <2>2, <2>4
<1>5. CASE InitTest(w) \/ InitMark(w) \/ InitClear(w)
  <2>1. /\ UNCHANGED <<accepted, settled, written>>
        /\ pc[w] \in {"init", "mark", "clear"} /\ pc'[w] # "write"
    BY <1>5 DEF InitTest, InitMark, InitClear, StartHandled, TypeOK, verdictVars
  <2>2. ~StartOver
    BY <2>1 DEF StartOver, NoClean
  <2>3. Settled'
    BY <1>1, <2>1, <2>2 DEF Settled
  <2> QED BY <1>3, <2>1, <2>3
<1>6. CASE ReadTime(w)
  <2>1. /\ UNCHANGED <<accepted, settled, written, seq_map, last_update>>
        /\ pc[w] = "time" /\ pc'[w] = "check"
    BY <1>6 DEF ReadTime, TypeOK, dedupVars, verdictVars
  <2>2. StartOver => StartOver'
    BY <1>1, <2>1 DEF StartOver, NoClean
  <2>3. Settled'
    BY <1>1, <2>1, <2>2 DEF Settled
  <2> QED BY <1>3, <2>1, <2>3
<1>7. CASE WriteTun(w)
  <2> DEFINE m == copy[w].n
  <2>1. /\ UNCHANGED <<accepted, settled, seq_map, last_update>>
        /\ pc[w] = "write" /\ pc'[w] = "recv"
        /\ written' = [written EXCEPT ![m] = @ + 1]
    BY <1>7 DEF WriteTun, Done, TypeOK, dedupVars, verdictVars
  <2>2. StartOver => StartOver'
    BY <1>1, <2>1 DEF StartOver, NoClean
  <2>3. Settled'
    BY <1>1, <2>1, <2>2 DEF Settled
  <2>4. /\ m \in accepted
        /\ m \in settled => written'[m] = 1
        /\ \A n \in Pkt : n # m => written'[n] = written[n]
    BY <2>1 DEF Writing, TypeOK
  <2>5. ASSUME NEW v \in Worker, pc'[v] = "write", copy'[v].n \in settled
        PROVE  v # w /\ pc[v] = "write" /\ copy'[v] = copy[v] /\ copy[v].n # m
    BY <1>1, <2>1, <2>5 DEF Writing
  <2>6. \A n \in Pkt : n \notin accepted' => written'[n] = 0
    BY <2>1, <2>4 DEF Writing
  <2>7. \A v \in Worker : pc'[v] = "write" => copy'[v].n \in accepted'
    BY <1>1, <2>1 DEF Writing
  <2>8. \A n \in settled' : written'[n] <= 1
    BY <2>1, <2>4 DEF Writing, TypeOK
  <2>9. \A v \in Worker :
          pc'[v] = "write" /\ copy'[v].n \in settled' => written'[copy'[v].n] = 0
    <3>1. ASSUME NEW v \in Worker, pc'[v] = "write", copy'[v].n \in settled'
          PROVE  written'[copy'[v].n] = 0
      <4>1. /\ v # w /\ pc[v] = "write" /\ copy'[v] = copy[v]
            /\ copy[v].n # m /\ copy[v].n \in settled
        BY <2>1, <2>5, <3>1
      <4>2. written[copy[v].n] = 0 /\ copy[v].n \in Pkt
        BY <4>1 DEF Writing, TypeOK
      <4> QED BY <2>4, <4>1, <4>2
    <3> QED BY <3>1
  <2>10. \A u, v \in Worker :
          /\ pc'[u] = "write" /\ pc'[v] = "write"
          /\ copy'[u].n = copy'[v].n /\ copy'[u].n \in settled'
          => u = v
    BY <2>1, <2>5 DEF Writing
  <2>11. Writing'
    BY <2>6, <2>7, <2>8, <2>9, <2>10 DEF Writing
  <2> QED BY <2>3, <2>11
<1> QED BY <1>2, <1>4, <1>5, <1>6, <1>7 DEF Thread

LEMMA SettledStep ==
  ASSUME OneGateway, NetworkBounds, SettledInv, [Next]_vars
  PROVE  SettledInv'
<1> USE DEF SettledInv, Common
<1>1. Common'
  BY CommonStep
<1>2. \E d \in Nat : Numbered(d)'
  <2>1. PICK b \in Nat : Numbered(b)
    BY DEF SettledInv
  <2>2. CASE \E g \in Gateway : ClientRestart(g)
    <3>1. sent \in Nat
      BY DEF TypeOK
    <3> QED BY <2>2, <3>1, RestartNumbered
  <2>3. CASE \A g \in Gateway : ~ClientRestart(g)
    BY <2>1, <2>3, NumberedStep
  <2> QED BY <2>2, <2>3
<1>3. ASSUME NEW g \in Gateway, SendPacket(g) PROVE Settled' /\ Writing'
  <2>1. UNCHANGED <<pc, copy, accepted, settled, written, seq_map, last_update>>
    BY <1>3 DEF SendPacket, workerVars, dedupVars, verdictVars
  <2>2. ASSUME NEW c \in UnderWay', c.n \in settled'
        PROVE  /\ StartOver'
               /\ seq_map'[SlotOf(c.seq)] = c.seq
               /\ sentAt'[c.n] <= last_update' + LIFE
    <3>1. sent \notin settled
      <4>1. sent \in settled => sent < sent
        BY DEF Copies, TypeOK
      <4> QED BY <4>1 DEF TypeOK
    <3>2. c \in UnderWay
      BY <1>3, <2>1, <2>2, <3>1, SendFrame
    <3>3. c.gw = g /\ ~first[g]
      BY <1>3, <3>2, UnderWayIs DEF Copies, Copy, OneGateway
    <3>4. /\ StartOver /\ seq_map[SlotOf(c.seq)] = c.seq
          /\ sentAt[c.n] <= last_update + LIFE
      BY <2>1, <2>2, <3>2 DEF Settled
    <3>5. StartOver'
      BY <1>3, <2>1, <3>3, <3>4, SendFrame DEF StartOver, NoClean
    <3>6. sentAt'[c.n] = sentAt[c.n]
      BY <1>3, <2>1, <2>2, <3>1 DEF SendPacket, TypeOK
    <3> QED BY <2>1, <3>4, <3>5, <3>6
  <2>3. Settled'
    BY <2>2 DEF Settled
  <2>4. Writing'
    BY <2>1 DEF Writing
  <2> QED BY <2>3, <2>4
<1>4. ASSUME NEW w \in Worker, Thread(w) PROVE Settled' /\ Writing'
  BY <1>4, SettledThread
<1>5. ASSUME UnderWay' \subseteq UnderWay, net' \subseteq net,
             UNCHANGED <<pc, copy, accepted, settled, written, seq_map, last_update, sentAt>>
      PROVE  Settled' /\ Writing'
  <2>1. \A v \in Worker : pc'[v] = pc[v]
    BY <1>5
  <2>2. StartOver => StartOver'
    BY <1>5, <2>1 DEF StartOver, NoClean
  <2>3. Settled'
    BY <1>5, <2>2 DEF Settled
  <2>4. Writing'
    BY <1>5 DEF Writing
  <2> QED BY <2>3, <2>4
<1>6. ASSUME \/ \E g \in Gateway : ClientRestart(g)
             \/ Tick
             \/ \E c \in net : Lose(c)
      PROVE  Settled' /\ Writing'
  <2>1. UnderWay' \subseteq UnderWay /\ net' \subseteq net
    BY <1>6, OtherFrame
  <2>2. UNCHANGED <<pc, copy, accepted, settled, written, seq_map, last_update, sentAt>>
    BY <1>6, OtherFrame DEF workerVars, dedupVars, verdictVars
  <2> QED BY <1>5, <2>1, <2>2
<1>7. ASSUME UNCHANGED vars PROVE Settled' /\ Writing'
  <2>1. UNCHANGED <<net, pc, copy, accepted, settled, written, seq_map, last_update, sentAt>>
    BY <1>7 DEF vars, clientVars, workerVars, dedupVars, verdictVars
  <2>2. UnderWay' \subseteq UnderWay
    BY <2>1 DEF UnderWay
  <2> QED BY <1>5, <2>1, <2>2
<1>8. Settled' /\ Writing'
  BY <1>3, <1>4, <1>6, <1>7, Steps
<1> QED BY <1>1, <1>2, <1>8

\* Outside a client's start the receiver threads write each packet once,
\* whatever the interleaving of init_dedup_state, which takes no lock, with
\* is_duplicate, which does; for every table size, number of paths, threads and
\* packets, and for a client that is restarted any number of times.
THEOREM UplinkSettledOnce ==
  ASSUME OneGateway, NetworkBounds
  PROVE  Spec => []SettledOnce
<1>1. SettledInv => SettledOnce
  BY DEF SettledInv, Writing, SettledOnce
<1>2. SettledInv /\ [Next]_vars => SettledInv'
  BY SettledStep
<1> QED BY <1>1, <1>2, SettledInit, PTL DEF Spec

-----------------------------------------------------------------------------
(* A handled start leaves nothing of the last run behind *)

StartInv ==
  /\ Common
  /\ Runs
  /\ \E b \in Nat : Numbered(b) /\ Cleaned(b)
  /\ StartCleans

LEMMA StartInit == Init => StartInv
<1> SUFFICES ASSUME Init PROVE StartInv
  OBVIOUS
<1>1. Runs
  BY UplinkAssumption DEF Init, Runs
<1>2. Cleaned(0)
  BY DEF Init, Cleaned, OfRun, Cleared
<1>3. StartCleans
  BY DEF Init, StartCleans
<1> QED BY <1>1, <1>2, <1>3, CommonInit, NumberedInit DEF StartInv

LEMMA SendStart ==
  ASSUME OneGateway, Common, Runs, NEW b \in Nat, Cleaned(b),
         NEW g \in Gateway, SendPacket(g)
  PROVE  Runs' /\ Cleaned(b)'
<1> USE DEF Common
<1>1. /\ first' = [first EXCEPT ![g] = FALSE]
      /\ started' = IF first[g] THEN [started EXCEPT ![g] = now] ELSE started
      /\ UNCHANGED <<run, pc, copy, pos, seq_map, last_ts, now, accepted, handled>>
  BY DEF SendPacket, workerVars, dedupVars, verdictVars
<1>2. /\ now \in Nat /\ last_ts \in Nat /\ started[g] \in Nat /\ run[g] \in Nat
      /\ CLEAN_SECS \in Nat /\ LIFE \in Nat /\ started[g] <= now
  BY UplinkAssumption DEF TypeOK, Run, Clocks
<1>3. /\ ~first'[g]
      /\ started'[g] = IF first[g] THEN now ELSE started[g]
      /\ \A h \in Gateway : h = g
  BY <1>1 DEF TypeOK, OneGateway
<1>4. ASSUME NEW w \in Worker, pc[w] = "clear" PROVE started'[copy[w].gw] <= last_ts
  <2>1. copy[w] \in UnderWay /\ copy[w].gw = g
    BY <1>3, <1>4, UnderWayIs DEF Copy
  <2>2. ~first[g]
    BY <2>1 DEF Copies
  <2> QED BY <1>1, <1>4, <2>2 DEF Runs
<1>5. /\ \A r \in Run : <<g, r>> \in handled => r <= run[g]
      /\ first[g] => <<g, run[g]>> \notin handled
      /\ last_ts <= started[g] + LIFE
      /\ run[g] > 1 /\ first[g] => last_ts + CLEAN_SECS < now
      /\ run[g] > 1 /\ ~first[g] =>
           last_ts + CLEAN_SECS < started[g] \/ started[g] <= last_ts
      /\ run[g] > 1 /\ <<g, run[g]>> \in handled => started[g] <= last_ts
  BY DEF Runs
<1>6. Runs'
  <2>1. last_ts <= started'[g] + LIFE
    BY <1>2, <1>3, <1>5
  <2>2. run[g] > 1 => last_ts + CLEAN_SECS < started'[g] \/ started'[g] <= last_ts
    BY <1>2, <1>3, <1>5
  <2>3. run[g] > 1 /\ <<g, run[g]>> \in handled => started'[g] <= last_ts
    BY <1>3, <1>5
  <2> QED BY <1>1, <1>3, <1>4, <1>5, <2>1, <2>2, <2>3 DEF Runs
<1>7. started'[g] <= last_ts => run[g] = 1 \/ ~first[g]
  <2>1. run[g] >= 1
    BY DEF TypeOK, Run
  <2> QED BY <1>2, <1>3, <1>5, <2>1
<1>8. \A s \in Slot : OfRun(b, s) => OfRun(b, s)'
  BY <1>1 DEF OfRun
<1>9. Cleaned(b)'
  <2>1. ASSUME run[g] = 1 \/ (started'[g] <= last_ts /\ \A w \in Worker : pc[w] # "clear"),
               NEW s \in Slot
        PROVE  OfRun(b, s)'
    BY <1>3, <1>7, <1>8, <2>1 DEF Cleaned
  <2>2. ASSUME NEW w \in Worker, pc[w] = "clear", NEW s \in Slot, s < pos[w]
        PROVE  OfRun(b, s)'
    BY <1>8, <2>2 DEF Cleaned
  <2> QED BY <1>1, <1>3, <2>1, <2>2 DEF Cleaned
<1> QED BY <1>6, <1>9

LEMMA RestartStart ==
  ASSUME OneGateway, RestartBounds, Common, Runs, NEW g \in Gateway, ClientRestart(g)
  PROVE  Runs' /\ \A d \in Nat : d = sent => Cleaned(d)'
<1> USE DEF Common
<1>1. /\ first' = [first EXCEPT ![g] = TRUE]
      /\ run' = [run EXCEPT ![g] = @ + 1]
      /\ now - started[g] > GAP
      /\ UNCHANGED <<started, pc, copy, last_ts, now, handled>>
  BY DEF ClientRestart, workerVars, dedupVars
<1>2. /\ now \in Nat /\ last_ts \in Nat /\ started[g] \in Nat
      /\ run[g] \in Nat /\ run[g] >= 1
      /\ CLEAN_SECS \in Nat /\ LIFE \in Nat /\ GAP \in Nat
  BY UplinkAssumption DEF TypeOK, Run
<1>3. /\ first'[g] /\ run'[g] = run[g] + 1
      /\ \A h \in Gateway : h = g
  BY <1>1 DEF TypeOK, OneGateway
<1>4. \A w \in Worker : pc[w] # "clear"
  <2>1. UnderWay = {}
    BY RestartNumbered
  <2> QED BY <2>1, UnderWayIs
<1>5. /\ \A r \in Run : <<g, r>> \in handled => r <= run[g]
      /\ last_ts <= started[g] + LIFE
  BY DEF Runs
<1>6. last_ts + CLEAN_SECS < now
  BY <1>1, <1>2, <1>5 DEF RestartBounds
<1>7. /\ \A r \in Run : <<g, r>> \in handled => r <= run[g] + 1
      /\ <<g, run[g] + 1>> \notin handled
  <2>1. \A r \in Run : r \in Nat
    BY DEF Run
  <2>2. <<g, run[g] + 1>> \in handled => run[g] + 1 \in Run
    BY DEF TypeOK
  <2>3. run[g] + 1 \in Run => <<g, run[g] + 1>> \notin handled
    BY <1>2, <1>5
  <2>4. \A r \in Run : r <= run[g] => r <= run[g] + 1
    BY <1>2, <2>1
  <2> QED BY <1>5, <2>2, <2>3, <2>4
<1>8. Runs'
  BY <1>1, <1>3, <1>4, <1>5, <1>6, <1>7 DEF Runs
<1>9. run'[g] # 1
  BY <1>2, <1>3
<1>10. \A d \in Nat : Cleaned(d)'
  BY <1>1, <1>3, <1>4, <1>9 DEF Cleaned
<1> QED BY <1>8, <1>10

\* The end of the branch for start copies, reached by the test (the table was
\* cleaned not long ago) or by the memset.
LEMMA HandledRuns ==
  ASSUME Common, Runs, NEW w \in Worker, pc[w] \in {"init", "clear"}, StartHandled(w),
         UNCHANGED <<clientVars, copy, last_ts, now>>,
         run[copy[w].gw] > 1 => started[copy[w].gw] <= last_ts
  PROVE  Runs'
<1> USE DEF Common
<1> DEFINE c == copy[w]
<1>1. c \in UnderWay /\ c.gw \in Gateway /\ c.run \in Run
  BY UnderWayIs DEF Copy
<1>2. c.run = run[c.gw] /\ ~first[c.gw] /\ run[c.gw] \in Nat
  BY <1>1 DEF Copies, TypeOK, Run
<1>3. /\ handled' = handled \cup {<<c.gw, c.run>>}
      /\ pc' = [pc EXCEPT ![w] = "time"]
      /\ UNCHANGED <<first, run, started, copy, last_ts, now>>
  BY DEF StartHandled, clientVars
<1>4. \A v \in Worker : pc'[v] = "clear" => pc[v] = "clear"
  BY <1>3 DEF TypeOK
<1>5. \A h \in Gateway, r \in Run :
        <<h, r>> \in handled' => <<h, r>> \in handled \/ (h = c.gw /\ r = run[h])
  BY <1>2, <1>3
<1>6. ASSUME NEW h \in Gateway
      PROVE  /\ \A r \in Run : <<h, r>> \in handled' => r <= run[h]
             /\ first[h] => <<h, run[h]>> \notin handled'
             /\ run[h] > 1 /\ <<h, run[h]>> \in handled' => started[h] <= last_ts
  <2>1. run[h] \in Run /\ run[h] <= run[h]
    BY DEF TypeOK, Run
  <2>2. \A r \in Run : <<h, r>> \in handled' => r <= run[h]
    BY <1>5, <2>1 DEF Runs
  <2>3. first[h] => <<h, run[h]>> \notin handled'
    BY <1>2, <1>5, <2>1 DEF Runs
  <2>4. run[h] > 1 /\ <<h, run[h]>> \in handled' => started[h] <= last_ts
    BY <1>5, <2>1 DEF Runs
  <2> QED BY <2>2, <2>3, <2>4
<1> QED BY <1>3, <1>4, <1>6 DEF Runs

LEMMA ThreadRuns ==
  ASSUME OneGateway, Common, Runs, NEW w \in Worker, Thread(w)
  PROVE  Runs'
<1> USE DEF Common
<1> DEFINE c == copy[w]
<1>1. /\ UNCHANGED <<clientVars, first, run, started, now>>
      /\ \A v \in Worker \ {w} : pc'[v] = pc[v] /\ copy'[v] = copy[v]
  BY ThreadFrame DEF clientVars
<1>2. CASE (\E d \in net : Receive(w, d)) \/ ReadTime(w) \/ IsDuplicate(w) \/ WriteTun(w)
  <2>1. UNCHANGED <<handled, last_ts>> /\ pc'[w] # "clear"
    BY <1>2 DEF Receive, ReadTime, IsDuplicate, WriteTun, Done, TypeOK, dedupVars
  <2>2. \A v \in Worker : pc'[v] = "clear" => pc[v] = "clear" /\ copy'[v] = copy[v]
    BY <1>1, <2>1
  <2> QED BY <1>1, <2>1, <2>2 DEF Runs
<1>3. ASSUME pc[w] \in {"init", "mark", "clear"}
      PROVE  /\ c \in UnderWay /\ c.gw \in Gateway /\ c.start /\ c.n \in Pkt
             /\ run[c.gw] \in Nat /\ ~first[c.gw]
             /\ sentAt[c.n] = started[c.gw]
             /\ now <= sentAt[c.n] + LIFE
             /\ \A h \in Gateway : h = c.gw
  <2>1. c \in UnderWay /\ c.gw \in Gateway /\ c.n \in Pkt
    BY <1>3, UnderWayIs DEF Copy
  <2>2. c.start
    BY <1>3 DEF Clocks
  <2>3. \A h \in Gateway : h = c.gw
    BY <2>1 DEF OneGateway
  <2> QED BY <2>1, <2>2, <2>3 DEF Copies, TypeOK, Run
<1>4. CASE InitTest(w)
  <2>1. pc[w] = "init" /\ UNCHANGED <<copy, last_ts>>
    BY <1>4 DEF InitTest, dedupVars
  <2>2. CASE pc' = [pc EXCEPT ![w] = "mark"] /\ UNCHANGED handled
    <3>1. \A v \in Worker : pc'[v] = "clear" => pc[v] = "clear"
      BY <2>2 DEF TypeOK
    <3> QED BY <1>1, <2>1, <2>2, <3>1 DEF Runs
  <2>3. CASE now - last_ts <= CLEAN_SECS /\ StartHandled(w)
    <3>1. /\ now \in Nat /\ last_ts \in Nat /\ started[c.gw] \in Nat /\ CLEAN_SECS \in Nat
          /\ started[c.gw] <= now
      BY <1>3, <2>1, UplinkAssumption DEF TypeOK, Clocks
    <3>2. run[c.gw] > 1 => last_ts + CLEAN_SECS < started[c.gw] \/ started[c.gw] <= last_ts
      BY <1>3, <2>1 DEF Runs
    <3>3. run[c.gw] > 1 => started[c.gw] <= last_ts
      BY <2>3, <3>1, <3>2
    <3> QED BY <1>1, <2>1, <2>3, <3>3, HandledRuns
  <2> QED BY <1>4, <2>2, <2>3 DEF InitTest
<1>5. CASE InitMark(w)
  <2>1. /\ pc[w] = "mark" /\ UNCHANGED <<copy, handled>>
        /\ last_ts' = ts[w]
    BY <1>5 DEF InitMark
  <2>2. /\ started[c.gw] <= ts[w] /\ ts[w] <= started[c.gw] + LIFE
    <3>1. sentAt[c.n] <= ts[w] /\ ts[w] <= now
      BY <2>1 DEF Clocks
    <3>2. ts[w] \in Nat /\ now \in Nat /\ sentAt[c.n] \in Nat /\ LIFE \in Nat
      BY <1>3, <2>1, UplinkAssumption DEF TypeOK
    <3> QED BY <1>3, <2>1, <3>1, <3>2
  <2>3. \A v \in Worker : pc'[v] = "clear" => copy[v].gw = c.gw
    <3>1. \A v \in Worker : pc'[v] = "clear" => v = w \/ pc[v] = "clear"
      BY <1>1
    <3>2. \A v \in Worker : pc[v] = "clear" => copy[v].gw \in Gateway
      BY UnderWayIs DEF Copy
    <3> QED BY <1>3, <2>1, <3>1, <3>2
  <2> QED BY <1>1, <1>3, <2>1, <2>2, <2>3 DEF Runs
<1>6. CASE InitClear(w)
  <2>1. pc[w] = "clear" /\ UNCHANGED <<copy, last_ts>>
    BY <1>6 DEF InitClear
  <2>2. CASE UNCHANGED <<pc, last_update, handled>>
    BY <1>1, <2>1, <2>2 DEF Runs
  <2>3. CASE StartHandled(w)
    <3>1. started[c.gw] <= last_ts
      BY <2>1 DEF Runs
    <3> QED BY <1>1, <2>1, <2>3, <3>1, HandledRuns
  <2> QED BY <1>6, <2>2, <2>3 DEF InitClear
<1> QED BY <1>2, <1>4, <1>5, <1>6 DEF Thread

LEMMA ThreadCleaned ==
  ASSUME OneGateway, Common, Runs, NEW b \in Nat, Numbered(b), Cleaned(b),
         NEW w \in Worker, Thread(w)
  PROVE  Cleaned(b)'
<1> USE DEF Common
<1> DEFINE c == copy[w]
<1>1. /\ UNCHANGED <<first, run, started>>
      /\ \A v \in Worker \ {w} : pc'[v] = pc[v] /\ pos'[v] = pos[v]
  BY ThreadFrame DEF clientVars
<1>2. ASSUME UNCHANGED last_ts,
             pc[w] # "clear", pc'[w] # "clear",
             \A s \in Slot : OfRun(b, s) => OfRun(b, s)'
      PROVE  Cleaned(b)'
  <2>1. \A v \in Worker : /\ pc'[v] = "clear" <=> pc[v] = "clear"
                          /\ pc'[v] = "clear" => pos'[v] = pos[v]
    BY <1>1, <1>2
  <2> QED BY <1>1, <1>2, <2>1 DEF Cleaned
<1>3. ASSUME UNCHANGED <<seq_map, accepted>>
      PROVE  \A s \in Slot : OfRun(b, s) => OfRun(b, s)'
  BY <1>3 DEF OfRun
<1>4. CASE (\E d \in net : Receive(w, d)) \/ InitTest(w) \/ ReadTime(w) \/ WriteTun(w)
  <2>1. /\ UNCHANGED <<seq_map, accepted, last_ts>>
        /\ pc[w] # "clear" /\ pc'[w] # "clear"
    BY <1>4 DEF Receive, InitTest, ReadTime, WriteTun, StartHandled, Done, TypeOK, dedupVars,
                verdictVars
  <2> QED BY <1>2, <1>3, <2>1
<1>5. CASE InitMark(w)
  <2>1. /\ UNCHANGED <<seq_map, accepted>>
        /\ pc'[w] = "clear" /\ pos'[w] = 0
    BY <1>5 DEF InitMark, TypeOK, verdictVars
  <2>2. \A s \in Slot : OfRun(b, s) => OfRun(b, s)'
    BY <1>3, <2>1
  <2>3. \A s \in Slot : ~(s < 0)
    BY DEF Slot
  <2>4. ASSUME NEW g \in Gateway, run[g] = 1, NEW s \in Slot PROVE OfRun(b, s)'
    BY <2>2, <2>4 DEF Cleaned
  <2>5. ASSUME NEW v \in Worker, pc'[v] = "clear", NEW s \in Slot, s < pos'[v]
        PROVE  OfRun(b, s)'
    BY <1>1, <2>1, <2>2, <2>3, <2>5 DEF Cleaned
  <2> QED BY <1>1, <2>1, <2>4, <2>5 DEF Cleaned
<1>6. CASE InitClear(w)
  <2>0. pc[w] = "clear" /\ UNCHANGED <<last_ts, accepted>>
    BY <1>6 DEF InitClear, verdictVars
  <2>1. CASE /\ pos[w] < SEQ_MAP_SIZE
             /\ seq_map' = [seq_map EXCEPT ![pos[w]] = EMPTY]
             /\ pos' = [pos EXCEPT ![w] = @ + 1]
             /\ UNCHANGED pc
    <3>1. \A s \in Slot : seq_map'[s] = IF s = pos[w] THEN EMPTY ELSE seq_map[s]
      BY <2>1 DEF TypeOK
    <3>2. \A s \in Slot : OfRun(b, s) \/ s = pos[w] => OfRun(b, s)'
      BY <2>0, <3>1 DEF OfRun
    <3>3. pos'[w] = pos[w] + 1 /\ pos[w] \in Nat
      BY <2>1, SeqSpaceAssumption DEF TypeOK
    <3>4. \A s \in Slot : s < pos'[w] => s < pos[w] \/ s = pos[w]
      BY <3>3 DEF Slot
    <3>5. ASSUME NEW v \in Worker, pc'[v] = "clear", NEW s \in Slot, s < pos'[v]
          PROVE  OfRun(b, s)'
      BY <1>1, <2>0, <2>1, <3>2, <3>4, <3>5 DEF Cleaned
    <3>6. ASSUME NEW g \in Gateway, NEW s \in Slot,
                 run[g] = 1 \/ (/\ ~first[g] /\ started[g] <= last_ts
                                /\ \A v \in Worker : pc[v] # "clear")
          PROVE  OfRun(b, s)'
      BY <3>2, <3>6 DEF Cleaned
    <3> QED BY <1>1, <2>0, <2>1, <3>5, <3>6 DEF Cleaned
  <2>2. CASE pos[w] = SEQ_MAP_SIZE /\ StartHandled(w) /\ UNCHANGED <<seq_map, pos>>
    <3>1. \A s \in Slot : s < pos[w]
      BY <2>2, SeqSpaceAssumption DEF Slot
    <3>2. \A s \in Slot : OfRun(b, s)
      BY <2>0, <3>1 DEF Cleaned
    <3>3. \A s \in Slot : OfRun(b, s)'
      BY <1>3, <2>0, <2>2, <3>2
    <3> QED BY <3>3 DEF Cleaned
  <2> QED BY <1>6, <2>1, <2>2 DEF InitClear
<1>7. CASE IsDuplicate(w)
  <2> DEFINE map == IF Idle(ts[w], last_update) THEN Cleared ELSE seq_map
  <2>0. /\ pc[w] = "check" /\ UNCHANGED last_ts
        /\ pc' = [pc EXCEPT ![w] = "recv"] \/ pc' = [pc EXCEPT ![w] = "write"]
    BY <1>7 DEF IsDuplicate, Done
  <2>1. /\ pc[w] = "check" /\ pc'[w] # "clear" /\ UNCHANGED last_ts
        /\ c \in UnderWay /\ c.n \in Nat /\ c.seq \in SeqNo
    <3>1. pc'[w] # "clear"
      BY <2>0 DEF TypeOK
    <3>2. c \in UnderWay
      BY <2>0, UnderWayIs
    <3>3. c.n \in Nat /\ c.seq \in SeqNo
      BY <3>2, UnderWayIs DEF Copy, Pkt
    <3> QED BY <2>0, <3>1, <3>2, <3>3
  <2>2. b <= c.n /\ c.seq = SeqOf(c.n - b)
    BY <2>1 DEF Numbered
  <2>3. /\ accepted \subseteq accepted'
        /\ seq_map' = map \/ (seq_map' = Store(map, c.seq) /\ c.n \in accepted')
    BY <1>7 DEF IsDuplicate
  <2>4. map \in [Slot -> SeqNo] /\ SlotOf(c.seq) \in Slot
    BY <2>1, SeqTypes, SeqMapAssumption DEF TypeOK, Cleared
  <2>5. \A s \in Slot : map[s] = EMPTY \/ map[s] = seq_map[s]
    BY DEF Cleared
  <2>6. \A s \in Slot :
          seq_map'[s] = map[s] \/ (seq_map'[s] = c.seq /\ c.n \in accepted')
    BY <2>3, <2>4 DEF Store
  <2>7. \A s \in Slot : OfRun(b, s) => OfRun(b, s)'
    BY <2>2, <2>3, <2>5, <2>6 DEF OfRun
  <2> QED BY <1>2, <2>1, <2>7
<1> QED BY <1>4, <1>5, <1>6, <1>7 DEF Thread

\* The table holds numbers of the present run only, once a start of it has been
\* handled and no thread is clearing.
LEMMA AllOfRun ==
  ASSUME Common, Runs, NEW b \in Nat, Cleaned(b), NoClean,
         NEW c \in UnderWay, <<c.gw, c.run>> \in handled, NEW s \in Slot
  PROVE  OfRun(b, s)
<1>1. /\ c.gw \in Gateway /\ c.run = run[c.gw] /\ ~first[c.gw]
      /\ run[c.gw] \in Nat \ {0}
  BY UnderWayIs DEF Common, Copies, Copy, Run, TypeOK
<1>2. run[c.gw] > 1 => started[c.gw] <= last_ts
  BY <1>1 DEF Runs
<1>3. run[c.gw] = 1 \/ run[c.gw] > 1
  BY <1>1
<1>4. \A w \in Worker : pc[w] # "clear"
  BY DEF NoClean
<1> QED BY <1>1, <1>2, <1>3, <1>4 DEF Cleaned

LEMMA StartCleansStep ==
  ASSUME RestartBounds, Common, Runs, NEW b \in Nat, Numbered(b), Cleaned(b), StartCleans,
         NEW w \in Worker, IsDuplicate(w)
  PROVE  StartCleans'
<1> USE DEF Common
<1> DEFINE c == copy[w]
           idle == Idle(ts[w], last_update)
           map == IF idle THEN Cleared ELSE seq_map
           known == <<c.gw, c.run>> \in handled /\ NoClean
           d == [n |-> c.n, seq |-> c.seq, known |-> known]
<1>1. /\ c \in UnderWay /\ c.n \in Pkt /\ c.n \in Nat
      /\ SlotOf(c.seq) \in Slot
  BY UnderWayIs, SeqTypes DEF IsDuplicate, Copy, Pkt
<1>2. CASE dropped' = dropped
  BY <1>2 DEF StartCleans
<1>3. CASE Holds(map, c.seq) /\ c.n \notin accepted /\ dropped' = dropped \cup {d}
  <2>1. ASSUME known PROVE c.seq = EMPTY
    <3>1. CASE idle
      BY <1>1, <1>3, <3>1 DEF Holds, Cleared
    <3>2. CASE ~idle
      <4>1. seq_map[SlotOf(c.seq)] = c.seq
        BY <1>3, <3>2 DEF Holds
      <4>2. OfRun(b, SlotOf(c.seq))
        BY <1>1, <2>1, AllOfRun
      <4>3. ASSUME NEW m \in accepted, b <= m, c.seq = SeqOf(m - b) PROVE FALSE
        <5>0. m \in Pkt /\ c.n \in Pkt /\ m # c.n
          BY <1>1, <1>3 DEF TypeOK
        <5>1. m \in Nat /\ m < MaxPackets /\ c.n < MaxPackets /\ m # c.n
          BY <5>0, UplinkAssumption DEF Pkt
        <5>2. b <= c.n /\ c.seq = SeqOf(c.n - b)
          BY <1>1 DEF Numbered
        <5>3. m - b \in Nat /\ c.n - b \in Nat
          BY <1>1, <4>3, <5>1, <5>2
        <5>4. m - b < c.n - b => (m - b) + SEQ_MOD <= c.n - b
          BY <4>3, <5>2, <5>3, SeqDistance
        <5>5. c.n - b < m - b => (c.n - b) + SEQ_MOD <= m - b
          BY <4>3, <5>2, <5>3, SeqDistance
        <5>6. SEQ_MOD \in Nat /\ MaxPackets \in Nat /\ MaxPackets <= SEQ_MOD
          BY SeqTypes, UplinkAssumption DEF RestartBounds
        <5> QED BY <1>1, <5>1, <5>4, <5>5, <5>6
      <4> QED BY <4>1, <4>2, <4>3 DEF OfRun
    <3> QED BY <3>1, <3>2
  <2>2. d.seq = c.seq /\ (d.known => known)
    OBVIOUS
  <2>3. \A e \in dropped' : e \in dropped \/ e = d
    BY <1>3
  <2>4. d.known => d.seq = EMPTY
    BY <2>1, <2>2
  <2> HIDE DEF d
  <2> QED BY <2>3, <2>4 DEF StartCleans
<1>4. CASE ~Holds(map, c.seq)
  BY <1>2, <1>4 DEF IsDuplicate
<1>5. CASE Holds(map, c.seq)
  <2>1. dropped' = IF c.n \in accepted THEN dropped ELSE dropped \cup {d}
    BY <1>5 DEF IsDuplicate
  <2> QED BY <1>2, <1>3, <1>5, <2>1
<1> QED BY <1>4, <1>5

LEMMA StartStep ==
  ASSUME OneGateway, RestartBounds, StartInv, [Next]_vars
  PROVE  StartInv'
<1> USE DEF Common
<1>1. Common /\ Runs /\ StartCleans
  BY DEF StartInv
<1>2. PICK b \in Nat : Numbered(b) /\ Cleaned(b)
  BY DEF StartInv
<1>3. Common'
  BY <1>1, CommonStep
<1>4. (\A g \in Gateway : ~ClientRestart(g)) => Numbered(b)'
  BY <1>1, <1>2, NumberedStep
<1>5. ASSUME UNCHANGED <<first, run, started, pc, copy, pos, seq_map, last_ts, accepted, handled>>,
             now <= now', now' \in Nat
      PROVE  Runs' /\ Cleaned(b)'
  <2>1. /\ now \in Nat /\ last_ts \in Nat /\ CLEAN_SECS \in Nat
        /\ last_ts + CLEAN_SECS < now => last_ts + CLEAN_SECS < now'
    BY <1>1, <1>5, UplinkAssumption DEF TypeOK
  <2>2. Runs'
    BY <1>1, <1>5, <2>1 DEF Runs
  <2>3. \A s \in Slot : OfRun(b, s) => OfRun(b, s)'
    BY <1>5 DEF OfRun
  <2>4. Cleaned(b)'
    BY <1>2, <1>5, <2>3 DEF Cleaned
  <2> QED BY <2>2, <2>4
<1>6. ASSUME NEW g \in Gateway, SendPacket(g) PROVE Runs' /\ Cleaned(b)'
  BY <1>1, <1>2, <1>6, SendStart
<1>7. ASSUME NEW g \in Gateway, ClientRestart(g)
      PROVE  Runs' /\ \E d \in Nat : Numbered(d)' /\ Cleaned(d)'
  <2>1. sent \in Nat
    BY <1>1 DEF TypeOK
  <2>2. PICK d \in Nat : d = sent
    BY <2>1
  <2>3. Numbered(d)'
    BY <1>1, <1>7, <2>2, RestartNumbered
  <2>4. Runs' /\ Cleaned(d)'
    BY <1>1, <1>7, <2>2, RestartStart
  <2> QED BY <2>3, <2>4
<1>8. ASSUME Tick \/ \E c \in net : Lose(c) PROVE Runs' /\ Cleaned(b)'
  <2>1. UNCHANGED <<first, run, started, pc, copy, pos, seq_map, last_ts, accepted, handled>>
    BY <1>8 DEF Tick, Lose, clientVars, workerVars, dedupVars, verdictVars
  <2>2. now <= now' /\ now' \in Nat
    BY <1>1, <1>8 DEF Tick, Lose, TypeOK
  <2> QED BY <1>5, <2>1, <2>2
<1>9. ASSUME NEW w \in Worker, Thread(w) PROVE Runs' /\ Cleaned(b)'
  BY <1>1, <1>2, <1>9, ThreadRuns, ThreadCleaned
<1>10. ASSUME UNCHANGED vars PROVE Runs' /\ Cleaned(b)'
  <2>1. UNCHANGED <<first, run, started, pc, copy, pos, seq_map, last_ts, accepted, handled, now>>
    BY <1>10 DEF vars, clientVars, workerVars, dedupVars, verdictVars
  <2>2. now <= now' /\ now' \in Nat
    BY <1>1, <2>1 DEF TypeOK
  <2> QED BY <1>5, <2>1, <2>2
<1>11. Runs' /\ \E d \in Nat : Numbered(d)' /\ Cleaned(d)'
  <2>1. CASE \E g \in Gateway : ClientRestart(g)
    BY <1>7, <2>1
  <2>2. CASE \A g \in Gateway : ~ClientRestart(g)
    <3>1. Runs' /\ Cleaned(b)'
      BY <1>6, <1>8, <1>9, <1>10, <2>2, Steps
    <3> QED BY <1>4, <2>2, <3>1
  <2> QED BY <2>1, <2>2
<1>12. StartCleans'
  <2>1. ASSUME NEW w \in Worker, IsDuplicate(w) PROVE StartCleans'
    BY <1>1, <1>2, <2>1, StartCleansStep
  <2>2. ASSUME \A w \in Worker : ~IsDuplicate(w) PROVE dropped' = dropped
    BY <2>2 DEF Next, SendPacket, ClientRestart, Tick, Lose, Receive, InitTest, InitMark,
                InitClear, ReadTime, WriteTun, vars, verdictVars
  <2> QED BY <1>1, <2>1, <2>2 DEF StartCleans
<1> QED BY <1>3, <1>11, <1>12 DEF StartInv

\* Once a start copy of a client's run has been handled and no thread is still
\* clearing for it, a packet of that run is thrown away unseen only for carrying
\* the number a cleared entry reads: neither the unlocked test of last_ts nor a
\* memset that runs beside other threads leaves an entry of the last run; for
\* every table size, number of threads and packets, and any number of restarts.
THEOREM UplinkStartCleans ==
  ASSUME OneGateway, RestartBounds
  PROVE  Spec => []StartCleans
<1>1. StartInv => StartCleans
  BY DEF StartInv
<1>2. StartInv /\ [Next]_vars => StartInv'
  BY StartStep
<1> QED BY <1>1, <1>2, StartInit, PTL DEF Spec

=============================================================================
