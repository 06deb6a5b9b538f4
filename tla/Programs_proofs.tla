---------------------------- MODULE Programs_proofs ----------------------------
(***************************************************************************)
(* The programs whose behaviours are their own: the tunnel around its      *)
(* packet paths (MCTunnelProcess), and the programs and kernel modules     *)
(* beside it (MCDriversSamples).                                           *)
(*                                                                         *)
(* The packets of the TUN device are sent in the order of the device,      *)
(* although buffers are read into again while the queue still names them:  *)
(* the state of a buffer decides where its packet is.  The trace of a fault*)
(* is the stack from its innermost function outwards.  And a run of either *)
(* program sends with a socket that is open, and leaves no NAT rules but   *)
(* those of runs that ended early.                                         *)
(*                                                                         *)
(* The programs and modules beside the tunnel share nothing, so that each  *)
(* has an invariant of its own; the last section puts them together.       *)
(***************************************************************************)
EXTENDS MCTunnelProcess, MCDriversSamples, SequenceTheorems, FiniteSetTheorems,
        WellFoundedInduction, TLAPS

-----------------------------------------------------------------------------
(* Type correctness *)

\* The buffer of an entry that carried a packet holds one.
Filled == \A i \in 1 .. Len(cq) : cq[i].res > 0 => content[cq[i].buffer] \in Packet

RingTyped == TypeOK /\ Filled

\* Results and packets are integers.
LEMMA RingNumbers ==
  /\ \A n \in Packet : n \in Nat /\ n > 0
  /\ \A r \in Packet \cup Errors : r \in Int
BY TunRingAssumption DEF Packet

\* The entries left when the first of them are released.
LEMMA Released ==
  ASSUME NEW S, NEW s \in Seq(S), NEW n \in 0 .. Len(s)
  PROVE  /\ SubSeq(s, n + 1, Len(s)) \in Seq(S)
         /\ Len(SubSeq(s, n + 1, Len(s))) = Len(s) - n
         /\ \A i \in 1 .. (Len(s) - n) : SubSeq(s, n + 1, Len(s))[i] = s[n + i]
<1>1. \A i \in (n + 1) .. Len(s) : s[i] \in S
  OBVIOUS
<1>2. /\ SubSeq(s, n + 1, Len(s)) \in Seq(S)
      /\ Len(SubSeq(s, n + 1, Len(s))) = IF n + 1 <= Len(s) THEN Len(s) - (n + 1) + 1 ELSE 0
      /\ \A i \in 1 .. (Len(s) - (n + 1) + 1) : SubSeq(s, n + 1, Len(s))[i] = s[(n + 1) + i - 1]
  BY <1>1, SubSeqProperties
<1> QED BY <1>2

\* An entry is appended.
LEMMA Appended ==
  ASSUME NEW S, NEW s \in Seq(S), NEW e \in S
  PROVE  /\ Append(s, e) \in Seq(S)
         /\ Len(Append(s, e)) = Len(s) + 1
         /\ \A i \in 1 .. Len(s) : Append(s, e)[i] = s[i]
         /\ Append(s, e)[Len(s) + 1] = e
OBVIOUS

LEMMA TypeInit == Init => RingTyped
<1> SUFFICES ASSUME Init PROVE RingTyped
  OBVIOUS
<1>1. cq = <<>> /\ sent = <<>>
  BY DEF Init
<1>2. Len(cq) = 0 /\ cq \in Seq(Cqe) /\ sent \in Seq(Packet)
  BY <1>1
<1> QED BY <1>2, TunRingAssumption DEF Init, RingTyped, TypeOK, Filled

LEMMA TypeNext == RingTyped /\ [Next]_vars => RingTyped'
<1> SUFFICES ASSUME RingTyped, [Next]_vars PROVE RingTyped'
  OBVIOUS
<1> USE DEF RingTyped, TypeOK
<1>0. Len(cq) \in Nat /\ seen \in Nat /\ count \in Nat /\ cq \in Seq(Cqe) /\ sent \in Seq(Packet)
  OBVIOUS
<1>1. ASSUME NEW b \in Buffer, ReadPacket(b) PROVE RingTyped'
  <2> DEFINE c == [buffer |-> b, res |-> read + 1]
  <2>1. read + 1 \in Packet /\ read' = read + 1 /\ read' \in 0 .. MaxPackets
    BY <1>1, TunRingAssumption DEF ReadPacket, Packet
  <2>2. c \in Cqe
    BY <2>1 DEF Cqe
  <2>3. cq' = Append(cq, c) /\ content' = [content EXCEPT ![b] = read + 1]
    BY <1>1, <2>1 DEF ReadPacket, Complete
  <2>4. /\ cq' \in Seq(Cqe) /\ Len(cq') = Len(cq) + 1
        /\ \A i \in 1 .. Len(cq) : cq'[i] = cq[i]
        /\ cq'[Len(cq) + 1] = c
    BY <2>2, <2>3, <1>0, Appended
  <2>5. reads' \in [Buffer -> Nat] /\ UNCHANGED <<failed, prepared, pc, seen, count, sent>>
    BY <1>1 DEF ReadPacket, Complete, walkVars
  <2>6. content' \in [Buffer -> Packet \cup {NoPacket}]
    BY <2>1, <2>3
  <2>7. seen' \in 0 .. Len(cq') /\ count' \in 0 .. seen'
    BY <2>4, <2>5, <1>0
  <2>8. Filled'
    <3> SUFFICES ASSUME NEW i \in 1 .. Len(cq'), cq'[i].res > 0
                 PROVE  content'[cq'[i].buffer] \in Packet
      BY DEF Filled
    <3>1. CASE i \in 1 .. Len(cq)
      <4>1. cq'[i] = cq[i] /\ cq[i] \in Cqe
        BY <3>1, <2>4, <1>0
      <4>2. cq[i].buffer \in Buffer
        BY <4>1 DEF Cqe
      <4>3. content[cq[i].buffer] \in Packet
        BY <3>1, <4>1 DEF Filled
      <4>4. content'[cq[i].buffer] = IF cq[i].buffer = b THEN read + 1 ELSE content[cq[i].buffer]
        BY <2>3, <4>2
      <4> QED BY <4>1, <4>3, <4>4, <2>1
    <3>2. CASE i = Len(cq) + 1
      BY <3>2, <2>1, <2>3, <2>4
    <3> QED BY <3>1, <3>2, <2>4, <1>0
  <2> QED BY <2>1, <2>4, <2>5, <2>6, <2>7, <2>8
<1>2. ASSUME NEW b \in Buffer, ReadFails(b) PROVE RingTyped'
  <2>1. PICK e \in Errors : Complete(b, e)
    BY <1>2 DEF ReadFails
  <2> DEFINE c == [buffer |-> b, res |-> e]
  <2>2. c \in Cqe /\ c.res <= 0
    BY TunRingAssumption DEF Cqe
  <2>3. /\ cq' \in Seq(Cqe) /\ Len(cq') = Len(cq) + 1
        /\ \A i \in 1 .. Len(cq) : cq'[i] = cq[i]
        /\ cq'[Len(cq) + 1] = c
    BY <2>1, <2>2, <1>0, Appended DEF Complete
  <2>4. reads' \in [Buffer -> Nat] /\ UNCHANGED <<read, content, prepared, pc, seen, count, sent>>
    BY <1>2, <2>1 DEF ReadFails, Complete, walkVars
  <2>5. failed' \in 0 .. MaxErrors
    BY <1>2, TunRingAssumption DEF ReadFails
  <2>6. seen' \in 0 .. Len(cq') /\ count' \in 0 .. seen'
    BY <2>3, <2>4, <1>0
  <2>7. Filled'
    <3> SUFFICES ASSUME NEW i \in 1 .. Len(cq'), cq'[i].res > 0
                 PROVE  content'[cq'[i].buffer] \in Packet
      BY DEF Filled
    <3>1. CASE i \in 1 .. Len(cq)
      BY <3>1, <2>3, <2>4 DEF Filled
    <3>2. CASE i = Len(cq) + 1
      <4>1. cq'[i].res \in Int /\ cq'[i].res <= 0
        BY <3>2, <2>2, <2>3, TunRingAssumption
      <4> QED BY <4>1
    <3> QED BY <3>1, <3>2, <2>3, <1>0
  <2> QED BY <2>3, <2>4, <2>5, <2>6, <2>7
<1>3. CASE WaitCqe
  BY <1>3, <1>0 DEF WaitCqe, kernelVars, Filled
<1>4. CASE WalkCqe
  <2> DEFINE c == cq[seen + 1]
  <2>1. UNCHANGED <<kernelVars, reads, pc>> /\ seen < Len(cq) /\ seen' = seen + 1
    BY <1>4 DEF WalkCqe
  <2>2. seen + 1 \in 1 .. Len(cq) /\ c \in Cqe /\ c.buffer \in Buffer
    <3>1. seen + 1 \in 1 .. Len(cq)
      BY <2>1, <1>0
    <3>2. c \in Cqe
      BY <3>1, <1>0
    <3> QED BY <3>1, <3>2 DEF Cqe
  <2>3. CASE /\ c.res > 0 /\ count' = count + 1
             /\ sent' = Append(sent, content[c.buffer])
             /\ prepared' = [prepared EXCEPT ![c.buffer] = @ + 1]
    <3>1. content[c.buffer] \in Packet
      BY <2>2, <2>3 DEF Filled
    <3>2. sent' \in Seq(Packet)
      BY <3>1, <2>3
    <3>3. prepared' \in [Buffer -> Nat]
      BY <2>2, <2>3
    <3> QED BY <3>2, <3>3, <2>1, <2>3, <1>0 DEF Filled, kernelVars
  <2>4. CASE UNCHANGED <<count, sent, prepared>>
    BY <2>1, <2>4, <1>0 DEF Filled, kernelVars
  <2> QED BY <1>4, <2>3, <2>4 DEF WalkCqe
<1>5. CASE EndWalk
  <2>1. count \in 0 .. Len(cq) /\ cq' = SubSeq(cq, count + 1, Len(cq))
    BY <1>5, <1>0 DEF EndWalk
  <2>2. /\ cq' \in Seq(Cqe) /\ Len(cq') = Len(cq) - count
        /\ \A i \in 1 .. (Len(cq) - count) : cq'[i] = cq[count + i]
    BY <2>1, <1>0, Released
  <2>3. UNCHANGED <<read, failed, content, sent>> /\ pc' = "wait" /\ seen' = 0 /\ count' = 0
    BY <1>5 DEF EndWalk
  <2>4. reads' \in [Buffer -> Nat] /\ prepared' \in [Buffer -> Nat]
    BY <1>5 DEF EndWalk
  <2>5. \A i \in 1 .. Len(cq') : count + i \in 1 .. Len(cq) /\ cq'[i] = cq[count + i]
    BY <2>1, <2>2, <1>0
  <2>6. Filled'
    BY <2>3, <2>5 DEF Filled
  <2> QED BY <2>1, <2>2, <2>3, <2>4, <2>6, <1>0
<1>6. CASE UNCHANGED vars
  BY <1>6 DEF vars, kernelVars, walkVars, Filled
<1> QED BY <1>1, <1>2, <1>3, <1>4, <1>5, <1>6 DEF Next

\* Every variable of the ring keeps its type.
THEOREM RingTypeCorrect == Spec => []TypeOK
<1>1. Init => RingTyped
  BY TypeInit
<1>2. RingTyped /\ [Next]_vars => RingTyped'
  BY TypeNext
<1>3. RingTyped => TypeOK
  BY DEF RingTyped
<1> QED BY <1>1, <1>2, <1>3, PTL DEF Spec

-----------------------------------------------------------------------------
(* The order of the packets *)

\* The entries of the queue that are still to be walked.
AtQueue == (seen + 1) .. Len(cq)

\* Without a failed read every entry walked is released, the entries waiting
\* are the packets not sent yet, in order, and a buffer has either such an entry
\* or at most one read: its content is not written while the entry waits.
Fifo ==
  /\ count = seen
  /\ pc = "wait" => seen = 0
  /\ Len(sent) + Len(cq) - seen = read
  /\ \A i \in 1 .. Len(sent) : sent[i] = i
  /\ \A i \in AtQueue : /\ cq[i].res = Len(sent) + i - seen
                        /\ content[cq[i].buffer] = cq[i].res
                        /\ reads[cq[i].buffer] = 0 /\ prepared[cq[i].buffer] = 0
  /\ \A i, j \in AtQueue : cq[i].buffer = cq[j].buffer => i = j
  /\ \A b \in Buffer : reads[b] + prepared[b] <= 1

OrderInv == failed = 0 => Fifo

LEMMA OrderInit == Init => OrderInv
<1> SUFFICES ASSUME Init PROVE Fifo
  BY DEF OrderInv
<1>1. Len(cq) = 0 /\ Len(sent) = 0 /\ seen = 0 /\ AtQueue = {}
  BY DEF Init, AtQueue
<1> QED BY <1>1 DEF Init, Fifo

LEMMA OrderNext == RingTyped /\ OrderInv /\ [Next]_vars => OrderInv'
<1> SUFFICES ASSUME RingTyped, OrderInv, [Next]_vars, failed' = 0 PROVE Fifo'
  BY DEF OrderInv
<1>0. /\ reads \in [Buffer -> Nat] /\ prepared \in [Buffer -> Nat]
      /\ content \in [Buffer -> Packet \cup {NoPacket}] /\ failed \in Nat
      /\ Len(cq) \in Nat /\ Len(sent) \in Nat /\ seen \in 0 .. Len(cq) /\ read \in Nat
      /\ cq \in Seq(Cqe) /\ sent \in Seq(Packet)
      /\ \A i \in 1 .. Len(cq) : cq[i] \in Cqe /\ cq[i].buffer \in Buffer /\ cq[i].res \in Int
  <2>1. cq \in Seq(Cqe) /\ sent \in Seq(Packet)
    BY DEF RingTyped, TypeOK
  <2>2. \A i \in 1 .. Len(cq) : cq[i] \in Cqe
    BY <2>1
  <2>3. \A i \in 1 .. Len(cq) : cq[i].buffer \in Buffer /\ cq[i].res \in Int
    BY <2>2, RingNumbers DEF Cqe
  <2> QED BY <2>1, <2>2, <2>3, TunRingAssumption DEF RingTyped, TypeOK
<1>f. failed = 0
  <2>1. failed' = failed \/ failed' = failed + 1
    BY DEF Next, ReadPacket, ReadFails, WaitCqe, WalkCqe, EndWalk, vars, kernelVars
  <2> QED BY <2>1, <1>0
<1>g. Fifo
  BY <1>f DEF OrderInv
<1>a. Len(cq) \in Nat /\ Len(sent) \in Nat /\ seen \in Nat /\ read \in Nat
  BY <1>0
<1>b. count = seen /\ Len(sent) + Len(cq) - seen = read /\ (pc = "wait" => seen = 0)
  BY <1>g DEF Fifo
<1>c. \A i \in 1 .. Len(sent) : sent[i] = i
  BY <1>g DEF Fifo
<1>d. \A b \in Buffer : reads[b] \in Nat /\ prepared[b] \in Nat /\ reads[b] + prepared[b] <= 1
  BY <1>0, <1>g DEF Fifo
<1>1. ASSUME NEW b \in Buffer, ReadPacket(b) PROVE Fifo'
  <2> DEFINE c == [buffer |-> b, res |-> read + 1]
  <2>1. read + 1 \in Packet /\ read' = read + 1
    BY <1>1, <1>a, TunRingAssumption DEF ReadPacket, Packet
  <2>2. c \in Cqe
    BY <2>1 DEF Cqe
  <2>3. /\ Len(cq') = Len(cq) + 1
        /\ \A i \in 1 .. Len(cq) : cq'[i] = cq[i]
        /\ cq'[Len(cq) + 1] = c
    BY <1>1, <2>1, <2>2, <1>0, Appended DEF ReadPacket, Complete
  <2>4. /\ reads[b] > 0 /\ reads' = [reads EXCEPT ![b] = @ - 1]
        /\ content' = [content EXCEPT ![b] = read + 1]
        /\ UNCHANGED <<prepared, pc, seen, count, sent>>
    BY <1>1, <2>1 DEF ReadPacket, Complete, walkVars
  <2>5. reads'[b] = 0 /\ prepared[b] = 0
    BY <1>0, <1>g, <2>4 DEF Fifo
  <2>6. \A i \in AtQueue : i \in 1 .. Len(cq) /\ cq[i].buffer # b
    BY <1>0, <1>g, <2>4 DEF Fifo, AtQueue
  <2>7. \A i \in AtQueue' : i \in AtQueue \/ i = Len(cq) + 1
    BY <1>0, <2>3, <2>4 DEF AtQueue
  <2>8. ASSUME NEW i \in AtQueue'
        PROVE  /\ cq'[i].res = Len(sent') + i - seen'
               /\ content'[cq'[i].buffer] = cq'[i].res
               /\ reads'[cq'[i].buffer] = 0 /\ prepared'[cq'[i].buffer] = 0
    <3>1. CASE i \in AtQueue
      <4>1. cq'[i] = cq[i] /\ cq[i].buffer \in Buffer \ {b}
        BY <3>1, <2>3, <2>6, <1>0
      <4>2. content'[cq[i].buffer] = content[cq[i].buffer] /\ reads'[cq[i].buffer] = reads[cq[i].buffer]
        BY <4>1, <2>4, <1>0
      <4>3. /\ cq[i].res = Len(sent) + i - seen
            /\ content[cq[i].buffer] = cq[i].res
            /\ reads[cq[i].buffer] = 0 /\ prepared[cq[i].buffer] = 0
        BY <3>1, <1>g DEF Fifo
      <4> QED BY <4>1, <4>2, <4>3, <2>4
    <3>2. CASE i = Len(cq) + 1
      <4>1. cq'[i].buffer = b /\ cq'[i].res = read + 1
        BY <3>2, <2>3
      <4>2. content'[b] = read + 1
        BY <2>4, <1>0
      <4>3. read + 1 = Len(sent) + (Len(cq) + 1) - seen
        BY <1>a, <1>b
      <4> QED BY <4>1, <4>2, <4>3, <3>2, <2>4, <2>5
    <3> QED BY <3>1, <3>2, <2>7
  <2>9. \A i, j \in AtQueue' : cq'[i].buffer = cq'[j].buffer => i = j
    <3> SUFFICES ASSUME NEW i \in AtQueue', NEW j \in AtQueue', cq'[i].buffer = cq'[j].buffer
                 PROVE  i = j
      OBVIOUS
    <3>1. \A k \in AtQueue : cq'[k] = cq[k]
      BY <2>3, <2>6
    <3>2. cq'[Len(cq) + 1].buffer = b
      BY <2>3
    <3>3. CASE i \in AtQueue /\ j \in AtQueue
      BY <3>1, <3>3, <1>g DEF Fifo
    <3> QED BY <3>1, <3>2, <3>3, <2>6, <2>7
  <2>10. \A a \in Buffer : reads'[a] + prepared'[a] <= 1
    BY <2>4, <1>0, <1>g DEF Fifo
  <2>11. /\ Len(sent') + Len(cq') - seen' = read' /\ count' = seen' /\ (pc' = "wait" => seen' = 0)
         /\ \A i \in 1 .. Len(sent') : sent'[i] = i
    <3>1. Len(sent) + (Len(cq) + 1) - seen = read + 1
      BY <1>a, <1>b
    <3>2. sent' = sent /\ seen' = seen /\ count' = count /\ pc' = pc
      BY <2>4
    <3> QED BY <3>1, <3>2, <2>1, <2>3, <1>b, <1>c
  <2> QED BY <2>8, <2>9, <2>10, <2>11 DEF Fifo
<1>2. ASSUME NEW b \in Buffer, ReadFails(b) PROVE Fifo'
  BY <1>2, <1>f DEF ReadFails
<1>3. CASE WaitCqe
  <2>1. seen' = 0 /\ count' = 0 /\ pc = "wait" /\ UNCHANGED <<read, content, cq, reads, prepared, sent>>
    BY <1>3 DEF WaitCqe, kernelVars
  <2>2. seen = 0
    BY <2>1, <1>g DEF Fifo
  <2> QED BY <2>1, <2>2, <1>g DEF Fifo, AtQueue
<1>4. CASE WalkCqe
  <2> DEFINE n == seen + 1
  <2>1. /\ n \in AtQueue /\ n \in 1 .. Len(cq) /\ seen' = n /\ pc = "walk"
        /\ UNCHANGED <<read, content, cq, reads, pc>>
    BY <1>4, <1>0 DEF WalkCqe, AtQueue, kernelVars
  <2>2. /\ cq[n].res = Len(sent) + 1 /\ content[cq[n].buffer] = Len(sent) + 1
        /\ reads[cq[n].buffer] = 0 /\ prepared[cq[n].buffer] = 0
    BY <2>1, <1>0, <1>g DEF Fifo
  <2>3. /\ count' = count + 1
        /\ sent' = Append(sent, Len(sent) + 1)
        /\ prepared' = [prepared EXCEPT ![cq[n].buffer] = 1]
    BY <1>4, <2>2, <1>0 DEF WalkCqe
  <2>4. Len(sent) + 1 \in Packet
    BY <2>1, <2>2, <1>0 DEF RingTyped, Filled
  <2>5. /\ Len(sent') = Len(sent) + 1
        /\ sent'[Len(sent) + 1] = Len(sent) + 1
        /\ \A i \in 1 .. Len(sent) : sent'[i] = sent[i]
    BY <2>3, <2>4, <1>0, Appended
  <2>6. \A i \in AtQueue' : i \in AtQueue /\ i # n /\ i \in 1 .. Len(cq)
    BY <2>1, <1>0 DEF AtQueue
  <2>7. ASSUME NEW i \in AtQueue'
        PROVE  /\ cq'[i].res = Len(sent') + i - seen'
               /\ content'[cq'[i].buffer] = cq'[i].res
               /\ reads'[cq'[i].buffer] = 0 /\ prepared'[cq'[i].buffer] = 0
    <3>1. cq[i].buffer # cq[n].buffer /\ cq[i].buffer \in Buffer
      BY <2>1, <2>6, <1>0, <1>g DEF Fifo
    <3>2. prepared'[cq[i].buffer] = prepared[cq[i].buffer]
      BY <2>3, <3>1, <1>0
    <3>3. /\ cq[i].res = Len(sent) + i - seen
          /\ content[cq[i].buffer] = cq[i].res
          /\ reads[cq[i].buffer] = 0 /\ prepared[cq[i].buffer] = 0
      BY <2>6, <1>g DEF Fifo
    <3>4. Len(sent) + i - seen = (Len(sent) + 1) + i - (seen + 1)
      BY <2>6, <1>a
    <3> QED BY <3>2, <3>3, <3>4, <2>1, <2>5
  <2>8. \A i, j \in AtQueue' : cq'[i].buffer = cq'[j].buffer => i = j
    BY <2>1, <2>6, <1>g DEF Fifo
  <2>9. ASSUME NEW b \in Buffer PROVE reads'[b] + prepared'[b] <= 1
    <3>1. CASE b = cq[n].buffer
      <4>1. prepared'[b] = 1
        BY <3>1, <2>3, <1>0
      <4> QED BY <4>1, <3>1, <2>1, <2>2
    <3>2. CASE b # cq[n].buffer
      <4>1. prepared'[b] = prepared[b]
        BY <3>2, <2>3, <1>0
      <4> QED BY <4>1, <2>1, <1>d
    <3> QED BY <3>1, <3>2
  <2>10. Len(sent') + Len(cq') - seen' = read' /\ count' = seen' /\ pc' # "wait"
    <3>1. (Len(sent) + 1) + Len(cq) - (seen + 1) = read
      BY <1>a, <1>b
    <3>2. cq' = cq /\ read' = read /\ pc' = "walk"
      BY <2>1
    <3> QED BY <3>1, <3>2, <2>1, <2>3, <2>5, <1>b
  <2>11. ASSUME NEW i \in 1 .. Len(sent') PROVE sent'[i] = i
    <3>1. i \in 1 .. Len(sent) \/ i = Len(sent) + 1
      BY <2>5, <1>a
    <3> QED BY <3>1, <2>5, <1>c
  <2> QED BY <2>7, <2>8, <2>9, <2>10, <2>11 DEF Fifo
<1>5. CASE EndWalk
  <2>1. seen = Len(cq) /\ count = Len(cq) /\ cq' = SubSeq(cq, count + 1, Len(cq))
    BY <1>5, <1>g DEF EndWalk, Fifo
  <2>2. Len(cq') = 0
    BY <2>1, <1>0, Released
  <2>3. /\ UNCHANGED <<read, sent>> /\ seen' = 0 /\ count' = 0
        /\ \A b \in Buffer : reads'[b] = reads[b] + prepared[b] /\ prepared'[b] = 0
    BY <1>5 DEF EndWalk
  <2>4. AtQueue' = {}
    BY <2>2, <2>3 DEF AtQueue
  <2>5. \A b \in Buffer : reads'[b] + prepared'[b] <= 1
    BY <2>3, <1>0, <1>g DEF Fifo
  <2> QED BY <2>1, <2>2, <2>3, <2>4, <2>5, <1>0, <1>g DEF Fifo
<1>6. CASE UNCHANGED vars
  BY <1>6, <1>g DEF vars, kernelVars, walkVars, Fifo, AtQueue
<1> QED BY <1>1, <1>2, <1>3, <1>4, <1>5, <1>6 DEF Next

\* As long as no read has failed, send_to_gateway is given every packet of the
\* device at most once and in the device's order, in whatever order the kernel
\* completes the reads (io_uring_poll, tun_buf_init).
THEOREM RingInOrder == Spec => []InOrderUntilFailure
<1>1. Init => RingTyped /\ OrderInv
  BY TypeInit, OrderInit
<1>2. RingTyped /\ OrderInv /\ [Next]_vars => RingTyped' /\ OrderInv'
  BY TypeNext, OrderNext
<1>3. RingTyped /\ OrderInv => InOrderUntilFailure
  <2> SUFFICES ASSUME RingTyped, OrderInv, failed = 0
               PROVE  SentInOrder
    BY DEF InOrderUntilFailure
  <2>1. sent \in Seq(Packet)
    BY DEF RingTyped, TypeOK
  <2>2. DOMAIN sent = 1 .. Len(sent)
    BY <2>1
  <2>3. \A i \in 1 .. Len(sent) : sent[i] = i
    BY DEF OrderInv, Fifo
  <2> QED BY <2>2, <2>3 DEF SentInOrder
<1> QED BY <1>1, <1>2, <1>3, PTL DEF Spec

-----------------------------------------------------------------------------
(* The reads of the buffers *)

\* The entries of a buffer that are still to be walked.
WaitingOf(b) == {i \in AtQueue : cq[i].buffer = b}

OneEach ==
  failed = 0 => \A b \in Buffer : reads[b] + prepared[b] + Cardinality(WaitingOf(b)) = 1

\* Buffers that will be read into again: an entry with an error is no promise
\* of a read, although ReadsSurvive counts its buffer until it is walked.
Alive ==
  {b \in Buffer : \/ reads[b] + prepared[b] > 0
                  \/ \E i \in AtQueue : cq[i].buffer = b /\ cq[i].res > 0}

ReadsInv ==
  /\ OneEach
  /\ pc = "wait" => seen = 0
  /\ Cardinality(Alive) >= Cardinality(Buffer) - failed

\* No more than the buffers in S are lost, and S are no more than n.
LEMMA FewLost ==
  ASSUME NEW A \in SUBSET Buffer, NEW B \in SUBSET Buffer, NEW b,
         A \ {b} \subseteq B
  PROVE  /\ Cardinality(B) \in Int /\ Cardinality(A) \in Int
         /\ Cardinality(B) >= Cardinality(A) - 1
         /\ A \subseteq B => Cardinality(B) >= Cardinality(A)
<1>1. IsFiniteSet(A) /\ IsFiniteSet(B)
  BY TunRingAssumption, FS_Subset
<1>2. IsFiniteSet(A \ {b}) /\ Cardinality(A \ {b}) = IF b \in A THEN Cardinality(A) - 1 ELSE Cardinality(A)
  BY <1>1, FS_RemoveElement
<1>3. Cardinality(A) \in Nat /\ Cardinality(B) \in Nat
  BY <1>1, FS_CardinalityType
<1>4. Cardinality(A \ {b}) <= Cardinality(B)
  BY <1>1, FS_Subset
<1>5. A \subseteq B => Cardinality(A) <= Cardinality(B)
  BY <1>1, FS_Subset
<1> QED BY <1>2, <1>3, <1>4, <1>5

LEMMA ReadsInit == Init => ReadsInv
<1> SUFFICES ASSUME Init PROVE ReadsInv
  OBVIOUS
<1>1. AtQueue = {} /\ Alive = Buffer /\ \A b \in Buffer : WaitingOf(b) = {}
  BY DEF Init, AtQueue, Alive, WaitingOf
<1>2. Cardinality({}) = 0 /\ Cardinality(Buffer) \in Nat
  BY FS_EmptySet, FS_CardinalityType, TunRingAssumption
<1>3. ASSUME NEW b \in Buffer PROVE reads[b] + prepared[b] + Cardinality(WaitingOf(b)) = 1
  <2>1. reads[b] = 1 /\ prepared[b] = 0
    BY DEF Init
  <2> QED BY <2>1, <1>1, <1>2
<1>4. Cardinality(Alive) >= Cardinality(Buffer) - failed
  BY <1>1, <1>2 DEF Init
<1> QED BY <1>3, <1>4 DEF Init, ReadsInv, OneEach

LEMMA ReadsNext == RingTyped /\ OrderInv /\ ReadsInv /\ [Next]_vars => ReadsInv'
<1> SUFFICES ASSUME RingTyped, OrderInv, ReadsInv, [Next]_vars PROVE ReadsInv'
  OBVIOUS
<1>0. /\ reads \in [Buffer -> Nat] /\ prepared \in [Buffer -> Nat] /\ failed \in Nat
      /\ Len(cq) \in Nat /\ seen \in 0 .. Len(cq) /\ cq \in Seq(Cqe) /\ read \in Nat
      /\ \A i \in 1 .. Len(cq) : cq[i] \in Cqe /\ cq[i].buffer \in Buffer /\ cq[i].res \in Int
  <2>1. cq \in Seq(Cqe)
    BY DEF RingTyped, TypeOK
  <2>2. \A i \in 1 .. Len(cq) : cq[i] \in Cqe
    BY <2>1
  <2>3. \A i \in 1 .. Len(cq) : cq[i].buffer \in Buffer /\ cq[i].res \in Int
    BY <2>2, RingNumbers DEF Cqe
  <2> QED BY <2>1, <2>2, <2>3, TunRingAssumption DEF RingTyped, TypeOK
<1>1. /\ Cardinality(Alive) \in Int /\ Cardinality(Alive') \in Int /\ Cardinality(Buffer) \in Int
      /\ \A b : Alive \ {b} \subseteq Alive' => Cardinality(Alive') >= Cardinality(Alive) - 1
      /\ Alive \subseteq Alive' => Cardinality(Alive') >= Cardinality(Alive)
  <2>1. Alive \in SUBSET Buffer /\ Alive' \in SUBSET Buffer
    BY DEF Alive
  <2>2. Cardinality(Buffer) \in Nat
    BY FS_CardinalityType, TunRingAssumption
  <2> QED BY <2>1, <2>2, FewLost
\* A set of entries waiting is finite.
<1>2. \A b : IsFiniteSet(WaitingOf(b)) /\ Cardinality(WaitingOf(b)) \in Nat
  <2>1. seen + 1 \in Int /\ Len(cq) \in Int
    BY <1>0
  <2>2. IsFiniteSet((seen + 1) .. Len(cq))
    BY <2>1, FS_Interval, Zenon
  <2>3. ASSUME NEW b PROVE WaitingOf(b) \subseteq (seen + 1) .. Len(cq)
    BY DEF WaitingOf, AtQueue
  <2> QED BY <2>2, <2>3, FS_Subset, FS_CardinalityType, Zenon
<1>3. ASSUME NEW b \in Buffer, NEW e \in Packet \cup Errors, Complete(b, e),
             UNCHANGED failed => e > 0
      PROVE  /\ UNCHANGED failed => OneEach'
             /\ pc' = "wait" => seen' = 0
             /\ Alive \ {b} \subseteq Alive'
             /\ e > 0 => Alive \subseteq Alive'
  <2> DEFINE c == [buffer |-> b, res |-> e]
  <2>1. c \in Cqe
    BY DEF Cqe
  <2>2. /\ Len(cq') = Len(cq) + 1
        /\ \A i \in 1 .. Len(cq) : cq'[i] = cq[i]
        /\ cq'[Len(cq) + 1] = c
    BY <1>3, <2>1, <1>0, Appended DEF Complete
  <2>3. /\ reads[b] > 0 /\ reads' = [reads EXCEPT ![b] = @ - 1]
        /\ UNCHANGED <<prepared, pc, seen, count, sent>>
    BY <1>3 DEF Complete, walkVars
  <2>4. AtQueue' = AtQueue \cup {Len(cq) + 1} /\ Len(cq) + 1 \notin AtQueue
    BY <2>2, <2>3, <1>0 DEF AtQueue
  <2>5. \A i \in AtQueue : i \in 1 .. Len(cq) /\ cq'[i] = cq[i]
    BY <2>2, <1>0 DEF AtQueue
  <2>6. ASSUME failed' = failed PROVE OneEach'
    <3> SUFFICES ASSUME failed = 0, NEW a \in Buffer
                 PROVE  reads'[a] + prepared'[a] + Cardinality(WaitingOf(a)') = 1
      BY <2>6 DEF OneEach
    <3>1. reads[a] + prepared[a] + Cardinality(WaitingOf(a)) = 1
      BY DEF ReadsInv, OneEach
    <3>2. CASE a = b
      <4>1. WaitingOf(a)' = WaitingOf(a) \cup {Len(cq) + 1}
        BY <2>2, <2>4, <2>5, <3>2 DEF WaitingOf
      <4>2. Len(cq) + 1 \notin WaitingOf(a)
        BY <2>4 DEF WaitingOf
      <4>3. Cardinality(WaitingOf(a)') = Cardinality(WaitingOf(a)) + 1
        BY <4>1, <4>2, <1>2, FS_AddElement
      <4>4. reads'[a] = reads[a] - 1 /\ prepared'[a] = prepared[a]
        BY <2>3, <3>2, <1>0
      <4> QED BY <3>1, <4>3, <4>4, <1>0, <1>2
    <3>3. CASE a # b
      <4>1. WaitingOf(a)' = WaitingOf(a)
        BY <2>2, <2>4, <2>5, <3>3 DEF WaitingOf
      <4>2. reads'[a] = reads[a] /\ prepared'[a] = prepared[a]
        BY <2>3, <3>3, <1>0
      <4> QED BY <3>1, <4>1, <4>2
    <3> QED BY <3>2, <3>3
  <2>7. ASSUME NEW a \in Alive, a # b \/ e > 0 PROVE a \in Alive'
    <3>1. CASE a = b
      <4>1. Len(cq) + 1 \in AtQueue' /\ cq'[Len(cq) + 1].buffer = b /\ cq'[Len(cq) + 1].res = e
        BY <2>2, <2>4
      <4> QED BY <4>1, <3>1, <2>7 DEF Alive
    <3>2. CASE a # b
      <4>1. a \in Buffer /\ reads'[a] = reads[a] /\ prepared'[a] = prepared[a]
        BY <2>3, <3>2, <1>0 DEF Alive
      <4>2. \A i \in AtQueue : i \in AtQueue' /\ cq'[i] = cq[i]
        BY <2>4, <2>5
      <4> QED BY <4>1, <4>2 DEF Alive
    <3> QED BY <3>1, <3>2
  <2> QED BY <2>3, <2>6, <2>7 DEF ReadsInv
<1>4. ASSUME NEW b \in Buffer, ReadPacket(b) PROVE ReadsInv'
  <2>1. read + 1 \in Packet /\ Complete(b, read + 1) /\ failed' = failed
    BY <1>4, <1>0, TunRingAssumption DEF ReadPacket, Packet
  <2>2. PICK e \in Packet : e = read + 1 /\ Complete(b, e)
    BY <2>1
  <2>3. OneEach' /\ (pc' = "wait" => seen' = 0) /\ Alive \subseteq Alive'
    BY <2>1, <2>2, <1>3, <1>0
  <2>4. Cardinality(Alive') >= Cardinality(Buffer) - failed'
    BY <2>1, <2>3, <1>0, <1>1 DEF ReadsInv
  <2> QED BY <2>3, <2>4 DEF ReadsInv
<1>5. ASSUME NEW b \in Buffer, ReadFails(b) PROVE ReadsInv'
  <2>1. PICK e \in Errors : Complete(b, e)
    BY <1>5 DEF ReadFails
  <2>2. failed' = failed + 1
    BY <1>5 DEF ReadFails
  <2>3. (pc' = "wait" => seen' = 0) /\ Alive \ {b} \subseteq Alive'
    BY <2>1, <2>2, <1>3, <1>0
  <2>4. Cardinality(Alive') >= Cardinality(Alive) - 1
    BY <2>3, <1>1, Zenon
  <2>5. Cardinality(Alive') >= Cardinality(Buffer) - failed'
    BY <2>2, <2>4, <1>0, <1>1 DEF ReadsInv
  <2> QED BY <2>2, <2>3, <2>5, <1>0 DEF ReadsInv, OneEach
<1>6. CASE WaitCqe
  <2>1. seen = 0 /\ seen' = 0 /\ pc' = "walk" /\ UNCHANGED <<failed, cq, reads, prepared>>
    BY <1>6 DEF WaitCqe, kernelVars, ReadsInv
  <2> QED BY <2>1 DEF ReadsInv, OneEach, Alive, AtQueue, WaitingOf
<1>7. CASE WalkCqe
  <2> DEFINE n == seen + 1
  <2> DEFINE c == cq[n]
  <2>1. /\ n \in 1 .. Len(cq) /\ n \in AtQueue /\ seen' = n /\ pc' # "wait"
        /\ UNCHANGED <<failed, cq, reads>>
    BY <1>7, <1>0 DEF WalkCqe, AtQueue, kernelVars
  <2>2. c.buffer \in Buffer /\ c.res \in Int
    BY <2>1, <1>0
  <2>3. AtQueue' = AtQueue \ {n}
    BY <2>1, <1>0 DEF AtQueue
  <2>4. CASE c.res > 0
    <3>1. prepared' = [prepared EXCEPT ![c.buffer] = @ + 1]
      BY <1>7, <2>2, <2>4 DEF WalkCqe
    <3>2. \A a \in Buffer : prepared'[a] = IF a = c.buffer THEN prepared[a] + 1 ELSE prepared[a]
      BY <3>1, <1>0
    <3>3. ASSUME NEW a \in Alive PROVE a \in Alive'
      <4>1. CASE a = c.buffer
        BY <4>1, <3>2, <2>1, <2>2, <1>0 DEF Alive
      <4>2. CASE a # c.buffer
        <5>1. a \in Buffer /\ prepared'[a] = prepared[a]
          BY <4>2, <3>2 DEF Alive
        <5>2. \A i \in AtQueue : cq[i].buffer = a => i \in AtQueue'
          BY <4>2, <2>3
        <5> QED BY <5>1, <5>2, <2>1 DEF Alive
      <4> QED BY <4>1, <4>2
    <3>4. ASSUME failed = 0, NEW a \in Buffer
          PROVE  reads'[a] + prepared'[a] + Cardinality(WaitingOf(a)') = 1
      <4>0. reads[a] + prepared[a] + Cardinality(WaitingOf(a)) = 1
        BY <3>4 DEF ReadsInv, OneEach
      <4>1. CASE a = c.buffer
        <5>1. WaitingOf(a)' = WaitingOf(a) \ {n} /\ n \in WaitingOf(a)
          BY <4>1, <2>1, <2>3 DEF WaitingOf
        <5>2. Cardinality(WaitingOf(a)') = Cardinality(WaitingOf(a)) - 1
          BY <5>1, <1>2, FS_RemoveElement
        <5>3. prepared'[a] = prepared[a] + 1 /\ reads'[a] = reads[a]
          BY <4>1, <3>2, <2>1
        <5>4. reads[a] \in Nat /\ prepared[a] \in Nat /\ Cardinality(WaitingOf(a)) \in Int
          BY <1>0, <1>2
        <5> QED BY <4>0, <5>2, <5>3, <5>4
      <4>2. CASE a # c.buffer
        <5>1. WaitingOf(a)' = WaitingOf(a)
          BY <4>2, <2>1, <2>3 DEF WaitingOf
        <5> QED BY <4>0, <4>2, <5>1, <3>2, <2>1
      <4> QED BY <4>1, <4>2
    <3> QED BY <3>3, <3>4, <2>1, <1>0, <1>1 DEF ReadsInv, OneEach
  <2>5. CASE c.res <= 0
    <3>1. UNCHANGED prepared /\ count' = count
      BY <1>7, <2>2, <2>5 DEF WalkCqe
    <3>2. Alive \subseteq Alive'
      <4>1. \A i \in AtQueue : cq[i].res > 0 => i \in AtQueue'
        BY <2>2, <2>3, <2>5
      <4> QED BY <4>1, <3>1, <2>1 DEF Alive
    \* An entry with an error means that a read has failed.
    <3>3. failed # 0
      <4> SUFFICES ASSUME failed = 0 PROVE FALSE
        OBVIOUS
      <4>1. Fifo
        BY DEF OrderInv
      <4>2. c.res = Len(sent) + 1 /\ Len(sent) \in Nat
        BY <4>1, <2>1, <1>0 DEF Fifo, RingTyped, TypeOK
      <4> QED BY <4>2, <2>5
    <3> QED BY <3>1, <3>2, <3>3, <2>1, <1>0, <1>1 DEF ReadsInv, OneEach
  <2> QED BY <2>2, <2>4, <2>5
<1>8. CASE EndWalk
  <2>1. /\ seen = Len(cq) /\ seen' = 0 /\ failed' = failed
        /\ \A b \in Buffer : reads'[b] = reads[b] + prepared[b] /\ prepared'[b] = 0
        /\ cq' = SubSeq(cq, count + 1, Len(cq))
    BY <1>8 DEF EndWalk
  <2>2. AtQueue = {}
    BY <2>1, <1>0 DEF AtQueue
  <2>3. Alive \subseteq Alive'
    BY <2>1, <2>2, <1>0 DEF Alive
  <2>4. ASSUME failed = 0, NEW b \in Buffer
        PROVE  reads'[b] + prepared'[b] + Cardinality(WaitingOf(b)') = 1
    <3>1. count = Len(cq)
      BY <2>1, <2>4 DEF OrderInv, Fifo
    <3>2. Len(cq') = 0
      BY <2>1, <3>1, <1>0, Released
    <3>3. seen' = 0
      BY <2>1
    <3>4. AtQueue' = {}
      BY <3>2, <3>3 DEF AtQueue
    <3>5. WaitingOf(b) = {} /\ WaitingOf(b)' = {}
      BY <2>2, <3>4 DEF WaitingOf
    <3>6. reads[b] + prepared[b] + Cardinality({}) = 1 /\ Cardinality({}) = 0
      BY <2>4, <3>5, FS_EmptySet DEF ReadsInv, OneEach
    <3> QED BY <3>5, <3>6, <2>1, <1>0
  <2> QED BY <2>1, <2>3, <2>4, <1>0, <1>1 DEF ReadsInv, OneEach
<1>9. CASE UNCHANGED vars
  BY <1>9 DEF vars, kernelVars, walkVars, ReadsInv, OneEach, Alive, AtQueue, WaitingOf
<1> QED BY <1>4, <1>5, <1>6, <1>7, <1>8, <1>9 DEF Next

\* Until a read fails every buffer has one read under way, one entry to be
\* walked or one read prepared, so it is never written while it is read; and a
\* failed read costs at most one buffer, whatever is walked a second time after
\* the wrong number of entries was released (io_uring_poll).
THEOREM RingReadsKept == Spec => []ReadsKept
<1>1. Init => RingTyped /\ OrderInv /\ ReadsInv
  BY TypeInit, OrderInit, ReadsInit
<1>2. RingTyped /\ OrderInv /\ ReadsInv /\ [Next]_vars => RingTyped' /\ OrderInv' /\ ReadsInv'
  BY TypeNext, OrderNext, ReadsNext
<1>3. RingTyped /\ ReadsInv => ReadsKept
  <2> SUFFICES ASSUME RingTyped, ReadsInv PROVE ReadsKept
    OBVIOUS
  <2>1. OneReadPerBuffer
    BY DEF ReadsInv, OneEach, OneReadPerBuffer, AtQueue, WaitingOf
  <2> DEFINE Counted == {b \in Buffer : \/ reads[b] + prepared[b] > 0
                                        \/ \E i \in (seen + 1) .. Len(cq) : cq[i].buffer = b}
  <2>2. Alive \in SUBSET Counted /\ Counted \in SUBSET Buffer
    BY DEF Alive, AtQueue
  <2>3. IsFiniteSet(Counted)
    BY <2>2, TunRingAssumption, FS_Subset
  <2>4. Cardinality(Alive) <= Cardinality(Counted) /\ Cardinality(Alive) \in Nat /\ Cardinality(Counted) \in Nat
    BY <2>2, <2>3, FS_Subset, FS_CardinalityType
  <2>5. Cardinality(Counted) >= Cardinality(Buffer) - failed
    <3>1. Cardinality(Buffer) \in Nat /\ failed \in Int
      BY TunRingAssumption, FS_CardinalityType DEF RingTyped, TypeOK
    <3> QED BY <2>4, <3>1 DEF ReadsInv
  <2> QED BY <2>1, <2>5 DEF ReadsKept, ReadsSurvive
<1> QED BY <1>1, <1>2, <1>3, PTL DEF Spec

-----------------------------------------------------------------------------
(* The trace of a fault *)

\* The trace so far, against the stack.
Traced(t) ==
  /\ Len(trace[t]) <= Len(stack[t])
  /\ \A i \in 1 .. Len(trace[t]) : trace[t][i] = stack[t][i].fn
  /\ doing[t] \in {"run", "log", "out", "start"} => trace[t] = <<>>

\* Where a walk is: at a register that holds no frame and an address without a
\* symbol; at the next function of the stack, whose address is in hand; or past
\* the last frame, which had no link.
Walking(t) ==
  LET n == Len(trace[t]) IN
    \/ fp[t] = Wild /\ ret[t] \in {NoFn, "unknown"}
    \/ /\ n + 1 <= Len(stack[t]) /\ ret[t] = stack[t][n + 1].fn
       /\ fp[t] = n + 1 \/ fp[t] = Wild
    \/ /\ fp[t] = NULL
       /\ (n > 0 /\ stack[t][n].saved = "null") \/ n = Len(stack[t])

\* Why a walk is over.
Explained(t) ==
  LET n == Len(trace[t]) IN
    \/ n > 0 /\ trace[t][n] = "main"
    \/ n < Len(stack[t]) /\ stack[t][n + 1].fn = "unknown"
    \/ fp[t] = Wild
    \/ n > 0 /\ stack[t][n].saved = "null"
    \/ n = Len(stack[t])

\* (A thread whose walk ended the process is left in the middle of it.)
WalkInv ==
  \A t \in Thread :
    /\ Traced(t)
    /\ doing[t] = "walk" /\ process = "up" => Walking(t)
    /\ doing[t] \in {"end", "print"} => Explained(t)

CrashTyped ==
  /\ doing \in [Thread -> {"run", "log", "out"} \cup Faulted]
  /\ stack \in [Thread -> Stacks]
  /\ fp \in [Thread -> Int]
  /\ ret \in [Thread -> Functions \cup {NoFn}]
  /\ trace \in [Thread -> Seq(Functions)]

\* Every stack has a first frame, and every frame a function and a link.
LEMMA StackOf ==
  ASSUME CrashTyped, NEW t \in Thread
  PROVE  /\ stack[t] \in Seq(StackFrame) /\ Len(stack[t]) \in Nat /\ Len(stack[t]) > 0
         /\ \A i \in 1 .. Len(stack[t]) : stack[t][i].fn \in Functions
<1>1. stack[t] \in Seq(StackFrame) /\ stack[t] # <<>>
  BY StacksAssumption DEF CrashTyped
<1>2. \A i \in 1 .. Len(stack[t]) : stack[t][i] \in StackFrame
  BY <1>1
<1> QED BY <1>1, <1>2 DEF StackFrame

LEMMA CrashInitInv == CrashInit => CrashTyped /\ WalkInv
<1> SUFFICES ASSUME CrashInit PROVE CrashTyped /\ WalkInv
  OBVIOUS
<1>1. CrashTyped
  BY DEF CrashInit, CrashTyped, NULL
<1>2. \A t \in Thread : trace[t] = <<>> /\ doing[t] = "run"
  BY DEF CrashInit
<1>3. \A t \in Thread : Len(trace[t]) = 0 /\ Len(stack[t]) \in Nat
  BY <1>1, <1>2, StackOf
<1> QED BY <1>1, <1>2, <1>3 DEF WalkInv, Traced

\* A thread that walks goes on with its own stack; the others stay as they are.
LEMMA OthersStay ==
  ASSUME CrashTyped, NEW t \in Thread, CrashStep(t), NEW s \in Thread \ {t}
  PROVE  /\ doing'[s] = doing[s] /\ fp'[s] = fp[s] /\ ret'[s] = ret[s]
         /\ trace'[s] = trace[s] /\ stack' = stack
BY DEF CrashTyped, CrashStep, Logs, Prints, Returns, Fault, Report, StopWalk, Walk,
       EndTrace, ExitProcess, Walks, Locks

LEMMA CrashNextInv == CrashTyped /\ WalkInv /\ [CrashNext]_crashVars => CrashTyped' /\ WalkInv'
<1> SUFFICES ASSUME CrashTyped, WalkInv, [CrashNext]_crashVars PROVE CrashTyped' /\ WalkInv'
  OBVIOUS
<1>1. CASE UNCHANGED crashVars
  BY <1>1 DEF crashVars, CrashTyped, WalkInv, Traced, Walking, Explained
<1>2. CASE CrashNext
  <2>1. PICK t \in Thread : CrashStep(t)
    BY <1>2 DEF CrashNext
  <2>u. process = "up"
    BY <1>2 DEF CrashNext
  <2>2. ASSUME NEW s \in Thread \ {t}
        PROVE  /\ Traced(s)' /\ (doing'[s] = "walk" /\ process' = "up" => Walking(s)')
               /\ (doing'[s] \in {"end", "print"} => Explained(s)')
    <3>1. /\ doing'[s] = doing[s] /\ fp'[s] = fp[s] /\ ret'[s] = ret[s]
          /\ trace'[s] = trace[s] /\ stack' = stack
      BY <2>1, OthersStay
    <3> QED BY <3>1, <2>u DEF WalkInv, Traced, Walking, Explained
  <2> DEFINE Here == /\ CrashTyped' /\ Traced(t)'
                     /\ (doing'[t] = "walk" /\ process' = "up" => Walking(t)')
                     /\ (doing'[t] \in {"end", "print"} => Explained(t)')
             n == Len(trace[t])
  <2>f. /\ trace[t] \in Seq(Functions) /\ n \in Nat
        /\ stack[t] \in Seq(StackFrame) /\ Len(stack[t]) \in Nat /\ Len(stack[t]) > 0
        /\ Traced(t)
    BY StackOf DEF CrashTyped, WalkInv
  <2>3. CASE Logs(t) \/ Prints(t) \/ Returns(t) \/ Fault(t)
    <3>1. /\ doing[t] \in {"run", "log", "out"} /\ doing'[t] \in {"run", "log", "out", "start"}
          /\ UNCHANGED Walks /\ doing' \in [Thread -> {"run", "log", "out"} \cup Faulted]
      BY <2>3 DEF Logs, Prints, Returns, Fault, CrashTyped, Faulted
    <3> QED BY <3>1, <2>2, <2>f DEF CrashTyped, Traced, WalkInv, Walks
  <2>4. CASE Report(t)
    <3>1. /\ doing[t] = "start" /\ doing'[t] = "walk"
          /\ doing' \in [Thread -> {"run", "log", "out"} \cup Faulted]
          /\ fp'[t] \in {1, Wild} /\ fp' \in [Thread -> Int]
          /\ ret'[t] = stack[t][1].fn
          /\ stack' = stack /\ trace' = trace
      BY <2>4 DEF Report, CrashTyped, Faulted, Wild
    <3>2. ret' \in [Thread -> Functions \cup {NoFn}]
      BY <2>4, StackOf DEF Report, CrashTyped
    <3>3. trace[t] = <<>> /\ n = 0
      BY <3>1, <2>f DEF Traced
    <3>4. Walking(t)'
      BY <3>1, <3>3, <2>f DEF Walking
    <3> QED BY <3>1, <3>2, <3>3, <3>4, <2>2, <2>f DEF CrashTyped, Traced, WalkInv
  <2>5. CASE StopWalk(t)
    <3>1. /\ doing[t] = "walk" /\ doing'[t] = "end"
          /\ doing' \in [Thread -> {"run", "log", "out"} \cup Faulted]
          /\ fp[t] = NULL \/ ret[t] \in {NoFn, "unknown"}
          /\ UNCHANGED Walks
      BY <2>5 DEF StopWalk, CrashTyped, Faulted
    <3>2. Walking(t)
      BY <3>1, <2>u DEF WalkInv
    <3>3. n + 1 <= Len(stack[t]) => n < Len(stack[t]) /\ stack[t][n + 1].fn \in Functions
      BY <2>f, StackOf
    <3>4. NULL # Wild /\ \A i \in Nat : i + 1 # NULL
      BY DEF NULL, Wild
    <3>5. Explained(t)
      BY <3>1, <3>2, <3>3, <3>4, <2>f, StacksAssumption DEF Walking, Explained
    <3> QED BY <3>1, <3>5, <2>2, <2>f DEF CrashTyped, Traced, Explained, WalkInv, Walks
  <2>6. CASE Walk(t)
    <3>1. /\ doing[t] = "walk" /\ fp[t] # NULL /\ ret[t] \notin {NoFn, "unknown"}
          /\ ret[t] \in Functions
          /\ trace' = [trace EXCEPT ![t] = Append(@, ret[t])] /\ stack' = stack
      BY <2>6 DEF Walk, CrashTyped
    <3>2. n + 1 <= Len(stack[t]) /\ ret[t] = stack[t][n + 1].fn /\ (fp[t] = n + 1 \/ fp[t] = Wild)
      BY <3>1, <2>u DEF WalkInv, Walking
    <3>3. /\ trace' \in [Thread -> Seq(Functions)]
          /\ Len(trace'[t]) = n + 1 /\ trace'[t][n + 1] = ret[t]
          /\ \A i \in 1 .. n : trace'[t][i] = trace[t][i]
      BY <3>1, <2>f DEF CrashTyped
    <3>4. \A i \in 1 .. (n + 1) : trace'[t][i] = stack[t][i].fn
      BY <3>2, <3>3, <2>f DEF Traced
    <3>5. doing' \in [Thread -> {"run", "log", "out"} \cup Faulted] /\ doing'[t] \in {"walk", "end"}
      BY <2>6 DEF Walk, CrashTyped, Faulted
    <3>6. Traced(t)'
      BY <3>1, <3>2, <3>3, <3>4, <3>5 DEF Traced
    <3>7. CASE ret[t] = "main" /\ doing' = [doing EXCEPT ![t] = "end"] /\ UNCHANGED <<fp, ret, process>>
      <4>1. doing'[t] = "end" /\ Explained(t)'
        BY <3>3, <3>7, <2>f DEF Explained, CrashTyped
      <4> QED BY <4>1, <3>1, <3>3, <3>5, <3>6, <3>7, <2>2 DEF CrashTyped, WalkInv
    <3>8. CASE /\ fp[t] = Wild /\ UNCHANGED <<doing, fp>>
               /\ \/ process' = "killed" /\ UNCHANGED ret
                  \/ ret' = [ret EXCEPT ![t] = "unknown"] /\ UNCHANGED process
      <4>1. ret' \in [Thread -> Functions \cup {NoFn}]
        BY <3>8 DEF CrashTyped, Functions
      <4>2. process' = "up" => Walking(t)'
        BY <3>8, <2>u DEF Walking, CrashTyped
      <4> QED BY <4>1, <4>2, <3>1, <3>3, <3>5, <3>6, <3>8, <2>2 DEF CrashTyped, WalkInv
    <3>9. CASE /\ fp[t] # Wild /\ UNCHANGED <<doing, process>>
               /\ fp' = [fp EXCEPT ![t] = Up(stack[t], fp[t]).fp]
               /\ ret' = [ret EXCEPT ![t] = Up(stack[t], fp[t]).ret]
      <4> DEFINE m == n + 1
                 up == Up(stack[t], m)
      <4>1. fp[t] = m /\ m \in 1 .. Len(stack[t])
        BY <3>2, <3>9, <2>f
      <4>2. stack[t][m] \in StackFrame
        BY <4>1, <2>f
      <4>3. stack[t][m].saved \in {"link", "null", "wild"}
        BY <4>2 DEF StackFrame
      <4>4. /\ up.ret = IF m < Len(stack[t]) THEN stack[t][m + 1].fn ELSE NoFn
            /\ stack[t][m].saved = "wild" => up.fp = Wild
            /\ stack[t][m].saved = "link" /\ m < Len(stack[t]) => up.fp = m + 1
            /\ stack[t][m].saved = "link" /\ m = Len(stack[t]) => up.fp = NULL
            /\ stack[t][m].saved = "null" => up.fp = NULL
        BY <4>1 DEF Up
      <4>5. m < Len(stack[t]) => m + 1 <= Len(stack[t]) /\ stack[t][m + 1].fn \in Functions
        BY <4>1, <2>f, StackOf
      <4>6. up.ret \in Functions \cup {NoFn} /\ up.fp \in Int
        BY <4>1, <4>3, <4>4, <4>5 DEF Wild, NULL
      <4>7. /\ fp'[t] = up.fp /\ ret'[t] = up.ret /\ fp' \in [Thread -> Int]
            /\ ret' \in [Thread -> Functions \cup {NoFn}]
        BY <4>1, <4>6, <3>9 DEF CrashTyped
      <4>8. Walking(t)'
        <5>1. CASE stack[t][m].saved = "wild"
          BY <5>1, <4>1, <4>4, <4>5, <4>7, <3>1, <3>3 DEF Walking
        <5>2. CASE stack[t][m].saved = "link"
          BY <5>2, <4>1, <4>4, <4>5, <4>7, <3>1, <3>3 DEF Walking
        <5>3. CASE stack[t][m].saved = "null"
          BY <5>3, <4>1, <4>4, <4>7, <3>1, <3>3 DEF Walking
        <5> QED BY <5>1, <5>2, <5>3, <4>3
      <4> QED BY <4>7, <4>8, <3>1, <3>3, <3>5, <3>6, <3>9, <2>2 DEF CrashTyped, WalkInv
    <3> QED BY <3>7, <3>8, <3>9, <2>6 DEF Walk
  <2>7. CASE EndTrace(t) \/ ExitProcess(t)
    <3>1. /\ doing[t] \in {"end", "print"} /\ doing'[t] = "print" /\ UNCHANGED Walks
          /\ doing' \in [Thread -> {"run", "log", "out"} \cup Faulted]
      BY <2>7 DEF EndTrace, ExitProcess, CrashTyped, Faulted
    <3> QED BY <3>1, <2>2, <2>f DEF CrashTyped, Traced, Explained, WalkInv, Walks
  <2> QED BY <2>1, <2>3, <2>4, <2>5, <2>6, <2>7 DEF CrashStep
<1> QED BY <1>1, <1>2

\* What the handler writes is the stack from its innermost function outwards,
\* none left out, and it stops for one of the reasons TraceFaithful names, for
\* every stack and however many threads fault at once (print_call_link).
THEOREM CrashTraceFaithful == CrashSpec => []TraceFaithful
<1>1. CrashInit => CrashTyped /\ WalkInv
  BY CrashInitInv
<1>2. CrashTyped /\ WalkInv /\ [CrashNext]_crashVars => CrashTyped' /\ WalkInv'
  BY CrashNextInv
<1>3. CrashTyped /\ WalkInv => TraceFaithful
  <2> SUFFICES ASSUME CrashTyped, WalkInv, NEW t \in Thread
               PROVE  /\ \A i \in DOMAIN trace[t] : trace[t][i] = stack[t][i].fn
                      /\ doing[t] \in {"end", "print"} => Explained(t)
    BY DEF TraceFaithful, Explained
  <2>1. trace[t] \in Seq(Functions)
    BY DEF CrashTyped
  <2> QED BY <2>1 DEF WalkInv, Traced
<1> QED BY <1>1, <1>2, <1>3, PTL DEF CrashSpec

-----------------------------------------------------------------------------
(* Sums over a finite set *)

\* A set of natural numbers has a least one.
LEMMA LeastNumber ==
  ASSUME NEW T \in SUBSET Nat, T # {}
  PROVE  \E n \in T : \A m \in T : n <= m
<1>1. PICK n \in T : \A m \in T : ~(<<m, n>> \in OpToRel(<, Nat))
  BY NatLessThanWellFounded, WFMin DEF OpToRel
<1>2. \A m \in T : ~(m < n)
  BY <1>1 DEF OpToRel
<1> QED BY <1>2

\* What MapThenSumSet adds up: a function on the subsets, by its recursion.
Chosen(s) == CHOOSE x \in s : TRUE
SumStep(g, r, s) == IF s = {} THEN 0 ELSE r[Chosen(s)] + g[s \ {Chosen(s)}]
SumFn(g, r, S) == g = [s \in SUBSET S |-> SumStep(g, r, s)]
Sum(r, S) == MapThenSumSet(LAMBDA l : r[l], S)

\* What is left of a set without its chosen element.
LEMMA Rest ==
  ASSUME NEW s, IsFiniteSet(s), s # {}
  PROVE  /\ Chosen(s) \in s
         /\ IsFiniteSet(s \ {Chosen(s)})
         /\ Cardinality(s) \in Nat \ {0}
         /\ Cardinality(s \ {Chosen(s)}) = Cardinality(s) - 1
<1>1. Chosen(s) \in s
  BY DEF Chosen
<1> HIDE DEF Chosen
<1>2. Cardinality(s) \in Nat /\ Cardinality(s) # 0
  BY FS_CardinalityType, FS_EmptySet
<1>3. IsFiniteSet(s \ {Chosen(s)}) /\ Cardinality(s \ {Chosen(s)}) = Cardinality(s) - 1
  BY <1>1, FS_RemoveElement
<1> QED BY <1>1, <1>2, <1>3

\* The subsets with at most n elements.
Upto(S, n) == {s \in SUBSET S : Cardinality(s) <= n}

LEMMA SumExists ==
  ASSUME NEW S, IsFiniteSet(S), NEW r
  PROVE  \E g : SumFn(g, r, S)
<1> DEFINE Good(n) == \E g : g = [s \in Upto(S, n) |-> SumStep(g, r, s)]
           Bad == {n \in Nat : ~Good(n)}
<1>0. \A s \in SUBSET S : IsFiniteSet(s) /\ Cardinality(s) \in Nat
  BY FS_Subset, FS_CardinalityType
<1>1. ASSUME NEW n \in Nat, n = 0 \/ Good(n - 1) PROVE Good(n)
  <2>1. CASE n = 0
    <3>1. \A s \in Upto(S, n) : s = {}
      BY <1>0, <2>1, FS_EmptySet DEF Upto
    <3>2. [s \in Upto(S, n) |-> 0] = [s \in Upto(S, n) |-> SumStep([t \in Upto(S, n) |-> 0], r, s)]
      BY <3>1 DEF SumStep
    <3> QED BY <3>2
  <2>2. CASE n # 0 /\ Good(n - 1)
    <3>1. PICK g : g = [s \in Upto(S, n - 1) |-> SumStep(g, r, s)]
      BY <2>2
    <3> DEFINE h == [s \in Upto(S, n) |-> SumStep(g, r, s)]
    <3>2. Upto(S, n - 1) \subseteq Upto(S, n)
      BY <1>0 DEF Upto
    <3>3. \A s \in Upto(S, n - 1) : h[s] = g[s]
      BY <3>1, <3>2
    <3>4. ASSUME NEW s \in Upto(S, n), s # {} PROVE s \ {Chosen(s)} \in Upto(S, n - 1)
      <4>1. s \in SUBSET S /\ Cardinality(s) <= n
        BY DEF Upto
      <4>2. /\ Cardinality(s) \in Nat
            /\ Cardinality(s \ {Chosen(s)}) = Cardinality(s) - 1
        BY <1>0, <3>4, <4>1, Rest
      <4> QED BY <4>1, <4>2 DEF Upto
    <3>5. \A s \in Upto(S, n) : SumStep(g, r, s) = SumStep(h, r, s)
      <4> HIDE DEF h
      <4> QED BY <3>3, <3>4 DEF SumStep
    <3>6. h = [s \in Upto(S, n) |-> SumStep(h, r, s)]
      <4>1. \A s \in Upto(S, n) : h[s] = SumStep(h, r, s)
        BY <3>5
      <4>2. h = [s \in Upto(S, n) |-> h[s]]
        OBVIOUS
      <4> HIDE DEF h
      <4> QED BY <4>1, <4>2
    <3> HIDE DEF h
    <3> QED BY <3>6
  <2> QED BY <1>1, <2>1, <2>2
<1>2. Bad = {}
  <2> SUFFICES ASSUME Bad # {} PROVE FALSE
    OBVIOUS
  <2>1. PICK n \in Bad : \A m \in Bad : n <= m
    BY LeastNumber
  <2>2. n \in Nat /\ ~Good(n)
    OBVIOUS
  <2>3. n # 0 => n - 1 \in Nat /\ n - 1 \notin Bad
    <3> HIDE DEF Bad
    <3> QED BY <2>1, <2>2
  <2>4. n # 0 => Good(n - 1)
    BY <2>3
  <2> HIDE DEF Good
  <2> QED BY <1>1, <2>2, <2>4
<1>3. Cardinality(S) \in Nat /\ \A s \in SUBSET S : Cardinality(s) <= Cardinality(S)
  BY FS_Subset, FS_CardinalityType
<1>4. Upto(S, Cardinality(S)) = SUBSET S
  BY <1>3 DEF Upto
<1>5. Good(Cardinality(S))
  <2> HIDE DEF Good
  <2> QED BY <1>2, <1>3
<1> QED BY <1>4, <1>5 DEF SumFn

LEMMA SumIs ==
  ASSUME NEW S, IsFiniteSet(S), NEW r
  PROVE  \E g : SumFn(g, r, S) /\ Sum(r, S) = g[S]
<1> DEFINE f == CHOOSE g : SumFn(g, r, S)
<1>1. SumFn(f, r, S)
  BY SumExists
<1>2. Sum(r, S) = f[S]
  BY DEF Sum, MapThenSumSet, MapThenFoldSet, SumFn, SumStep, Chosen
<1> QED BY <1>1, <1>2

\* A sum whose terms are numbers, and how it changes with one of them.
LEMMA SumChanged ==
  ASSUME NEW S, IsFiniteSet(S), NEW r, NEW q, NEW k,
         \A x \in S : r[x] \in Int /\ q[x] \in Int /\ (x # k => q[x] = r[x])
  PROVE  /\ Sum(r, S) \in Int
         /\ Sum(q, S) = Sum(r, S) + (IF k \in S THEN q[k] - r[k] ELSE 0)
<1>1. PICK g : SumFn(g, r, S) /\ Sum(r, S) = g[S]
  BY SumIs
<1>2. PICK h : SumFn(h, q, S) /\ Sum(q, S) = h[S]
  BY SumIs
<1> DEFINE Holds(s) == g[s] \in Int /\ h[s] = g[s] + (IF k \in s THEN q[k] - r[k] ELSE 0)
           Bad == {n \in Nat : \E s \in SUBSET S : Cardinality(s) = n /\ ~Holds(s)}
<1>0. \A s \in SUBSET S : IsFiniteSet(s) /\ Cardinality(s) \in Nat
  BY FS_Subset, FS_CardinalityType
<1>3. ASSUME NEW s \in SUBSET S, s = {} \/ Holds(s \ {Chosen(s)}) PROVE Holds(s)
  <2>0. g[s] = SumStep(g, r, s) /\ h[s] = SumStep(h, q, s)
    BY <1>1, <1>2 DEF SumFn
  <2>1. CASE s = {}
    BY <2>0, <2>1 DEF SumStep
  <2>2. CASE s # {} /\ Holds(s \ {Chosen(s)})
    <3>1. Chosen(s) \in s
      BY <1>0, <2>2, Rest
    <3>2. PICK x \in s : x = Chosen(s)
      BY <3>1
    <3>3. g[s] = r[x] + g[s \ {x}] /\ h[s] = q[x] + h[s \ {x}]
      BY <2>0, <2>2, <3>2 DEF SumStep
    <3>4. /\ g[s \ {x}] \in Int
          /\ h[s \ {x}] = g[s \ {x}] + (IF k \in s \ {x} THEN q[k] - r[k] ELSE 0)
      BY <2>2, <3>2
    <3>5. r[x] \in Int /\ q[x] \in Int /\ (x # k => q[x] = r[x])
      OBVIOUS
    <3>6. CASE k = x
      <4>1. h[s \ {x}] = g[s \ {x}]
        BY <3>4, <3>6
      <4> QED BY <3>3, <3>4, <3>5, <3>6, <4>1
    <3>7. CASE k # x
      <4>1. k \in s \ {x} <=> k \in s
        BY <3>7
      <4>2. k \in s => r[k] \in Int /\ q[k] \in Int
        OBVIOUS
      <4> QED BY <3>3, <3>4, <3>5, <3>7, <4>1, <4>2
    <3> QED BY <3>6, <3>7
  <2> QED BY <1>3, <2>1, <2>2
<1>4. Bad = {}
  <2> SUFFICES ASSUME Bad # {} PROVE FALSE
    OBVIOUS
  <2>1. PICK n \in Bad : \A m \in Bad : n <= m
    BY LeastNumber
  <2>0. n \in Nat
    OBVIOUS
  <2>2. PICK s \in SUBSET S : Cardinality(s) = n /\ ~Holds(s)
    OBVIOUS
  <2>3. s # {} /\ ~Holds(s \ {Chosen(s)})
    <3> HIDE DEF Holds
    <3> QED BY <1>3, <2>2
  <2>4. Cardinality(s \ {Chosen(s)}) = n - 1 /\ n - 1 \in Nat /\ s \ {Chosen(s)} \in SUBSET S
    BY <1>0, <2>2, <2>3, Rest
  <2>5. n - 1 \in Bad
    <3> HIDE DEF Holds
    <3> QED BY <2>3, <2>4
  <2> HIDE DEF Bad
  <2> QED BY <2>0, <2>1, <2>4, <2>5
<1>5. Holds(S)
  <2> HIDE DEF Holds
  <2>1. Cardinality(S) \in Nat
    BY <1>0
  <2> QED BY <1>4, <2>1
<1> QED BY <1>1, <1>2, <1>5

LEMMA SumOfZeros ==
  ASSUME NEW S, IsFiniteSet(S), NEW r, \A x \in S : r[x] = 0
  PROVE  Sum(r, S) = 0
<1>1. PICK g : SumFn(g, r, S) /\ Sum(r, S) = g[S]
  BY SumIs
<1> DEFINE Bad == {n \in Nat : \E s \in SUBSET S : Cardinality(s) = n /\ g[s] # 0}
<1>0. \A s \in SUBSET S : IsFiniteSet(s) /\ Cardinality(s) \in Nat
  BY FS_Subset, FS_CardinalityType
<1>2. Bad = {}
  <2> SUFFICES ASSUME Bad # {} PROVE FALSE
    OBVIOUS
  <2>1. PICK n \in Bad : \A m \in Bad : n <= m
    BY LeastNumber
  <2>0. n \in Nat
    OBVIOUS
  <2>2. PICK s \in SUBSET S : Cardinality(s) = n /\ g[s] # 0
    OBVIOUS
  <2>3. g[s] = SumStep(g, r, s)
    BY <1>1 DEF SumFn
  <2>4. s # {}
    BY <2>2, <2>3 DEF SumStep
  <2>5. /\ Chosen(s) \in s
        /\ Cardinality(s \ {Chosen(s)}) = n - 1 /\ n - 1 \in Nat
        /\ s \ {Chosen(s)} \in SUBSET S
    BY <1>0, <2>2, <2>4, Rest
  <2>6. g[s \ {Chosen(s)}] # 0
    BY <2>2, <2>3, <2>4, <2>5 DEF SumStep
  <2>7. n - 1 \in Bad
    BY <2>5, <2>6
  <2> HIDE DEF Bad
  <2> QED BY <2>0, <2>1, <2>5, <2>7
<1>3. Cardinality(S) \in Nat
  BY <1>0
<1> QED BY <1>1, <1>2, <1>3

-----------------------------------------------------------------------------
(* The runs of the two programs *)

\* Each run adds one rule at most, and has added none before it has its device.
RulesCounted ==
  \A l \in Lan \cup {NoLan} : rules[l] <= runs /\ (main = "tun" => rules[l] < runs)

\* The first with a socket is a worker with a socket.
LEMMA FirstBound ==
  ASSUME NEW B \in SUBSET Worker, B # {}
  PROVE  (CHOOSE v \in B : \A u \in B : v <= u) \in B
<1>1. B \in SUBSET Nat
  BY ProcAssumption DEF Worker
<1>2. \E v \in B : \A u \in B : v <= u
  BY <1>1, LeastNumber
<1> QED BY <1>2

LEMMA ProcTypeInit == ProcInit => ProcTypeOK /\ RulesCounted
<1> SUFFICES ASSUME ProcInit PROVE ProcTypeOK /\ RulesCounted
  OBVIOUS
<1>1. 0 \in Worker /\ 0 \in 0 .. MaxRuns /\ 0 \in 0 .. MaxMoves
  BY ProcAssumption DEF Worker
<1>2. ProcTypeOK
  BY <1>1 DEF ProcInit, ProcTypeOK
<1>3. RulesCounted
  BY DEF ProcInit, RulesCounted
<1> QED BY <1>2, <1>3

\* The rules when main leaves "tun" and when it ends.
LEMMA RuleTypes ==
  ASSUME ProcTypeOK, RulesCounted
  PROVE  /\ main = "tun" => \A r \in {rules, RuleAdded(rules)} :
              /\ r \in [Lan \cup {NoLan} -> 0 .. MaxRuns]
              /\ \A l \in Lan \cup {NoLan} : r[l] <= runs
         /\ RuleDeleted(rules) \in [Lan \cup {NoLan} -> 0 .. MaxRuns]
         /\ \A l \in Lan \cup {NoLan} : RuleDeleted(rules)[l] <= runs
<1>1. /\ runs \in Nat /\ MaxRuns \in Nat /\ runs <= MaxRuns
      /\ \A l \in Lan \cup {NoLan} : rules[l] \in Nat /\ rules[l] <= MaxRuns
  BY ProcAssumption DEF ProcTypeOK
<1>2. ASSUME main = "tun"
      PROVE  \A l \in Lan \cup {NoLan} :
               /\ rules[l] + 1 \in 0 .. MaxRuns /\ rules[l] + 1 <= runs
               /\ rules[l] <= runs /\ 1 <= runs
  BY <1>1, <1>2 DEF RulesCounted
<1>3. ASSUME main = "tun"
      PROVE  \A r \in {rules, RuleAdded(rules)} :
              /\ r \in [Lan \cup {NoLan} -> 0 .. MaxRuns]
              /\ \A l \in Lan \cup {NoLan} : r[l] <= runs
  <2>1. CASE Server
    <3>1. RuleAdded(rules) = [rules EXCEPT ![NoLan] = 1]
      BY <2>1 DEF RuleAdded
    <3>2. 1 \in 0 .. MaxRuns
      BY <1>1, <1>2, <1>3
    <3> QED BY <1>2, <1>3, <3>1, <3>2 DEF ProcTypeOK
  <2>2. CASE ~Server /\ lan \in Lan
    <3>1. RuleAdded(rules) = [rules EXCEPT ![lan] = @ + 1]
      BY <2>2 DEF RuleAdded
    <3> QED BY <1>2, <1>3, <2>2, <3>1 DEF ProcTypeOK
  <2>3. CASE ~Server /\ lan \notin Lan
    <3>1. RuleAdded(rules) = rules
      BY <2>3 DEF RuleAdded
    <3> QED BY <1>2, <1>3, <3>1 DEF ProcTypeOK
  <2> QED BY <2>1, <2>2, <2>3
<1>4. /\ RuleDeleted(rules) \in [Lan \cup {NoLan} -> 0 .. MaxRuns]
      /\ \A l \in Lan \cup {NoLan} : RuleDeleted(rules)[l] <= runs
  <2>1. CASE ~Server /\ lan \in Lan /\ rules[lan] > 0
    <3>1. RuleDeleted(rules) = [rules EXCEPT ![lan] = @ - 1]
      BY <2>1 DEF RuleDeleted
    <3>2. rules[lan] - 1 \in 0 .. MaxRuns /\ rules[lan] - 1 <= runs
      BY <1>1, <2>1 DEF RulesCounted
    <3> QED BY <2>1, <3>1, <3>2 DEF ProcTypeOK, RulesCounted
  <2>2. CASE ~(~Server /\ lan \in Lan /\ rules[lan] > 0)
    BY <2>2 DEF RuleDeleted, ProcTypeOK, RulesCounted
  <2> QED BY <2>1, <2>2
<1> QED BY <1>3, <1>4

LEMMA ProcTypeNext ==
  ProcTypeOK /\ RulesCounted /\ [ProcNext]_allProcVars => (ProcTypeOK /\ RulesCounted)'
<1> SUFFICES ASSUME ProcTypeOK, RulesCounted, [ProcNext]_allProcVars
             PROVE  ProcTypeOK' /\ RulesCounted'
  OBVIOUS
<1> USE DEF ProcTypeOK
<1>0. runs \in Nat /\ \A l \in Lan \cup {NoLan} : rules[l] \in Nat
  BY ProcAssumption
<1>1. ASSUME NEW p \in {"server", "client"}, Begin(p) PROVE ProcTypeOK' /\ RulesCounted'
  <2>1. runs + 1 \in 0 .. MaxRuns
    BY <1>0, <1>1, ProcAssumption DEF Begin
  <2>2. \A l \in Lan \cup {NoLan} : rules[l] < runs + 1 /\ rules[l] <= runs + 1
    BY <1>0 DEF RulesCounted
  <2> QED BY <1>1, <2>1, <2>2 DEF Begin, ruleVars, RulesCounted
<1>2. CASE TunCreated \/ TunMissing
  <2>1. /\ main = "tun" /\ main' \in {"loop", "socks"}
        /\ rules' \in {rules, RuleAdded(rules)}
        /\ tun' \in {"open", "stdin"}
        /\ thread' \in [Worker -> {"none", "setup", "recv", "closing", "done"}]
        /\ UNCHANGED <<prog, exit_flag, sock, live, worker, lan, moves, untidy, runs, misses>>
    BY <1>2 DEF TunCreated, TunMissing, AfterTun
  <2>2. /\ rules' \in [Lan \cup {NoLan} -> 0 .. MaxRuns]
        /\ \A l \in Lan \cup {NoLan} : rules'[l] <= runs
    BY <2>1, RuleTypes
  <2> QED BY <2>1, <2>2 DEF RulesCounted
<1>3. CASE TunRefused \/ GiveUp \/ Killed
  <2>1. /\ main' = "out" /\ live' = {} /\ exit_flag' = FALSE
        /\ thread' = [w \in Worker |-> "none"]
        /\ UNCHANGED <<prog, tun, sock, worker, rules, lan, moves, runs, misses>>
        /\ untidy' \in {untidy, untidy + 1}
    BY <1>3 DEF TunRefused, GiveUp, Killed, Ended, ruleVars
  <2>2. untidy' \in Nat
    BY <2>1
  <2>3. RulesCounted'
    BY <2>1 DEF RulesCounted
  <2>4. ProcTypeOK'
    BY <2>1, <2>2
  <2> QED BY <2>3, <2>4
<1>4. CASE ProcExits
  <2>1. /\ rules' \in [Lan \cup {NoLan} -> 0 .. MaxRuns]
        /\ \A l \in Lan \cup {NoLan} : rules'[l] <= runs
    BY <1>4, RuleTypes DEF ProcExits
  <2> QED BY <1>4, <2>1 DEF ProcExits, Ended, RulesCounted
<1>5. ASSUME NEW w \in Worker, ThreadSetup(w) \/ OpenSocket(w)
      PROVE  ProcTypeOK' /\ RulesCounted'
  BY <1>5 DEF ThreadSetup, OpenSocket, ruleVars, RulesCounted
<1>6. ASSUME NEW w \in Worker, ThreadCloses(w) \/ ThreadDone(w)
      PROVE  ProcTypeOK' /\ RulesCounted'
  BY <1>6 DEF ThreadCloses, ThreadDone, ruleVars, RulesCounted
<1>7. ASSUME NEW w \in Worker, ChooseWorker(w) PROVE ProcTypeOK' /\ RulesCounted'
  <2>1. NextWorker(w) \in Worker
    <3> DEFINE B == {v \in Worker : sock[v] = "fd"}
    <3>1. B # {} => (CHOOSE v \in B : \A u \in B : v <= u) \in B
      BY FirstBound
    <3> QED BY <3>1 DEF NextWorker
  <2> QED BY <1>7, <2>1 DEF ChooseWorker, ruleVars, RulesCounted
<1>8. CASE SocketsReady \/ EnterRead \/ LeaveLoop \/ ReadReturns \/ BlockedReadReturns
           \/ TunReadFails \/ CloseAll
  BY <1>8 DEF SocketsReady, EnterRead, LeaveLoop, ReadReturns, BlockedReadReturns,
              TunReadFails, CloseAll, ruleVars, RulesCounted
<1>9. CASE SendMmsg
  <2>1. [prog |-> prog, sock |-> sock[worker], exiting |-> exit_flag]
          \in [prog : {"server", "client"}, sock : {"fd", "zero", "minus"}, exiting : BOOLEAN]
    OBVIOUS
  <2> QED BY <1>9, <2>1 DEF SendMmsg, ruleVars, RulesCounted
<1>10. CASE Sigint
  BY <1>10 DEF Sigint, ruleVars, RulesCounted
<1>11. ASSUME NEW l \in Lan \cup {NoLan}, LanMoves(l) PROVE ProcTypeOK' /\ RulesCounted'
  <2>1. moves + 1 \in 0 .. MaxMoves
    BY <1>11, ProcAssumption DEF LanMoves
  <2> QED BY <1>11, <2>1 DEF LanMoves, procVars, RulesCounted
<1>12. CASE UNCHANGED allProcVars
  BY <1>12 DEF allProcVars, procVars, ruleVars, RulesCounted
<1> QED BY <1>1, <1>2, <1>3, <1>4, <1>5, <1>6, <1>7, <1>8, <1>9, <1>10, <1>11, <1>12
        DEF ProcNext, MainStep

\* Every variable of the two programs' runs keeps its type: the worker a batch
\* is sent with is a worker, whichever sockets could not be opened.
THEOREM ProcTypeCorrect == ProcSpec => []ProcTypeOK
<1>1. ProcTypeOK /\ RulesCounted => ProcTypeOK
  OBVIOUS
<1> QED BY <1>1, ProcTypeInit, ProcTypeNext, PTL DEF ProcSpec

-----------------------------------------------------------------------------
(* The socket a batch is sent with *)

InLoop == main \in {"loop", "wait", "fec"}

\* The sockets follow the threads: no socket is given up before SIGINT, a
\* server's thread that is not ready yet leaves 0, and the client's main does
\* not begin its loop without one.
SocketsInv ==
  /\ main \in {"out", "tun"} => live = {} /\ \A w \in Worker : thread[w] = "none"
  /\ main = "tun" => \A w \in Worker : sock[w] = "zero"
  /\ main = "socks" => ~Server
  /\ \A w \in Worker : thread[w] = "setup" => Server /\ sock[w] = "zero"
  /\ \A w \in Worker : thread[w] = "closing" => exit_flag
  /\ ~exit_flag /\ (main = "socks" \/ InLoop) =>
       \A w \in Worker : (sock[w] = "fd" => w \in live) /\ (Server => sock[w] # "minus")
  /\ ~exit_flag /\ InLoop /\ ~Server =>
       (\A w \in Worker : sock[w] # "zero") /\ \E w \in Worker : sock[w] = "fd"
  /\ ~exit_flag /\ main = "fec" => sock[worker] = "fd" \/ (Server /\ sock[worker] = "zero")

MissInv == SocketsInv /\ FecMissExplained

LEMMA MissInit == ProcInit => MissInv
BY DEF ProcInit, MissInv, SocketsInv, InLoop, FecMissExplained

LEMMA MissNext ==
  ProcTypeOK /\ MissInv /\ [ProcNext]_allProcVars => MissInv'
<1> SUFFICES ASSUME ProcTypeOK, MissInv, [ProcNext]_allProcVars PROVE MissInv'
  OBVIOUS
<1> USE DEF ProcTypeOK, MissInv
<1>1. ASSUME UNCHANGED misses, SocketsInv' PROVE MissInv'
  BY <1>1 DEF FecMissExplained
<1>2. ASSUME NEW p \in {"server", "client"}, Begin(p) PROVE MissInv'
  BY <1>1, <1>2 DEF Begin, SocketsInv, InLoop, Server
<1>3. CASE TunCreated \/ TunMissing
  <2>1. CASE Server
    <3>1. /\ main = "tun" /\ main' = "loop" /\ thread' = [w \in Worker |-> "setup"]
          /\ UNCHANGED <<prog, exit_flag, sock, live, worker, misses>>
      BY <1>3, <2>1 DEF TunCreated, TunMissing, AfterTun
    <3> QED BY <1>1, <2>1, <3>1 DEF SocketsInv, InLoop, Server
  <2>2. CASE ~Server
    <3>1. /\ main = "tun" /\ main' = "socks"
          /\ UNCHANGED <<prog, exit_flag, sock, live, thread, worker, misses>>
      BY <1>3, <2>2 DEF TunCreated, TunMissing, AfterTun
    <3> QED BY <1>1, <2>2, <3>1 DEF SocketsInv, InLoop, Server
  <2> QED BY <2>1, <2>2
<1>4. CASE TunRefused \/ GiveUp \/ ProcExits \/ Killed
  <2>1. /\ main' = "out" /\ live' = {} /\ thread' = [w \in Worker |-> "none"]
        /\ UNCHANGED misses
    BY <1>4 DEF TunRefused, GiveUp, ProcExits, Killed, Ended
  <2> QED BY <1>1, <2>1 DEF SocketsInv, InLoop
<1>5. ASSUME NEW w \in Worker, ThreadSetup(w) PROVE MissInv'
  <2>1. /\ thread[w] = "setup"
        /\ \/ /\ sock' = [sock EXCEPT ![w] = "fd"]
              /\ live' = live \cup {w}
              /\ thread' = [thread EXCEPT ![w] = "recv"]
           \/ /\ thread' = [thread EXCEPT ![w] = "done"]
              /\ UNCHANGED <<sock, live>>
        /\ UNCHANGED <<prog, main, exit_flag, worker, misses>>
    BY <1>5 DEF ThreadSetup
  <2>2. main \notin {"out", "tun"} /\ Server
    BY <2>1 DEF SocketsInv
  <2> QED BY <1>1, <2>1, <2>2 DEF SocketsInv, InLoop, Server
<1>6. ASSUME NEW w \in Worker, OpenSocket(w) PROVE MissInv'
  <2>1. main = "socks" /\ ~Server
    BY <1>6 DEF OpenSocket, SocketsInv
  <2> QED BY <1>1, <1>6, <2>1 DEF OpenSocket, SocketsInv, InLoop, Server
<1>7. CASE SocketsReady
  BY <1>1, <1>7 DEF SocketsReady, SocketsInv, InLoop, Server
<1>8. CASE EnterRead \/ LeaveLoop \/ ReadReturns \/ BlockedReadReturns \/ TunReadFails
  BY <1>1, <1>8 DEF EnterRead, LeaveLoop, ReadReturns, BlockedReadReturns, TunReadFails,
                    SocketsInv, InLoop, Server
<1>9. CASE CloseAll
  BY <1>1, <1>9 DEF CloseAll, SocketsInv, InLoop, Server
<1>10. ASSUME NEW w \in Worker, ChooseWorker(w) PROVE MissInv'
  <2> DEFINE B == {v \in Worker : sock[v] = "fd"}
  <2>1. B # {} => (CHOOSE v \in B : \A u \in B : v <= u) \in B
    BY FirstBound
  <2>2. NextWorker(w) = IF sock[w] = "minus" /\ B # {}
                        THEN CHOOSE v \in B : \A u \in B : v <= u ELSE w
    BY DEF NextWorker
  <2>3. main = "wait" /\ main' = "fec" /\ worker' = NextWorker(w)
        /\ UNCHANGED <<prog, exit_flag, sock, live, thread, misses>>
    BY <1>10 DEF ChooseWorker
  <2>4. ~exit_flag => sock[NextWorker(w)] = "fd" \/ (Server /\ sock[NextWorker(w)] = "zero")
    BY <2>1, <2>2, <2>3 DEF SocketsInv, InLoop
  <2> QED BY <1>1, <2>3, <2>4 DEF SocketsInv, InLoop, Server
<1>11. CASE SendMmsg
  <2>1. /\ main = "fec" /\ main' = "loop"
        /\ UNCHANGED <<prog, exit_flag, sock, live, thread, worker>>
        /\ misses' = IF sock[worker] = "fd" /\ worker \in live THEN misses
                     ELSE misses \cup {[prog |-> prog, sock |-> sock[worker], exiting |-> exit_flag]}
    BY <1>11 DEF SendMmsg
  <2>2. SocketsInv'
    BY <2>1 DEF SocketsInv, InLoop, Server
  <2>3. \/ sock[worker] = "fd" /\ worker \in live
        \/ exit_flag
        \/ prog = "server" /\ sock[worker] = "zero"
    BY <2>1 DEF SocketsInv, InLoop, Server
  <2>4. FecMissExplained'
    BY <2>1, <2>3 DEF FecMissExplained
  <2> QED BY <2>2, <2>4
<1>12. CASE Sigint
  BY <1>1, <1>12 DEF Sigint, SocketsInv, InLoop, Server
<1>13. ASSUME NEW w \in Worker, ThreadCloses(w) PROVE MissInv'
  <2>1. main \notin {"out", "tun"}
    BY <1>13 DEF ThreadCloses, SocketsInv
  <2> QED BY <1>1, <1>13, <2>1 DEF ThreadCloses, SocketsInv, InLoop, Server
<1>14. ASSUME NEW w \in Worker, ThreadDone(w) PROVE MissInv'
  <2>1. main \notin {"out", "tun"} /\ exit_flag
    BY <1>14 DEF ThreadDone, SocketsInv
  <2> QED BY <1>1, <1>14, <2>1 DEF ThreadDone, SocketsInv, InLoop, Server
<1>15. CASE UNCHANGED <<procVars, misses>>
  BY <1>1, <1>15 DEF procVars, SocketsInv, InLoop, Server
<1>16. ASSUME NEW l \in Lan \cup {NoLan}, LanMoves(l) PROVE MissInv'
  BY <1>15, <1>16 DEF LanMoves
<1>17. CASE UNCHANGED allProcVars
  BY <1>15, <1>17 DEF allProcVars
<1> QED BY <1>2, <1>3, <1>4, <1>5, <1>6, <1>7, <1>8, <1>9, <1>10, <1>11, <1>12, <1>13, <1>14,
           <1>16, <1>17 DEF ProcNext, MainStep

\* A batch of FEC shards goes to no open socket only while the program ends, or
\* on the server when the worker's thread has not made its socket: for every
\* number of workers, whichever sockets fail and however the threads and main
\* interleave.
THEOREM ProcMissExplained == ProcSpec => []FecMissExplained
<1>1. MissInv => FecMissExplained
  BY DEF MissInv
<1>2. ProcTypeOK /\ RulesCounted /\ MissInv /\ [ProcNext]_allProcVars
        => (ProcTypeOK /\ RulesCounted /\ MissInv)'
  BY ProcTypeNext, MissNext
<1> QED BY <1>1, <1>2, ProcTypeInit, MissInit, PTL DEF ProcSpec

-----------------------------------------------------------------------------
(* The rules that are left *)

\* The rule main will delete at the end of this run, if br1 stays where it is.
Deletable ==
  main \notin {"out", "tun"} /\ ~Server /\ lan \in Lan /\ rules[lan] > 0

\* Each early end and each move of br1 leaves one rule at most, and there is no
\* other but the one that can still be deleted.
RulesInv ==
  /\ rules[NoLan] <= 1
  /\ Sum(rules, Lan) <= untidy + (IF Deletable THEN 1 ELSE 0)

LEMMA RulesInvInit == IsFiniteSet(Lan) /\ ProcInit => RulesInv
<1> SUFFICES ASSUME IsFiniteSet(Lan), ProcInit PROVE RulesInv
  OBVIOUS
<1>1. \A l \in Lan \cup {NoLan} : rules[l] = 0
  BY DEF ProcInit
<1>2. Sum(rules, Lan) = 0
  BY <1>1, SumOfZeros
<1>3. untidy = 0 /\ ~Deletable
  BY DEF ProcInit, Deletable
<1> QED BY <1>1, <1>2, <1>3 DEF RulesInv

LEMMA RulesInvNext ==
  ASSUME IsFiniteSet(Lan), ProcTypeOK, RulesInv, [ProcNext]_allProcVars
  PROVE  RulesInv'
<1> USE DEF ProcTypeOK
<1>1. /\ untidy \in Nat /\ \A l \in Lan \cup {NoLan} : rules[l] \in Nat
      /\ Sum(rules, Lan) \in Int
  <2>1. \A l \in Lan \cup {NoLan} : rules[l] \in Nat
    BY ProcAssumption
  <2>2. Sum(rules, Lan) \in Int
    BY <2>1, SumChanged
  <2> QED BY <2>1, <2>2
<1>2. ASSUME UNCHANGED <<rules, untidy>>, Deletable => Deletable' PROVE RulesInv'
  BY <1>1, <1>2 DEF RulesInv
<1>3. ASSUME UNCHANGED rules, untidy' = untidy + 1 PROVE RulesInv'
  BY <1>1, <1>3 DEF RulesInv
<1>4. ASSUME NEW p \in {"server", "client"}, Begin(p) PROVE RulesInv'
  BY <1>2, <1>4 DEF Begin, ruleVars, Deletable
<1>5. CASE TunCreated \/ TunMissing
  <2>1. /\ main = "tun" /\ main' \in {"loop", "socks"}
        /\ UNCHANGED <<prog, lan, untidy>>
        /\ rules' \in {rules, RuleAdded(rules)}
    BY <1>5 DEF TunCreated, TunMissing, AfterTun
  <2>2. ~Deletable
    BY <2>1 DEF Deletable
  <2>3. CASE rules' = rules
    BY <1>2, <2>1, <2>2, <2>3
  <2>4. CASE Server /\ rules' = RuleAdded(rules)
    <3>1. rules' = [rules EXCEPT ![NoLan] = 1]
      BY <2>4 DEF RuleAdded
    <3>2. rules'[NoLan] = 1
      BY <3>1
    <3>3. \A l \in Lan : rules'[l] = rules[l]
      BY <3>1, ProcAssumption
    <3>4. Sum(rules', Lan) = Sum(rules, Lan)
      <4>1. \A l \in Lan : rules[l] \in Int /\ rules'[l] \in Int /\ (l # NoLan => rules'[l] = rules[l])
        BY <1>1, <3>3
      <4> QED BY <1>1, <4>1, SumChanged, ProcAssumption
    <3> QED BY <1>1, <2>1, <2>2, <3>2, <3>4 DEF RulesInv
  <2>5. CASE ~Server /\ lan \in Lan /\ rules' = RuleAdded(rules)
    <3>1. rules' = [rules EXCEPT ![lan] = @ + 1]
      BY <2>5 DEF RuleAdded
    <3>2. /\ rules'[lan] = rules[lan] + 1
          /\ \A l \in Lan \cup {NoLan} : l # lan => rules'[l] = rules[l]
      BY <2>5, <3>1
    <3>3. rules'[NoLan] = rules[NoLan]
      BY <2>5, <3>2, ProcAssumption
    <3>4. Sum(rules', Lan) = Sum(rules, Lan) + 1
      <4>1. \A l \in Lan : rules[l] \in Int /\ rules'[l] \in Int /\ (l # lan => rules'[l] = rules[l])
        BY <1>1, <2>5, <3>2
      <4>2. Sum(rules', Lan) = Sum(rules, Lan) + (rules'[lan] - rules[lan])
        <5>1. lan \in Lan
          BY <2>5
        <5> QED BY <4>1, <5>1, SumChanged
      <4>3. rules[lan] \in Nat
        BY <1>1, <2>5
      <4> QED BY <1>1, <3>2, <4>2, <4>3
    <3>5. Deletable'
      <4>1. rules[lan] \in Nat
        BY <1>1, <2>5
      <4>2. rules'[lan] > 0 /\ lan' = lan
        BY <2>1, <3>2, <4>1
      <4> QED BY <2>1, <2>5, <4>2 DEF Deletable, Server
    <3> QED BY <1>1, <2>1, <2>2, <3>3, <3>4, <3>5 DEF RulesInv
  <2>6. CASE ~Server /\ lan \notin Lan
    <3>1. RuleAdded(rules) = rules
      BY <2>6 DEF RuleAdded
    <3> QED BY <2>1, <2>3, <3>1
  <2> QED BY <2>1, <2>3, <2>4, <2>5, <2>6
<1>6. CASE TunRefused
  BY <1>2, <1>6 DEF TunRefused, ruleVars, Deletable
<1>7. CASE GiveUp \/ Killed
  BY <1>3, <1>7 DEF GiveUp, Killed
<1>8. CASE ProcExits
  <2>1. /\ main = "rules" /\ main' = "out" /\ UNCHANGED <<prog, lan, untidy>>
        /\ rules' = RuleDeleted(rules)
    BY <1>8 DEF ProcExits, Ended
  <2>2. CASE Deletable
    <3>1. rules' = [rules EXCEPT ![lan] = @ - 1]
      BY <2>1, <2>2 DEF RuleDeleted, Deletable
    <3>2. /\ lan \in Lan /\ rules'[lan] = rules[lan] - 1
          /\ \A l \in Lan \cup {NoLan} : l # lan => rules'[l] = rules[l]
      BY <2>2, <3>1 DEF Deletable
    <3>3. rules'[NoLan] = rules[NoLan]
      BY <3>2, ProcAssumption
    <3>4. Sum(rules', Lan) = Sum(rules, Lan) - 1
      <4>1. \A l \in Lan : rules[l] \in Int /\ rules'[l] \in Int /\ (l # lan => rules'[l] = rules[l])
        BY <1>1, <3>2
      <4>2. Sum(rules', Lan) = Sum(rules, Lan) + (rules'[lan] - rules[lan])
        <5>1. lan \in Lan
          BY <3>2
        <5> QED BY <4>1, <5>1, SumChanged
      <4>3. rules[lan] \in Nat
        BY <1>1, <3>2
      <4> QED BY <1>1, <3>2, <4>2, <4>3
    <3> QED BY <1>1, <2>1, <2>2, <3>3, <3>4 DEF RulesInv
  <2>3. CASE ~Deletable
    <3>1. rules' = rules
      BY <2>1, <2>3 DEF RuleDeleted, Deletable
    <3> QED BY <1>2, <2>1, <2>3, <3>1
  <2> QED BY <2>2, <2>3
<1>9. ASSUME NEW w \in Worker, \/ ThreadSetup(w) \/ ChooseWorker(w)
                               \/ ThreadCloses(w) \/ ThreadDone(w) \/ OpenSocket(w)
      PROVE  RulesInv'
  <2>1. UNCHANGED <<prog, ruleVars>> /\ (main' = main \/ (main = "wait" /\ main' = "fec"))
    BY <1>9 DEF ThreadSetup, ChooseWorker, ThreadCloses, ThreadDone, OpenSocket
  <2> QED BY <1>2, <2>1 DEF ruleVars, Deletable, Server
<1>10. CASE \/ SocketsReady \/ EnterRead \/ LeaveLoop \/ ReadReturns \/ BlockedReadReturns
            \/ TunReadFails \/ SendMmsg \/ CloseAll \/ Sigint
  <2>1. UNCHANGED <<prog, ruleVars>> /\ (main' = main \/ main' \notin {"out", "tun"})
    BY <1>10 DEF SocketsReady, EnterRead, LeaveLoop, ReadReturns, BlockedReadReturns,
                 TunReadFails, SendMmsg, CloseAll, Sigint
  <2> QED BY <1>2, <2>1 DEF ruleVars, Deletable, Server
<1>11. ASSUME NEW l \in Lan \cup {NoLan}, LanMoves(l) PROVE RulesInv'
  BY <1>3, <1>11 DEF LanMoves
<1>12. CASE UNCHANGED allProcVars
  BY <1>2, <1>12 DEF allProcVars, procVars, ruleVars, Deletable, Server
<1> QED BY <1>4, <1>5, <1>6, <1>7, <1>8, <1>9, <1>10, <1>11, <1>12 DEF ProcNext, MainStep

\* The NAT rules do not pile up: the server has one at most, and the client one
\* for the run at hand and one for each run that ended early or change of br1's
\* address; for every finite set of addresses and every number of runs.
THEOREM ProcRulesExplained ==
  ASSUME IsFiniteSet(Lan)
  PROVE  ProcSpec => []RulesExplained
<1>1. ProcTypeOK /\ RulesInv => RulesExplained
  <2> SUFFICES ASSUME ProcTypeOK, RulesInv PROVE RulesExplained
    OBVIOUS
  <2>1. untidy \in Nat /\ Sum(rules, Lan) \in Int
    <3>1. \A l \in Lan : rules[l] \in Int
      BY ProcAssumption DEF ProcTypeOK
    <3> QED BY <3>1, SumChanged DEF ProcTypeOK
  <2>2. Sum(rules, Lan) <= untidy + (IF main \in {"out", "tun"} THEN 0 ELSE 1)
    BY <2>1 DEF RulesInv, Deletable
  <2>3. rules[NoLan] <= 1
    BY DEF RulesInv
  <2> QED BY <2>2, <2>3 DEF RulesExplained, Sum, MapThenSumSet, MapThenFoldSet
<1>2. ProcTypeOK /\ RulesCounted /\ RulesInv /\ [ProcNext]_allProcVars
        => (ProcTypeOK /\ RulesCounted /\ RulesInv)'
  BY ProcTypeNext, RulesInvNext
<1>3. ProcInit => ProcTypeOK /\ RulesCounted /\ RulesInv
  BY ProcTypeInit, RulesInvInit
<1> QED BY <1>1, <1>2, <1>3, PTL DEF ProcSpec

-----------------------------------------------------------------------------
(* The three components together *)

ProcessStates == {"up", "exit 0", "killed"}

\* What the handler holds beside the walks: two locks and the state of the
\* process; and the frame in hand is none, a wild one, or a frame of the stack.
HandlerTyped ==
  /\ logBy \in Thread \cup {NoThread} /\ outBy \in Thread \cup {NoThread}
  /\ process \in ProcessStates
  /\ \A t \in Thread : fp[t] <= Len(stack[t]) /\ fp[t] >= Wild

LEMMA HandlerInit == CrashInit => HandlerTyped
<1> SUFFICES ASSUME CrashInit PROVE HandlerTyped
  OBVIOUS
<1>1. CrashTyped
  BY CrashInitInv
<1>2. ASSUME NEW t \in Thread PROVE fp[t] <= Len(stack[t]) /\ fp[t] >= Wild
  <2>1. Len(stack[t]) \in Nat /\ fp[t] = 0
    BY <1>1, StackOf DEF CrashInit, NULL
  <2> QED BY <2>1 DEF Wild
<1>3. "up" \in ProcessStates
  BY Zenon DEF ProcessStates
<1> QED BY <1>2, <1>3 DEF HandlerTyped, CrashInit

\* (The names of the states are for Zenon: Z3 is given no string with a space.)
LEMMA ProcessNext ==
  ASSUME process \in ProcessStates, NEW t \in Thread, CrashStep(t)
  PROVE  process' \in ProcessStates
<1>1. CASE Logs(t) \/ Prints(t) \/ Returns(t) \/ Fault(t)
  BY <1>1 DEF Logs, Prints, Returns, Fault
<1>2. CASE Report(t) \/ StopWalk(t) \/ EndTrace(t)
  BY <1>2 DEF Report, StopWalk, EndTrace
<1>3. CASE Walk(t)
  <2>1. process' = process \/ process' = "killed"
    BY <1>3 DEF Walk
  <2> QED BY <2>1, Zenon DEF ProcessStates
<1>4. CASE ExitProcess(t)
  BY <1>4, Zenon DEF ExitProcess, ProcessStates
<1> QED BY <1>1, <1>2, <1>3, <1>4 DEF CrashStep

\* Nobody but its holder has a lock.
LEMMA LocksNext ==
  ASSUME HandlerTyped, NEW t \in Thread, CrashStep(t)
  PROVE  logBy' \in Thread \cup {NoThread} /\ outBy' \in Thread \cup {NoThread}
<1>1. CASE Logs(t) \/ Prints(t) \/ Returns(t) \/ Fault(t)
  <2>1. \/ logBy' = logBy \/ logBy' = t \/ logBy' = NoThread
    BY <1>1 DEF Logs, Prints, Returns, Fault, Locks
  <2>2. \/ outBy' = outBy \/ outBy' = t \/ outBy' = NoThread
    BY <1>1 DEF Logs, Prints, Returns, Fault, Locks
  <2> QED BY <2>1, <2>2, Zenon DEF HandlerTyped
<1>2. CASE Report(t) \/ StopWalk(t) \/ EndTrace(t)
  BY <1>2 DEF HandlerTyped, Report, StopWalk, EndTrace, Locks
<1>3. CASE Walk(t)
  BY <1>3 DEF HandlerTyped, Walk, Locks
<1>4. CASE ExitProcess(t)
  <2>1. UNCHANGED Locks
    BY <1>4, Zenon DEF ExitProcess
  <2> QED BY <2>1 DEF HandlerTyped, Locks
<1> QED BY <1>1, <1>2, <1>3, <1>4 DEF CrashStep

LEMMA HandlerNext ==
  CrashTyped /\ HandlerTyped /\ [CrashNext]_crashVars => HandlerTyped'
<1> SUFFICES ASSUME CrashTyped, HandlerTyped, [CrashNext]_crashVars PROVE HandlerTyped'
  OBVIOUS
<1>1. CASE UNCHANGED crashVars
  BY <1>1 DEF crashVars, HandlerTyped
<1>2. CASE CrashNext
  <2>1. PICK t \in Thread : CrashStep(t)
    BY <1>2 DEF CrashNext
  <2>2. /\ logBy' \in Thread \cup {NoThread} /\ outBy' \in Thread \cup {NoThread}
        /\ process' \in ProcessStates
    BY <2>1, LocksNext, ProcessNext DEF HandlerTyped
  <2>e. ExitProcess(t) => UNCHANGED <<stack, fp>>
    BY Zenon DEF ExitProcess, Walks
  <2>3. stack' = stack
    BY <2>1, <2>e DEF CrashStep, Logs, Prints, Returns, Fault, Report, StopWalk,
                      Walk, EndTrace, Walks
  <2>4. Len(stack[t]) \in Nat /\ Len(stack[t]) > 0
    BY StackOf
  <2>5. fp'[t] = fp[t] \/ fp'[t] \in {1, Wild} \/ (fp'[t] \in Int /\ Wild <= fp'[t] /\ fp'[t] <= Len(stack[t]))
    <3>1. CASE Report(t)
      BY <3>1 DEF Report, CrashTyped
    <3>2. CASE Walk(t)
      <4>1. CASE UNCHANGED fp
        BY <4>1
      <4>2. CASE /\ fp[t] # Wild
                 /\ fp' = [fp EXCEPT ![t] = Up(stack[t], fp[t]).fp]
        <5>1. fp'[t] = Up(stack[t], fp[t]).fp
          BY <4>2 DEF CrashTyped
        <5>2. fp[t] \in Int /\ fp[t] >= 0
          <6>1. fp[t] \in Int /\ fp[t] >= Wild /\ fp[t] # Wild
            BY <4>2 DEF CrashTyped, HandlerTyped
          <6> QED BY <6>1 DEF Wild
        <5>3. \/ fp'[t] = Wild \/ fp'[t] = NULL
              \/ fp[t] < Len(stack[t]) /\ fp'[t] = fp[t] + 1
          BY <5>1 DEF Up
        <5> QED BY <5>2, <5>3, <2>4 DEF Wild, NULL
      <4> QED BY <3>2, <4>1, <4>2 DEF Walk
    <3>3. CASE UNCHANGED fp
      BY <3>3
    <3> QED BY <2>1, <2>e, <3>1, <3>2, <3>3
            DEF CrashStep, Logs, Prints, Returns, Fault, StopWalk, EndTrace, Walks
  <2>6. ASSUME NEW s \in Thread PROVE fp'[s] <= Len(stack'[s]) /\ fp'[s] >= Wild
    <3>1. CASE s = t
      BY <3>1, <2>3, <2>4, <2>5 DEF HandlerTyped, Wild
    <3>2. CASE s # t
      <4>1. fp'[s] = fp[s]
        BY <3>2, <2>1, OthersStay
      <4> QED BY <4>1, <2>3 DEF HandlerTyped
    <3> QED BY <3>1, <3>2
  <2> QED BY <2>2, <2>6 DEF HandlerTyped
<1> QED BY <1>1, <1>2

LEMMA HandlerTypes == CrashTyped /\ WalkInv /\ HandlerTyped => CrashTypeOK
<1> SUFFICES ASSUME CrashTyped, WalkInv, HandlerTyped PROVE CrashTypeOK
  OBVIOUS
<1>1. ASSUME NEW t \in Thread
      PROVE  /\ fp[t] \in Wild .. Len(stack[t])
             /\ ret[t] \in Functions \cup {NoFn}
             /\ Len(trace[t]) <= Len(stack[t])
  <2>1. fp[t] \in Int /\ Len(stack[t]) \in Nat
    BY StackOf DEF CrashTyped
  <2>2. fp[t] \in Wild .. Len(stack[t])
    BY <2>1 DEF HandlerTyped, Wild
  <2> QED BY <2>2 DEF CrashTyped, WalkInv, Traced
<1>2. process \in {"up", "exit 0", "killed"}
  BY Zenon DEF HandlerTyped, ProcessStates
<1> QED BY <1>1, <1>2, Zenon DEF CrashTypeOK, CrashTyped, HandlerTyped

\* Every variable of the three components keeps its type, for every number of
\* buffers, workers and threads and every stack: the buffer an entry of the
\* ring names is one of the server's, the worker a batch is sent with is a
\* worker, and print_call_link reads no frame beyond the stack and writes no
\* more lines than the stack has functions.
THEOREM ProcessTypes == MCSpec => []ProcessTypeOK
<1> DEFINE Inv == /\ RingTyped /\ ProcTypeOK /\ RulesCounted
                  /\ CrashTyped /\ WalkInv /\ HandlerTyped
<1>1. MCInit => Inv
  BY TypeInit, ProcTypeInit, CrashInitInv, HandlerInit DEF MCInit
<1>2. Inv /\ [MCNext]_<<vars, allProcVars, crashVars, part>> => Inv'
  <2> SUFFICES ASSUME Inv, [MCNext]_<<vars, allProcVars, crashVars, part>> PROVE Inv'
    OBVIOUS
  <2>1. [Next]_vars /\ [ProcNext]_allProcVars /\ [CrashNext]_crashVars
    BY DEF MCNext
  <2> QED BY <2>1, TypeNext, ProcTypeNext, CrashNextInv, HandlerNext
<1>3. Inv => ProcessTypeOK
  BY HandlerTypes DEF ProcessTypeOK, RingTyped
<1> QED BY <1>1, <1>2, <1>3, PTL DEF MCSpec
-----------------------------------------------------------------------------
(* The GPS daemon (GnssDaemon) *)

\* Who runs in each stage of main, and what the dump left.
DaemonStages ==
  /\ stage \in {"start", "serial", "failed"} => logger = "none" /\ recorder = "none"
  /\ stage \in {"start", "serial"} => polls = 0 /\ tries = 0
  /\ stage = "dump" => serial = "open" /\ logger = "none" /\ recorder = "none"
  /\ stage = "record" => serial = "open" /\ DumpOver
  /\ stage = "end" => logger = "done" /\ recorder = "done"

\* What the recorder wrote last, and when it has written all it may.
DaemonRecord ==
  /\ lines > 0 => label = Label(last_status) /\ last_status = Status(pins[1], pins[2])
  /\ recorder # "done" => lines <= ANT_LIMIT

DaemonInv == DaemonTypeOK /\ DaemonStages /\ DaemonRecord

\* The status tells the state of the pins.
LEMMA StatusTells ==
  ASSUME NEW d \in {-1, 0, 1}, NEW s \in {-1, 0, 1}
  PROVE  Label(Status(d, s)) = Truth(d, s) /\ Status(d, s) \in -3 .. 3
<1>1. Status(d, s) = d * 2 + s /\ Status(d, s) \in -3 .. 3
  BY DEF Status
<1>2. CASE d = 0 /\ s = 0
  BY <1>1, <1>2 DEF Label, Truth
<1>3. CASE d = 1 /\ s = 0
  BY <1>1, <1>3 DEF Label, Truth
<1>4. CASE d = 1 /\ s = 1
  BY <1>1, <1>4 DEF Label, Truth
<1>5. CASE d = -1 \/ s = -1 \/ (d = 0 /\ s = 1)
  <2>1. Status(d, s) \notin {0, 2, 3}
    BY <1>1, <1>5
  <2>2. Label(Status(d, s)) = "invalid"
    BY <2>1 DEF Label
  <2>3. <<d, s>> # <<0, 0>> /\ <<d, s>> # <<1, 0>> /\ <<d, s>> # <<1, 1>>
    BY <1>5
  <2>4. Truth(d, s) = "invalid"
    BY <2>3 DEF Truth
  <2> QED BY <1>1, <2>2, <2>4
<1> QED BY <1>2, <1>3, <1>4, <1>5

LEMMA DaemonInvInit == DaemonInit => DaemonInv
<1> SUFFICES ASSUME DaemonInit PROVE DaemonInv
  OBVIOUS
<1>1. 0 \in 0 .. POLLS /\ 0 \in 0 .. TRIES - 1 /\ 0 \in 0 .. ANT_LIMIT + 1 /\ 0 <= ANT_LIMIT
  BY DaemonAssumption
<1>2. pins \in {-1, 0, 1} \X {-1, 0, 1}
  BY DEF DaemonInit
<1>3. last_status \in -3 .. 3
  BY DEF DaemonInit
<1>4. /\ polls \in 0 .. POLLS /\ tries \in 0 .. TRIES - 1 /\ lines \in 0 .. ANT_LIMIT + 1
      /\ speed \in {0, 19200} \cup BAUD
  BY <1>1 DEF DaemonInit
<1>7. gl_exit \in BOOLEAN
  BY Zenon DEF DaemonInit
<1>5. /\ stage = "start" /\ serial = "none" /\ logger = "none" /\ recorder = "none"
      /\ label \in {"none", "open", "normal", "short", "invalid"}
  BY DEF DaemonInit
<1>6. DaemonTypeOK
  BY <1>2, <1>3, <1>4, <1>5, <1>7 DEF DaemonTypeOK
<1> QED BY <1>1, <1>6 DEF DaemonInit, DaemonInv, DaemonStages, DaemonRecord

LEMMA DaemonMainTypes == DaemonInv /\ (DaemonStep \/ SigHandler) => DaemonTypeOK'
<1> SUFFICES ASSUME DaemonInv, DaemonStep \/ SigHandler PROVE DaemonTypeOK'
  OBVIOUS
<1> USE DaemonAssumption DEF DaemonInv, DaemonTypeOK
<1>1. CASE TzUpdate
  BY <1>1 DEF TzUpdate, threadVars
<1>2. CASE IhSerialInit
  BY <1>2 DEF IhSerialInit, threadVars, serial_get_baudrate
<1>3. CASE DumpUbxCfg
  BY <1>3 DEF DumpUbxCfg, threadVars
<1>4. CASE StartThreads
  BY <1>4 DEF StartThreads
<1>5. CASE IhSerialDeinit
  BY <1>5 DEF IhSerialDeinit, threadVars
<1>6. CASE SigHandler
  BY <1>6 DEF SigHandler, threadVars
<1> QED BY <1>1, <1>2, <1>3, <1>4, <1>5, <1>6 DEF DaemonStep

LEMMA DaemonMainSteps == DaemonInv /\ (DaemonStep \/ SigHandler) => DaemonStages' /\ DaemonRecord'
<1> SUFFICES ASSUME DaemonInv, DaemonStep \/ SigHandler PROVE DaemonStages' /\ DaemonRecord'
  OBVIOUS
<1> USE DaemonAssumption DEF DaemonInv, DaemonStages, DaemonRecord
<1>1. CASE TzUpdate
  BY <1>1 DEF TzUpdate, threadVars
<1>2. CASE IhSerialInit
  BY <1>2 DEF IhSerialInit, threadVars
<1>3. CASE DumpUbxCfg
  BY <1>3 DEF DumpUbxCfg, threadVars
<1>4. CASE StartThreads
  <2>2. stage = "dump" /\ recorder = "none"
    BY <1>4 DEF StartThreads
  <2>3. DaemonStages'
    BY <1>4, <2>2 DEF StartThreads, DumpOver
  <2>4. lines <= ANT_LIMIT
    BY <2>2
  <2> QED BY <1>4, <2>3, <2>4 DEF StartThreads
<1>5. CASE IhSerialDeinit
  BY <1>5 DEF IhSerialDeinit, threadVars, Joined
<1>6. CASE SigHandler
  BY <1>6 DEF SigHandler, threadVars, DumpOver
<1> QED BY <1>1, <1>2, <1>3, <1>4, <1>5, <1>6 DEF DaemonStep

LEMMA DaemonThreadSteps ==
  DaemonInv /\ (LoggerRead \/ LoggerTest \/ AntStatusRecord \/ RecorderEnds) => DaemonInv'
<1> SUFFICES ASSUME DaemonInv, LoggerRead \/ LoggerTest \/ AntStatusRecord \/ RecorderEnds
             PROVE  DaemonInv'
  OBVIOUS
<1> USE DaemonAssumption DEF DaemonInv, DaemonTypeOK, DaemonStages, DaemonRecord, DumpOver
<1>1. CASE LoggerRead
  BY <1>1 DEF LoggerRead
<1>2. CASE LoggerTest
  BY <1>2 DEF LoggerTest
<1>3. CASE RecorderEnds
  BY <1>3 DEF RecorderEnds
<1>4. CASE AntStatusRecord
  <2>1. PICK d \in {-1, 0, 1}, s \in {-1, 0, 1} :
          /\ pins' = <<d, s>>
          /\ \/ /\ Status(d, s) = last_status
                /\ UNCHANGED <<recorder, last_status, label, lines>>
             \/ /\ Status(d, s) # last_status
                /\ last_status' = Status(d, s)
                /\ label' = Label(Status(d, s))
                /\ lines' = lines + 1
                /\ recorder' = IF lines + 1 > ANT_LIMIT THEN "done" ELSE "loop"
    BY <1>4 DEF AntStatusRecord
  <2>2. pins'[1] = d /\ pins'[2] = s /\ pins' \in {-1, 0, 1} \X {-1, 0, 1}
    BY <2>1
  <2>3. UNCHANGED <<stage, polls, tries, gl_exit, serial, speed, logger>> /\ recorder = "loop"
    BY <1>4 DEF AntStatusRecord
  <2>4. Status(d, s) \in -3 .. 3 /\ Label(Status(d, s)) \in {"open", "normal", "short", "invalid"}
    BY StatusTells DEF Label
  <2>5. last_status' \in -3 .. 3 /\ label' \in {"none", "open", "normal", "short", "invalid"}
    BY <2>1, <2>4
  <2>6. /\ lines' \in 0 .. ANT_LIMIT + 1 /\ recorder' \in {"none", "loop", "done"}
        /\ recorder' # "done" => lines' <= ANT_LIMIT
    BY <2>1, <2>3
  <2>7. DaemonTypeOK'
    BY <2>2, <2>3, <2>5, <2>6
  <2>8. DaemonStages'
    BY <2>3, <2>6, <2>1
  <2>9. lines' > 0 => label' = Label(last_status') /\ last_status' = Status(pins'[1], pins'[2])
    <3>1. CASE Status(d, s) = last_status /\ UNCHANGED <<last_status, label, lines>>
      BY <3>1, <2>2
    <3>2. CASE last_status' = Status(d, s) /\ label' = Label(Status(d, s))
      BY <3>2, <2>2
    <3> QED BY <2>1, <3>1, <3>2
  <2> QED BY <2>6, <2>7, <2>8, <2>9
<1> QED BY <1>1, <1>2, <1>3, <1>4

LEMMA DaemonInvNext == DaemonInv /\ [DaemonNext]_daemonVars => DaemonInv'
<1> SUFFICES ASSUME DaemonInv, [DaemonNext]_daemonVars PROVE DaemonInv'
  OBVIOUS
<1>1. CASE UNCHANGED daemonVars
  BY <1>1 DEF daemonVars, threadVars, DaemonInv, DaemonTypeOK, DaemonStages, DaemonRecord, DumpOver
<1>2. CASE DaemonStep \/ SigHandler
  BY <1>2, DaemonMainTypes, DaemonMainSteps DEF DaemonInv
<1>3. CASE LoggerRead \/ LoggerTest \/ AntStatusRecord \/ RecorderEnds
  BY <1>3, DaemonThreadSteps
<1> QED BY <1>1, <1>2, <1>3 DEF DaemonNext

LEMMA DaemonSound == DaemonInv => DaemonTypeOK /\ OneReader /\ AntTruthful
<1> SUFFICES ASSUME DaemonInv PROVE DaemonTypeOK /\ OneReader /\ AntTruthful
  OBVIOUS
<1> USE DaemonAssumption DEF DaemonInv, DaemonTypeOK
<1>1. OneReader
  BY DEF OneReader, DaemonStages, DumpOver
<1>2. pins[1] \in {-1, 0, 1} /\ pins[2] \in {-1, 0, 1}
  OBVIOUS
<1>3. Label(Status(pins[1], pins[2])) = Truth(pins[1], pins[2])
  BY <1>2, StatusTells
<1> QED BY <1>1, <1>3 DEF AntTruthful, DaemonRecord

-----------------------------------------------------------------------------
(* The buttons (Buttons) *)

\* Every run of the handler was asked for by a move of the button.
BtnInv ==
  /\ BtnTypeOK /\ LedExplained /\ KeyIsLevel
  /\ toggles <= presses /\ (waiting => toggles < presses /\ bound)

LEMMA BtnInvInit == BtnInit => BtnInv
<1> SUFFICES ASSUME BtnInit PROVE BtnInv
  OBVIOUS
<1>1. /\ bound \in BOOLEAN /\ waiting \in BOOLEAN /\ opened \in BOOLEAN /\ unseen \in BOOLEAN
      /\ ~bound /\ ~waiting /\ ~opened
  BY Zenon DEF BtnInit
<1>2. BtnTypeOK
  BY <1>1, ButtonsAssumption DEF BtnInit, BtnTypeOK
<1> QED BY <1>1, <1>2 DEF BtnInit, BtnInv, LedExplained, KeyIsLevel

\* The Boolean variables are left to Zenon.
LEMMA BtnBooleans ==
  BtnTypeOK /\ BtnNext => /\ bound' \in BOOLEAN /\ waiting' \in BOOLEAN
                          /\ opened' \in BOOLEAN /\ unseen' \in BOOLEAN
<1> SUFFICES ASSUME BtnTypeOK, BtnNext
             PROVE  /\ bound' \in BOOLEAN /\ waiting' \in BOOLEAN
                    /\ opened' \in BOOLEAN /\ unseen' \in BOOLEAN
  OBVIOUS
<1>0. /\ bound \in BOOLEAN /\ waiting \in BOOLEAN /\ opened \in BOOLEAN /\ unseen \in BOOLEAN
  BY DEF BtnTypeOK
<1>1. CASE Bind
  BY <1>0, <1>1, Zenon DEF Bind
<1>2. CASE Unbind
  BY <1>0, <1>2, Zenon DEF Unbind
<1>3. CASE OpenInput
  BY <1>0, <1>3, Zenon DEF OpenInput
<1>4. CASE Move
  BY <1>0, <1>4, Zenon DEF Move
<1>5. CASE Handler
  BY <1>0, <1>5, Zenon DEF Handler
<1>6. CASE Poll
  BY <1>0, <1>6, Zenon DEF Poll
<1> QED BY <1>1, <1>2, <1>3, <1>4, <1>5, <1>6 DEF BtnNext

LEMMA BtnInvNext == BtnInv /\ [BtnNext]_btnVars => BtnInv'
<1> SUFFICES ASSUME BtnInv, [BtnNext]_btnVars PROVE BtnInv'
  OBVIOUS
<1> USE ButtonsAssumption DEF BtnInv, BtnTypeOK, LedExplained, KeyIsLevel
<1>1. CASE UNCHANGED btnVars
  BY <1>1 DEF btnVars
<1>0. FirstLed(kind) \in {0, 1}
  BY DEF FirstLed
<1>2. CASE Bind
  <2>1. bound' \in BOOLEAN /\ waiting' \in BOOLEAN /\ opened' \in BOOLEAN /\ unseen' \in BOOLEAN
    BY <1>2, BtnBooleans DEF BtnNext
  <2> QED BY <1>0, <1>2, <2>1 DEF Bind
<1>3. CASE Unbind
  <2>1. bound' \in BOOLEAN /\ waiting' \in BOOLEAN /\ opened' \in BOOLEAN /\ unseen' \in BOOLEAN
    BY <1>3, BtnBooleans DEF BtnNext
  <2> QED BY <1>3, <2>1 DEF Unbind
<1>4. CASE OpenInput
  <2>1. bound' \in BOOLEAN /\ waiting' \in BOOLEAN /\ opened' \in BOOLEAN /\ unseen' \in BOOLEAN
    BY <1>4, BtnBooleans DEF BtnNext
  <2> QED BY <1>4, <2>1 DEF OpenInput
<1>5. CASE Move
  <2>1. bound' \in BOOLEAN /\ waiting' \in BOOLEAN /\ opened' \in BOOLEAN /\ unseen' \in BOOLEAN
    BY <1>5, BtnBooleans DEF BtnNext
  <2>2. /\ presses < MaxPresses /\ presses' = presses + 1 /\ level' = 1 - level
        /\ unseen' = (unseen /\ ~bound)
        /\ waiting' = (waiting \/ (bound /\ Edge(kind, 1 - level)))
        /\ UNCHANGED <<kind, bound, led, state, key, opened, toggles>>
    BY <1>5 DEF Move
  <2>3. kind = "input" => Edge(kind, 1 - level)
    BY DEF Edge
  <2>4. kind = "input" /\ bound => waiting'
    BY <2>2, <2>3
  <2>5. waiting' => waiting \/ bound
    BY <2>2
  <2>6. KeyIsLevel'
    BY <2>2, <2>4
  <2> HIDE DEF KeyIsLevel
  <2> QED BY <2>1, <2>2, <2>5, <2>6
<1>6. CASE Handler
  <2>1. bound' \in BOOLEAN /\ waiting' \in BOOLEAN /\ opened' \in BOOLEAN /\ unseen' \in BOOLEAN
    BY <1>6, BtnBooleans DEF BtnNext
  <2> QED BY <1>6, <2>1 DEF Handler, Shown
<1>7. CASE Poll
  <2>1. bound' \in BOOLEAN /\ waiting' \in BOOLEAN /\ opened' \in BOOLEAN /\ unseen' \in BOOLEAN
    BY <1>7, BtnBooleans DEF BtnNext
  <2> QED BY <1>7, <2>1 DEF Poll, Polls
<1> QED BY <1>1, <1>2, <1>3, <1>4, <1>5, <1>6, <1>7 DEF BtnNext

-----------------------------------------------------------------------------
(* The files of the examples (CharFile) *)

TextOf == [len : Nat, val : Value \cup {0}]

\* Where the integers of a file's attributes are kept, and what the buffer holds.
FilKept ==
  /\ file = "kobject" => last["my_int"].val = int2 /\ last["my_second_int"].val = int1
  /\ file \in {"attribute", "kset"} => last["my_int"].val = int1
  /\ buffer = Stored(last["my_buffer"].len, last["my_buffer"].val)

FilInv ==
  /\ FilTypeOK /\ last \in [Attribute -> TextOf]
  /\ FilKept
  /\ ShowsWhatWasStored /\ BufferShownExplained /\ EndlessLine

LEMMA Texts == \A n, v : Text(n, v).len = n /\ Text(n, v).val = v
BY DEF Text

LEMMA StoredText ==
  ASSUME NEW n \in Nat, NEW v
  PROVE  Stored(n, v).len \in 0 .. BUFFER /\ (Stored(n, v) = Text(n, v) \/ n >= BUFFER)
BY CharFileAssumption, Texts DEF Stored

LEMMA LeastOf == \A i, j \in Nat : Least(i, j) \in Nat /\ Least(i, j) <= i /\ Least(i, j) <= j
                                   /\ (i > 0 /\ j > 0 => Least(i, j) > 0)
BY DEF Least

LEMMA FilInvInit == FilInit => FilInv
<1> SUFFICES ASSUME FilInit PROVE FilInv
  OBVIOUS
<1>1. /\ \A a \in Attribute : last[a] = Text(0, 0)
      /\ answer.call = "none"
  BY DEF FilInit, Nothing
<1>2. Text(0, 0) \in TextOf
  BY DEF Text, TextOf
<1>3. last \in [Attribute -> TextOf]
  BY <1>2 DEF FilInit
<1>4. last["my_int"] = Text(0, 0) /\ last["my_second_int"] = Text(0, 0) /\ last["my_buffer"] = Text(0, 0)
  BY <1>1 DEF Attribute
<1>5. Stored(0, 0) = Text(0, 0)
  BY CharFileAssumption DEF Stored
<1>6. FilKept
  BY <1>4, <1>5, Texts DEF FilInit, FilKept
<1>7. FilTypeOK
  BY CharFileAssumption, Texts DEF FilInit, FilTypeOK
<1> QED BY <1>1, <1>3, <1>6, <1>7
        DEF FilInv, ShowsWhatWasStored, BufferShownExplained, EndlessLine

\* A call that stores nothing leaves the types and what is kept.
LEMMA FilStays ==
  ASSUME FilInv, Calling, UNCHANGED <<file, int1, int2, buffer, last>>,
         got' \in 0 .. 2 * LINE
  PROVE  FilTypeOK' /\ last' \in [Attribute -> TextOf] /\ FilKept'
<1>1. calls' \in 0 .. MaxCalls
  BY CharFileAssumption DEF FilInv, FilTypeOK, Calling
<1> QED BY <1>1 DEF FilInv, FilTypeOK, FilKept

LEMMA FilRead ==
  ASSUME FilInv, NEW n \in Counts, NEW missed, MychardevRead(n, missed) PROVE FilInv'
<1> DEFINE r == ReadLen(n, got)
<1>1. n \in Nat /\ n > 0 /\ LINE \in Nat /\ LINE > 0 /\ got \in Nat
  BY CharFileAssumption DEF FilInv, FilTypeOK
<1>2. r \in Nat /\ r > 0
  BY <1>1, LeastOf DEF ReadLen
<1>3. got + r \in Nat /\ 2 * LINE \in Nat
  BY <1>1, <1>2
<1>4. Least(got + r, 2 * LINE) \in 0 .. 2 * LINE
  BY <1>3, LeastOf
<1>5. answer'.call = "read" /\ (answer'.ret = r \/ answer'.ret = EFAULT)
  BY DEF MychardevRead
<1>6. got' \in 0 .. 2 * LINE
  BY <1>4 DEF MychardevRead, FilInv, FilTypeOK
<1>7. FilTypeOK' /\ last' \in [Attribute -> TextOf] /\ FilKept'
  BY <1>6, FilStays DEF MychardevRead
<1> QED BY <1>2, <1>5, <1>7
        DEF FilInv, ShowsWhatWasStored, BufferShownExplained, EndlessLine

LEMMA FilWrite ==
  ASSUME FilInv, NEW n \in Counts, NEW missed, NEW v \in Value, MychardevWrite(n, missed, v)
  PROVE  FilInv'
<1>1. answer'.call = "write"
  BY DEF MychardevWrite
<1>2. got' \in 0 .. 2 * LINE
  BY DEF FilInv, FilTypeOK, MychardevWrite
<1>3. FilTypeOK' /\ last' \in [Attribute -> TextOf] /\ FilKept'
  BY <1>2, FilStays DEF MychardevWrite
<1> QED BY <1>1, <1>3 DEF FilInv, ShowsWhatWasStored, BufferShownExplained, EndlessLine

\* Either of the two functions with the same comparison: the attribute's own
\* integer, whichever that is.
LEMMA FilStoreInt ==
  ASSUME FilInv, NEW a \in Attribute, NEW v \in Value, NEW valid \in BOOLEAN, NEW n \in Counts,
         IntStore(a, v, valid, n)
  PROVE  FilInv'
<1>1. /\ a \in Offers(file) /\ a # "my_buffer" /\ a \in Attribute
      /\ UNCHANGED <<file, buffer, got>> /\ file \in Examples
      /\ answer'.call = "store"
  BY DEF IntStore, FilInv, FilTypeOK
<1>2. calls' \in 0 .. MaxCalls
  BY CharFileAssumption DEF FilInv, FilTypeOK, IntStore, Calling
<1>3. CASE ~valid
  <2>1. UNCHANGED <<int1, int2, last>>
    BY <1>3 DEF IntStore
  <2> QED BY <1>1, <1>2, <2>1 DEF FilInv, FilTypeOK, FilKept, ShowsWhatWasStored,
                                  BufferShownExplained, EndlessLine
<1>4. CASE valid
  <2>1. last' = [last EXCEPT ![a] = Text(1, v)] /\ Text(1, v) \in TextOf
    BY <1>4 DEF IntStore, TextOf, Text
  <2>2. /\ last' \in [Attribute -> TextOf]
        /\ last'[a].val = v
        /\ \A b \in Attribute : b # a => last'[b] = last[b]
    BY <1>1, <2>1, Texts DEF FilInv
  <2>3. /\ file = "kobject" /\ a = "my_int" => int2' = v /\ int1' = int1
        /\ ~(file = "kobject" /\ a = "my_int") => int1' = v /\ int2' = int2
    BY <1>1, <1>4 DEF IntStore, StoresFirst
  <2>4. FilTypeOK'
    BY <1>1, <1>2, <2>3 DEF FilInv, FilTypeOK
  <2>5. a \in {"my_int", "my_second_int"} /\ (file # "kobject" => a = "my_int" /\ file # "mychardev")
    BY <1>1 DEF Offers, Attribute, Examples
  <2>6. last'["my_buffer"] = last["my_buffer"]
    BY <1>1, <2>2 DEF Attribute
  <2>7. file = "kobject" => last'["my_int"].val = int2' /\ last'["my_second_int"].val = int1'
    BY <2>2, <2>3, <2>5 DEF FilInv, FilKept, Attribute
  <2>8. file \in {"attribute", "kset"} => last'["my_int"].val = int1'
    BY <2>2, <2>3, <2>5
  <2>9. FilKept'
    BY <1>1, <2>6, <2>7, <2>8 DEF FilInv, FilKept
  <2> QED BY <1>1, <2>2, <2>4, <2>9 DEF FilInv, ShowsWhatWasStored, BufferShownExplained, EndlessLine
<1> QED BY <1>3, <1>4

LEMMA FilShowInt == ASSUME FilInv, NEW a \in Attribute, IntShow(a) PROVE FilInv'
<1>1. a \in Offers(file) /\ a # "my_buffer" /\ file \in Examples
  BY DEF IntShow, FilInv, FilTypeOK
<1>2. a \in {"my_int", "my_second_int"} /\ (file # "kobject" => a = "my_int" /\ file # "mychardev")
  BY <1>1 DEF Offers, Attribute, Examples
<1>3. /\ answer'.call = a /\ last' = last
      /\ answer'.shown.val = IF file = "kobject" /\ ~ShowsFirst(a) THEN int2 ELSE int1
  BY Texts DEF IntShow
<1>4. answer'.shown.val = last[a].val
  BY <1>1, <1>2, <1>3 DEF FilInv, FilKept, ShowsFirst, Examples
<1>5. got' \in 0 .. 2 * LINE
  BY DEF FilInv, FilTypeOK, IntShow
<1>6. FilTypeOK' /\ last' \in [Attribute -> TextOf] /\ FilKept'
  BY <1>5, FilStays DEF IntShow
<1> QED BY <1>2, <1>3, <1>4, <1>6 DEF FilInv, ShowsWhatWasStored, BufferShownExplained, EndlessLine

LEMMA FilStoreBuffer == ASSUME FilInv, NEW n \in Counts, NEW v \in Value, BufferStore(n, v) PROVE FilInv'
<1>1. n \in Nat
  BY CharFileAssumption
<1>2. /\ buffer' = Stored(n, v) /\ last' = [last EXCEPT !["my_buffer"] = Text(n, v)]
      /\ answer'.call = "store" /\ UNCHANGED <<file, int1, int2, got>>
  BY DEF BufferStore
<1>3. calls' \in 0 .. MaxCalls
  BY CharFileAssumption DEF FilInv, FilTypeOK, BufferStore, Calling
<1>4. Text(n, v) \in TextOf
  BY <1>1 DEF Text, TextOf
<1>5. /\ last' \in [Attribute -> TextOf]
      /\ last'["my_buffer"] = Text(n, v)
      /\ last'["my_int"] = last["my_int"] /\ last'["my_second_int"] = last["my_second_int"]
  BY <1>2, <1>4 DEF FilInv, Attribute
<1>6. FilTypeOK'
  BY <1>1, <1>2, <1>3, StoredText DEF FilInv, FilTypeOK
<1>7. FilKept'
  BY <1>2, <1>5, Texts DEF FilInv, FilKept
<1> QED BY <1>2, <1>5, <1>6, <1>7 DEF FilInv, ShowsWhatWasStored, BufferShownExplained, EndlessLine

LEMMA FilShowBuffer == ASSUME FilInv, BufferShow PROVE FilInv'
<1> DEFINE b == last["my_buffer"]
<1>1. b \in TextOf /\ b.len \in Nat /\ b = Text(b.len, b.val)
  BY DEF FilInv, Attribute, TextOf, Text
<1>2. buffer = Stored(b.len, b.val)
  BY DEF FilInv, FilKept
<1>3. /\ answer'.call = "buffer" /\ last' = last
      /\ answer'.shown = IF buffer.len < BUFFER THEN buffer ELSE Text(BUFFER + 1, -1)
  BY DEF BufferShow
<1>4. buffer = b \/ b.len >= BUFFER
  BY <1>1, <1>2, StoredText
<1>5. answer'.shown = b \/ b.len >= BUFFER
  <2>1. CASE b.len >= BUFFER
    BY <2>1
  <2>2. CASE ~(b.len >= BUFFER)
    <3>1. buffer = b /\ buffer.len < BUFFER
      BY <2>2, <1>1, <1>4, CharFileAssumption
    <3> QED BY <3>1, <1>3
  <2> QED BY <2>1, <2>2
<1>6. got' \in 0 .. 2 * LINE
  BY DEF FilInv, FilTypeOK, BufferShow
<1>7. FilTypeOK' /\ last' \in [Attribute -> TextOf] /\ FilKept'
  BY <1>6, FilStays DEF BufferShow
<1> QED BY <1>3, <1>5, <1>7 DEF FilInv, ShowsWhatWasStored, BufferShownExplained, EndlessLine

LEMMA FilInvNext == FilInv /\ [FilNext]_filVars => FilInv'
<1> SUFFICES ASSUME FilInv, [FilNext]_filVars PROVE FilInv'
  OBVIOUS
<1>1. CASE UNCHANGED filVars
  BY <1>1 DEF filVars, FilInv, FilTypeOK, FilKept, ShowsWhatWasStored, BufferShownExplained,
              EndlessLine
<1>2. CASE FilNext
  BY <1>2, FilRead, FilWrite, FilStoreInt, FilShowInt, FilStoreBuffer, FilShowBuffer, Zenon DEF FilNext
<1> QED BY <1>1, <1>2

-----------------------------------------------------------------------------
(* The deferred work (Deferred) *)

\* Which exercises can be where, and what a removed module has left.
DeferredInv ==
  /\ DeferredTypeOK
  /\ mod \in {"waiting", "asleep"} => exercise \in Sleeping
  /\ callback = "woken" => exercise \in Sleeping
  /\ data = "freed" => exercise \in Allocated
  /\ condition => exercise = "waitqueue"
  /\ exercise = "waitqueue" /\ callback \in {"woken", "done"} => condition
  /\ mod = "gone" /\ exercise \in Waiting => callback \in {"none", "done"}
  /\ CodeOutlivesCallback /\ FreedDataExplained /\ NoWakeLost

LEMMA DeferredInvInit == DeferredInit => DeferredInv
<1> SUFFICES ASSUME DeferredInit PROVE DeferredInv
  OBVIOUS
<1>1. condition \in BOOLEAN /\ signalled \in BOOLEAN /\ ~condition
  BY Zenon DEF DeferredInit
<1> QED BY <1>1 DEF DeferredInit, DeferredInv, DeferredTypeOK, CodeOutlivesCallback,
                    FreedDataExplained, NoWakeLost

LEMMA DeferredInvNext == DeferredInv /\ [DeferredNext]_deferredVars => DeferredInv'
<1> SUFFICES ASSUME DeferredInv, [DeferredNext]_deferredVars PROVE DeferredInv'
  OBVIOUS
<1> USE ExerciseAssumption
    DEF DeferredInv, DeferredTypeOK, CodeOutlivesCallback, FreedDataExplained, NoWakeLost
<1>1. CASE UNCHANGED deferredVars
  BY <1>1 DEF deferredVars
<1>2. CASE MyInit
  BY <1>2 DEF MyInit, Sleeping, Allocated, Waiting
<1>3. CASE WaitEvent
  BY <1>3 DEF WaitEvent, Sleeping, Allocated, Waiting
<1>4. CASE Signal
  <2>1. signalled' \in BOOLEAN /\ signalled'
    BY <1>4, Zenon DEF Signal
  <2> QED BY <1>4, <2>1 DEF Signal, Woken
<1>5. CASE CallbackStarts
  BY <1>5 DEF CallbackStarts, CodeUsed
<1>6. CASE SetCondition
  <2>1. condition' \in BOOLEAN /\ condition'
    BY <1>6, Zenon DEF SetCondition
  <2> QED BY <1>6, <2>1 DEF SetCondition, CodeUsed, Waiting
<1>7. CASE WakeUp
  BY <1>7 DEF WakeUp, CodeUsed, Woken, Sleeping, Waiting
<1>8. CASE CallbackEnds
  BY <1>8 DEF CallbackEnds, CodeUsed, Sleeping
<1>9. CASE MyExit
  <2>1. /\ mod = "live" /\ mod' = "gone"
        /\ UNCHANGED <<exercise, condition, data, signalled, misuse>>
        /\ callback' = callback \/ (callback = "pending" /\ callback' = "done")
    BY <1>9 DEF MyExit
  <2>2. exercise = "waitqueue" => callback' = callback
    BY <1>9 DEF MyExit, Cancels
  <2>3. exercise \in {"timer", "hrtimer"} => callback' # "pending"
    BY <1>9 DEF MyExit, Cancels
  <2>4. exercise \in {"dedicated", "tasklet"} => callback = "done"
    BY <1>9 DEF MyExit, MayUnload
  <2>5. exercise = "hrtimer" => callback \notin {"running", "woken"}
    BY <1>9 DEF MyExit, MayUnload, Sleeping
  <2>6. exercise \in Waiting => callback' \in {"none", "done"}
    BY <2>1, <2>3, <2>4, <2>5 DEF Waiting
  <2> QED BY <2>1, <2>2, <2>3, <2>6
<1> QED BY <1>1, <1>2, <1>3, <1>4, <1>5, <1>6, <1>7, <1>8, <1>9 DEF DeferredNext

-----------------------------------------------------------------------------
(* evtest (Evtest) *)

\* The events a copy has printed, read and not read, in this order, against U,
\* the ones it was not given: where two neighbours are events, all between them
\* are in U; and if the last is an event, all after it up to n are.
Mark(n) == {DROPPED} \cup (1 .. n)
Before(s, i) == IF i = 1 THEN 0 ELSE s[i - 1]
LinkAt(s, U, i) ==
  Before(s, i) # DROPPED /\ s[i] # DROPPED =>
    Before(s, i) < s[i] /\ (Before(s, i) + 1) .. (s[i] - 1) \subseteq U
Linked(s, U) == \A i \in 1 .. Len(s) : LinkAt(s, U, i)
Newest(s) == IF s = <<>> THEN 0 ELSE s[Len(s)]
UpTo(s, U, n) == Newest(s) # DROPPED => (Newest(s) + 1) .. n \subseteq U

LEMMA MarkIs == \A n \in Nat : /\ Mark(n) \subseteq Int /\ DROPPED \in Mark(n) /\ Mark(n) \subseteq Mark(n + 1)
                               /\ n + 1 \in Mark(n + 1) /\ n + 1 # DROPPED
                               /\ \A e \in Mark(n) : e = DROPPED \/ (e \in Nat /\ e >= 1 /\ e <= n)
BY DEF Mark, DROPPED

\* A first part of such a sequence is one.
LEMMA LinkedPart ==
  ASSUME NEW S, NEW s \in Seq(S), NEW t \in Seq(S), NEW U, Linked(s, U),
         Len(t) <= Len(s), \A i \in 1 .. Len(t) : t[i] = s[i]
  PROVE  Linked(t, U)
<1> SUFFICES ASSUME NEW i \in 1 .. Len(t) PROVE LinkAt(t, U, i)
  BY DEF Linked
<1>1. i \in 1 .. Len(s) /\ (i # 1 => i - 1 \in 1 .. Len(t))
  OBVIOUS
<1>2. t[i] = s[i] /\ Before(t, i) = Before(s, i)
  BY <1>1 DEF Before
<1>3. LinkAt(s, U, i)
  BY <1>1 DEF Linked
<1> QED BY <1>2, <1>3 DEF LinkAt

LEMMA LinkedMore ==
  ASSUME NEW s, NEW U, NEW V, U \subseteq V, Linked(s, U)
  PROVE  Linked(s, V)
BY DEF Linked, LinkAt

\* The next event is appended by a reader that hears it.
LEMMA LinkedNext ==
  ASSUME NEW n \in Nat, NEW s \in Seq(Mark(n)), NEW U, Linked(s, U), UpTo(s, U, n)
  PROVE  /\ Append(s, n + 1) \in Seq(Mark(n + 1))
         /\ Linked(Append(s, n + 1), U) /\ UpTo(Append(s, n + 1), U, n + 1)
<1> DEFINE t == Append(s, n + 1)
<1>1. s \in Seq(Mark(n + 1)) /\ n + 1 \in Mark(n + 1)
  BY MarkIs, SeqMonotonic
<1>2. /\ t \in Seq(Mark(n + 1)) /\ Len(t) = Len(s) + 1 /\ t[Len(s) + 1] = n + 1
      /\ \A i \in 1 .. Len(s) : t[i] = s[i]
  BY <1>1
<1>3. Len(s) \in Nat /\ (s # <<>> => Len(s) >= 1) /\ (s = <<>> => Len(s) = 0)
  OBVIOUS
<1> HIDE DEF t
<1>4. Newest(t) = n + 1
  <2>1. t # <<>>
    BY <1>2, <1>3
  <2> QED BY <1>2, <2>1 DEF Newest
<1>5. UpTo(t, U, n + 1)
  BY <1>4 DEF UpTo
<1>6. Linked(t, U)
  <2> SUFFICES ASSUME NEW i \in 1 .. Len(t) PROVE LinkAt(t, U, i)
    BY DEF Linked
  <2>1. CASE i \in 1 .. Len(s)
    <3>1. t[i] = s[i] /\ (i # 1 => t[i - 1] = s[i - 1])
      BY <1>2, <2>1, <1>3
    <3>2. LinkAt(s, U, i)
      BY <2>1 DEF Linked
    <3> QED BY <3>1, <3>2 DEF LinkAt, Before
  <2>2. CASE i = Len(s) + 1
    <3>1. Before(t, i) = Newest(s)
      <4>1. CASE s = <<>>
        BY <4>1, <2>2, <1>3 DEF Before, Newest
      <4>2. CASE s # <<>>
        <5>1. i # 1 /\ i - 1 = Len(s) /\ t[i - 1] = s[Len(s)]
          BY <4>2, <2>2, <1>2, <1>3
        <5> QED BY <4>2, <5>1 DEF Before, Newest
      <4> QED BY <4>1, <4>2
    <3>2. t[i] = n + 1
      BY <2>2, <1>2
    <3>3. Newest(s) # DROPPED => Newest(s) \in Nat /\ Newest(s) <= n
      <4>1. CASE s = <<>>
        BY <4>1 DEF Newest
      <4>2. CASE s # <<>>
        <5>1. s[Len(s)] \in Mark(n)
          BY <4>2, <1>3
        <5> QED BY <4>2, <5>1, MarkIs DEF Newest
      <4> QED BY <4>1, <4>2
    <3>4. Newest(s) # DROPPED => (Newest(s) + 1) .. n \subseteq U
      BY DEF UpTo
    <3>5. Newest(s) # DROPPED => Newest(s) < n + 1 /\ (n + 1) - 1 = n
      BY <3>3
    <3> QED BY <3>1, <3>2, <3>4, <3>5 DEF LinkAt
  <2> QED BY <2>1, <2>2, <1>2, <1>3
<1> QED BY <1>2, <1>5, <1>6 DEF t

\* The queue overran: what was unread is lost, and the loss is marked.
LEMMA LinkedDrop ==
  ASSUME NEW n \in Nat, NEW s \in Seq(Mark(n)), NEW U, Linked(s, U)
  PROVE  /\ s \o <<DROPPED, n + 1>> \in Seq(Mark(n + 1))
         /\ Linked(s \o <<DROPPED, n + 1>>, U) /\ UpTo(s \o <<DROPPED, n + 1>>, U, n + 1)
<1> DEFINE d == <<DROPPED, n + 1>>
           t == s \o d
<1>1. s \in Seq(Mark(n + 1)) /\ d \in Seq(Mark(n + 1))
      /\ Len(d) = 2 /\ d[1] = DROPPED /\ d[2] = n + 1
  BY MarkIs, SeqMonotonic
<1>2. /\ t \in Seq(Mark(n + 1)) /\ Len(t) = Len(s) + Len(d)
      /\ \A i \in 1 .. Len(s) + Len(d) : t[i] = IF i <= Len(s) THEN s[i] ELSE d[i - Len(s)]
  BY <1>1, ConcatProperties
<1> HIDE DEF d, t
<1>3. /\ Len(s) \in Nat /\ Len(t) = Len(s) + 2
      /\ \A i \in 1 .. Len(s) : t[i] = s[i]
      /\ t[Len(s) + 1] = DROPPED /\ t[Len(s) + 2] = n + 1
  <2>1. Len(s) \in Nat
    OBVIOUS
  <2>2. \A i \in 1 .. Len(s) : t[i] = s[i]
    BY <2>1, <1>1, <1>2
  <2>3. t[Len(s) + 1] = d[(Len(s) + 1) - Len(s)] /\ t[Len(s) + 2] = d[(Len(s) + 2) - Len(s)]
    BY <2>1, <1>1, <1>2
  <2>4. (Len(s) + 1) - Len(s) = 1 /\ (Len(s) + 2) - Len(s) = 2
    BY <2>1
  <2> QED BY <2>1, <2>2, <2>3, <2>4, <1>1, <1>2
<1>4. UpTo(t, U, n + 1)
  <2>1. t # <<>>
    BY <1>2, <1>3
  <2>2. Newest(t) = n + 1
    BY <2>1, <1>3 DEF Newest
  <2> QED BY <2>2 DEF UpTo
<1>5. Linked(t, U)
  <2> SUFFICES ASSUME NEW i \in 1 .. Len(t) PROVE LinkAt(t, U, i)
    BY DEF Linked
  <2>1. CASE i \in 1 .. Len(s)
    <3>1. t[i] = s[i] /\ (i # 1 => t[i - 1] = s[i - 1])
      BY <1>3, <2>1
    <3>2. LinkAt(s, U, i)
      BY <2>1 DEF Linked
    <3> QED BY <3>1, <3>2 DEF LinkAt, Before
  <2>2. CASE i = Len(s) + 1
    BY <2>2, <1>3 DEF LinkAt
  <2>3. CASE i = Len(s) + 2
    <3>1. i # 1 /\ t[i - 1] = DROPPED
      BY <2>3, <1>3
    <3> QED BY <3>1 DEF LinkAt, Before
  <2> QED BY <2>1, <2>2, <2>3, <1>3
<1> QED BY <1>2, <1>4, <1>5 DEF d, t

\* An event the reader is not given.
LEMMA UpToMissed ==
  ASSUME NEW n \in Nat, NEW s \in Seq(Mark(n)), NEW U, UpTo(s, U, n)
  PROVE  UpTo(s, U \cup {n + 1}, n + 1)
<1> SUFFICES ASSUME Newest(s) # DROPPED PROVE (Newest(s) + 1) .. (n + 1) \subseteq U \cup {n + 1}
  BY DEF UpTo
<1>1. (Newest(s) + 1) .. n \subseteq U
  BY DEF UpTo
<1>2. Newest(s) \in Int
  <2>1. CASE s = <<>>
    BY <2>1 DEF Newest
  <2>2. CASE s # <<>>
    <3>1. s[Len(s)] \in Mark(n)
      BY <2>2
    <3> QED BY <2>2, <3>1, MarkIs DEF Newest
  <2> QED BY <2>1, <2>2
<1> HIDE DEF Newest
<1> QED BY <1>1, <1>2

All(p) == (shown[p] \o batch[p]) \o unread[p]

EvShapes ==
  /\ event \in Nat
  /\ where \in [Proc -> OpenAt \cup {"start", "end"}]
  /\ stop \in [Proc -> BOOLEAN] /\ said \in [Proc -> BOOLEAN]
  /\ shown \in [Proc -> Seq(Mark(event))] /\ batch \in [Proc -> Seq(Mark(event))]
  /\ unread \in [Proc -> Seq(Mark(event))]
  /\ unheard \in [Proc -> SUBSET (1 .. event)]

EvOf(p) ==
  /\ Len(unread[p]) <= QUEUE /\ Len(batch[p]) <= BATCH
  /\ where[p] # "print" => batch[p] = <<>>
  /\ Linked(All(p), unheard[p])
  /\ where[p] # "end" => UpTo(All(p), unheard[p], event)

\* Who holds the grab has the device open; what GrabbedOrTold says holds from
\* the trial of the grab on.
EvHold ==
  /\ holder \in Proc \cup {NoProc}
  /\ holder # NoProc => where[holder] \in OpenAt
  /\ \A p \in Proc :
       /\ where[p] \in Handling \cup {"signal"} /\ p \in Grabs => holder = p \/ said[p]
       /\ holder = p /\ p \notin Grabs => where[p] = "ungrab"
       /\ where[p] = "ungrab" => p \notin Grabs

EvInv == EvShapes /\ (\A p \in Proc : EvOf(p)) /\ EvHold

LEMMA EvPlaces ==
  /\ Handling \subseteq OpenAt /\ "start" \notin OpenAt /\ "end" \notin OpenAt
  /\ "info" \notin Handling /\ "grab" \notin Handling /\ "ungrab" \notin Handling
  /\ "signal" \notin Handling /\ "start" \notin Handling /\ "end" \notin Handling
  /\ {"info", "grab", "ungrab", "signal", "test", "call", "select", "woken", "print"} \subseteq OpenAt
  /\ {"test", "call", "select", "woken", "print"} \subseteq Handling
BY DEF OpenAt, Handling

LEMMA EvInvInit == EvInit => EvInv
<1> SUFFICES ASSUME EvInit PROVE EvInv
  OBVIOUS
<1>1. \A p \in Proc : /\ where[p] = "start" /\ batch[p] = <<>> /\ shown[p] = <<>> /\ unread[p] = <<>>
                      /\ unheard[p] = {}
  BY DEF EvInit
<1>2. event = 0 /\ holder = NoProc
  BY DEF EvInit
<1>3. stop \in [Proc -> BOOLEAN] /\ said \in [Proc -> BOOLEAN]
  BY Zenon DEF EvInit
<1>4. <<>> \in Seq(Mark(event)) /\ Len(<<>>) = 0
  OBVIOUS
<1>5. EvShapes
  BY <1>2, <1>3, <1>4 DEF EvShapes, EvInit
<1>6. ASSUME NEW p \in Proc PROVE EvOf(p)
  <2>1. All(p) = <<>>
    BY <1>1 DEF All
  <2>2. Newest(All(p)) = 0 /\ Len(All(p)) = 0
    BY <2>1 DEF Newest
  <2>3. (0 + 1) .. event = {}
    BY <1>2
  <2>4. Linked(All(p), unheard[p]) /\ UpTo(All(p), unheard[p], event)
    BY <2>2, <2>3 DEF Linked, UpTo
  <2> QED BY <2>4, <1>1, <1>4, EvtestAssumption DEF EvOf
<1>7. EvHold
  BY <1>1, <1>2, EvtestAssumption, EvPlaces DEF EvHold
<1> QED BY <1>5, <1>6, <1>7 DEF EvInv

-----------------------------------------------------------------------------
(* What a step does to the events of a copy. *)

EvKeeps(p) ==
  /\ batch'[p] = batch[p] /\ shown'[p] = shown[p] /\ unread'[p] = unread[p]
  /\ where'[p] # "end" => where[p] # "end"
  /\ where'[p] # "print" => where[p] # "print"
EvEnds(p) ==
  /\ batch'[p] = batch[p] /\ shown'[p] = shown[p] /\ unread'[p] = <<>>
  /\ where'[p] = "end" /\ where[p] # "print"
EvReads(p) ==
  /\ where[p] = "woken" /\ where'[p] = "print" /\ shown'[p] = shown[p]
  /\ batch'[p] = SubSeq(unread[p], 1, Taken(unread[p]))
  /\ unread'[p] = SubSeq(unread[p], Taken(unread[p]) + 1, Len(unread[p]))
EvPrints(p) ==
  /\ where[p] = "print" /\ where'[p] = "test" /\ unread'[p] = unread[p]
  /\ shown'[p] = shown[p] \o batch[p] /\ batch'[p] = <<>>

EvElsewhere(p) ==
  \A q \in Proc \ {p} :
    /\ where'[q] = where[q] /\ said'[q] = said[q]
    /\ batch'[q] = batch[q] /\ shown'[q] = shown[q] /\ unread'[q] = unread[q]

LEMMA EvMoves ==
  ASSUME EvShapes, NEW p \in Proc, Runs(p) \/ Interrupt(p)
  PROVE  /\ UNCHANGED <<event, gone, unheard>>
         /\ EvElsewhere(p)
         /\ EvKeeps(p) \/ EvEnds(p) \/ EvReads(p) \/ EvPrints(p)
<1> USE DEF EvShapes, EvElsewhere, Goes, Ends, Device
<1>1. CASE OpenDevice(p) \/ CatchSignals(p) \/ CallSelect(p) \/ SelectReturns(p) \/ Ungrab(p)
  BY <1>1 DEF OpenDevice, CatchSignals, CallSelect, SelectReturns, Ungrab, EvKeeps
<1>2. CASE DeviceInfo(p) \/ TestStop(p)
  BY <1>2 DEF DeviceInfo, TestStop, EvKeeps, EvEnds
<1>3. CASE TestGrab(p)
  BY <1>3 DEF TestGrab, EvKeeps
<1>4. CASE ReadEvents(p)
  BY <1>4 DEF ReadEvents, EvEnds, EvReads
<1>5. CASE PrintEvents(p)
  BY <1>5 DEF PrintEvents, EvPrints, Lines
<1>6. CASE Interrupt(p)
  <2>1. CASE where[p] \notin Handling
    <3>1. where[p] # "print"
      BY <2>1, EvPlaces
    <3> QED BY <2>1, <3>1, <1>6 DEF Interrupt, EvEnds
  <2>2. CASE where[p] \in Handling
    <3>1. where[p] # "end"
      BY <2>2, EvPlaces
    <3> QED BY <2>2, <3>1, <1>6 DEF Interrupt, EvKeeps
  <2> QED BY <2>1, <2>2
<1> QED BY <1>1, <1>2, <1>3, <1>4, <1>5, <1>6 DEF Runs

-----------------------------------------------------------------------------
(* The events stay linked. *)

\* Two parts of the sequence put side by side again.
LEMMA EvSplit ==
  ASSUME NEW S, NEW s \in Seq(S), NEW k \in 0 .. Len(s)
  PROVE  /\ SubSeq(s, 1, k) \in Seq(S) /\ Len(SubSeq(s, 1, k)) = k
         /\ SubSeq(s, k + 1, Len(s)) \in Seq(S) /\ Len(SubSeq(s, k + 1, Len(s))) = Len(s) - k
         /\ SubSeq(s, 1, k) \o SubSeq(s, k + 1, Len(s)) = s
<1> DEFINE b == SubSeq(s, 1, k)
           r == SubSeq(s, k + 1, Len(s))
<1>1. \A i \in 1 .. Len(s) : s[i] \in S
  OBVIOUS
<1>2. b \in Seq(S) /\ Len(b) = IF 1 <= k THEN k - 1 + 1 ELSE 0
  BY <1>1, SubSeqProperties
<1>3. r \in Seq(S) /\ Len(r) = IF k + 1 <= Len(s) THEN Len(s) - (k + 1) + 1 ELSE 0
  BY <1>1, SubSeqProperties
<1>4. b \o r = s
  <2>1. 1 \in 1 .. Len(s) + 1 /\ k \in 1 - 1 .. Len(s) /\ Len(s) \in k .. Len(s)
    OBVIOUS
  <2>2. b \o r = SubSeq(s, 1, Len(s))
    BY <2>1, ConcatAdjacentSubSeq
  <2>3. SubSeq(s, 1, Len(s)) = s
    BY SubSeqFull
  <2> QED BY <2>2, <2>3
<1> HIDE DEF b, r
<1>5. Len(b) = k /\ Len(r) = Len(s) - k
  <2>1. Len(s) \in Nat
    OBVIOUS
  <2> QED BY <2>1, <1>2, <1>3
<1> QED BY <1>2, <1>3, <1>4, <1>5 DEF b, r

\* Three parts one behind the other.
InParts(S, x, y, z) ==
  /\ x \o y \in Seq(S) /\ (x \o y) \o z \in Seq(S)
  /\ Len(x \o y) <= Len((x \o y) \o z)
  /\ \A i \in 1 .. Len(x \o y) : (x \o y)[i] = ((x \o y) \o z)[i]
  /\ Len(x) <= Len((x \o y) \o z)
  /\ \A i \in 1 .. Len(x) : x[i] = ((x \o y) \o z)[i]
  /\ y = <<>> => (x \o y) \o z = x \o z

LEMMA ThreeParts ==
  ASSUME NEW S, NEW s \in Seq(S), NEW b \in Seq(S), NEW r \in Seq(S)
  PROVE  InParts(S, s, b, r)
<1> DEFINE t == s \o b
<1>2. /\ t \in Seq(S) /\ Len(t) = Len(s) + Len(b)
      /\ \A i \in 1 .. Len(s) + Len(b) : t[i] = IF i <= Len(s) THEN s[i] ELSE b[i - Len(s)]
  BY ConcatProperties
<1>7. b = <<>> => t = s
  BY ConcatEmptySeq
<1> HIDE DEF t
<1> DEFINE a == t \o r
<1>0. t \in Seq(S)
  BY <1>2
<1>3. /\ a \in Seq(S) /\ Len(a) = Len(t) + Len(r)
      /\ \A i \in 1 .. Len(t) + Len(r) : a[i] = IF i <= Len(t) THEN t[i] ELSE r[i - Len(t)]
  BY <1>0, ConcatProperties
<1> HIDE DEF a
<1>4. Len(s) \in Nat /\ Len(b) \in Nat /\ Len(r) \in Nat
  OBVIOUS
<1>5. Len(t) <= Len(a) /\ \A i \in 1 .. Len(t) : t[i] = a[i]
  BY <1>2, <1>3, <1>4
<1>6. Len(s) <= Len(a) /\ \A i \in 1 .. Len(s) : s[i] = a[i]
  BY <1>2, <1>4, <1>5
<1> QED BY <1>2, <1>3, <1>5, <1>6, <1>7 DEF a, t, InParts

LEMMA EvAllIs ==
  ASSUME EvShapes, NEW p \in Proc
  PROVE  /\ shown[p] \in Seq(Mark(event)) /\ batch[p] \in Seq(Mark(event))
         /\ unread[p] \in Seq(Mark(event)) /\ shown[p] \o batch[p] \in Seq(Mark(event))
         /\ All(p) \in Seq(Mark(event))
         /\ Len(shown[p] \o batch[p]) <= Len(All(p))
         /\ \A i \in 1 .. Len(shown[p] \o batch[p]) : (shown[p] \o batch[p])[i] = All(p)[i]
         /\ Len(shown[p]) <= Len(All(p))
         /\ \A i \in 1 .. Len(shown[p]) : shown[p][i] = All(p)[i]
         /\ batch[p] = <<>> => All(p) = shown[p] \o unread[p]
<1>1. shown[p] \in Seq(Mark(event)) /\ batch[p] \in Seq(Mark(event)) /\ unread[p] \in Seq(Mark(event))
  BY DEF EvShapes
<1> DEFINE x == shown[p]
           y == batch[p]
           z == unread[p]
           S == Mark(event)
<1>2. x \in Seq(S) /\ y \in Seq(S) /\ z \in Seq(S)
  BY <1>1
<1>3. InParts(S, x, y, z)
  <2> HIDE DEF x, y, z, S
  <2> QED BY <1>2, ThreeParts
<1> QED BY <1>1, <1>3, Zenon DEF All, InParts

LEMMA EvKept ==
  ASSUME EvShapes, NEW p \in Proc, EvOf(p), UNCHANGED <<event, unheard>>, EvKeeps(p)
  PROVE  EvOf(p)'
<1>1. All(p)' = All(p)
  BY DEF All, EvKeeps
<1> QED BY <1>1 DEF EvOf, EvKeeps

LEMMA EvEnded ==
  ASSUME EvShapes, NEW p \in Proc, EvOf(p), UNCHANGED <<event, unheard>>, EvEnds(p)
  PROVE  EvOf(p)'
<1>1. batch[p] = <<>> /\ batch'[p] = <<>> /\ unread'[p] = <<>> /\ shown'[p] = shown[p]
  BY DEF EvOf, EvEnds
<1>2. All(p)' = shown[p]
  <2>1. All(p)' = (shown[p] \o <<>>) \o <<>>
    BY <1>1 DEF All
  <2>2. shown[p] \in Seq(Mark(event))
    BY EvAllIs
  <2> QED BY <2>1, <2>2, ConcatEmptySeq
<1>3. Linked(shown[p], unheard[p])
  <2>1. Linked(All(p), unheard[p])
    BY DEF EvOf
  <2> QED BY <2>1, EvAllIs, LinkedPart
<1>4. Len(<<>>) = 0
  OBVIOUS
<1> QED BY <1>1, <1>2, <1>3, <1>4, EvtestAssumption DEF EvOf, EvEnds

LEMMA TakenIs ==
  ASSUME NEW S, NEW q \in Seq(S) PROVE Taken(q) \in 0 .. Len(q) /\ Taken(q) <= BATCH
BY EvtestAssumption DEF Taken

LEMMA EvRead ==
  ASSUME EvShapes, NEW p \in Proc, EvOf(p), UNCHANGED <<event, unheard>>, EvReads(p)
  PROVE  EvOf(p)'
<1> DEFINE r == unread[p]
           k == Taken(r)
           b == SubSeq(r, 1, k)
           u1 == SubSeq(r, k + 1, Len(r))
<1>1. r \in Seq(Mark(event)) /\ shown[p] \in Seq(Mark(event)) /\ batch[p] = <<>>
  BY EvAllIs DEF EvOf, EvReads
<1>2. k \in 0 .. Len(r) /\ k <= BATCH
  BY <1>1, TakenIs
<1>3. /\ b \in Seq(Mark(event)) /\ Len(b) = k
      /\ u1 \in Seq(Mark(event)) /\ Len(u1) = Len(r) - k
      /\ b \o u1 = r
  <2> HIDE DEF r, k
  <2> QED BY <1>1, <1>2, EvSplit
<1>4. batch'[p] = b /\ unread'[p] = u1 /\ shown'[p] = shown[p]
  BY DEF EvReads
<1> HIDE DEF b, u1
<1>5. All(p)' = (shown[p] \o b) \o u1
  BY <1>4 DEF All
<1>6. All(p)' = shown[p] \o r
  <2>1. (shown[p] \o b) \o u1 = shown[p] \o (b \o u1)
    <3> DEFINE x == shown[p]
               S == Mark(event)
    <3>1. x \in Seq(S) /\ b \in Seq(S) /\ u1 \in Seq(S)
      BY <1>1, <1>3
    <3>2. (x \o b) \o u1 = x \o (b \o u1)
      <4> HIDE DEF x, S
      <4> QED BY <3>1, ConcatAssociative
    <3> QED BY <3>2
  <2> QED BY <2>1, <1>3, <1>5
<1>7. All(p)' = All(p)
  BY <1>1, <1>6, EvAllIs
<1>8. Len(u1) <= QUEUE /\ Len(b) <= BATCH
  <2>1. Len(r) <= QUEUE /\ Len(r) \in Nat /\ QUEUE \in Nat
    BY <1>1, EvtestAssumption DEF EvOf
  <2> QED BY <2>1, <1>2, <1>3
<1> QED BY <1>4, <1>7, <1>8 DEF EvOf, EvReads

LEMMA EvPrinted ==
  ASSUME EvShapes, NEW p \in Proc, EvOf(p), UNCHANGED <<event, unheard>>, EvPrints(p)
  PROVE  EvOf(p)'
<1>1. /\ shown'[p] = shown[p] \o batch[p] /\ batch'[p] = <<>> /\ unread'[p] = unread[p]
      /\ where'[p] = "test" /\ where[p] = "print"
  BY DEF EvPrints
<1>2. shown[p] \o batch[p] \in Seq(Mark(event))
  BY EvAllIs
<1>3. All(p)' = All(p)
  <2>1. All(p)' = ((shown[p] \o batch[p]) \o <<>>) \o unread[p]
    BY <1>1 DEF All
  <2> QED BY <2>1, <1>2, ConcatEmptySeq DEF All
<1>4. Len(<<>>) = 0
  OBVIOUS
<1> QED BY <1>1, <1>3, <1>4, EvtestAssumption DEF EvOf

\* A press: the reader that hears it has one event more, or a loss and it.
LEMMA EvPressed ==
  ASSUME EvShapes, Press, NEW p \in Proc, EvOf(p)
  PROVE  /\ unread'[p] \in Seq(Mark(event')) /\ unheard'[p] \in SUBSET (1 .. event')
         /\ EvOf(p)'
<1> DEFINE n == event
           x == shown[p] \o batch[p]
           U == unheard[p]
           q == unread[p]
<1>1. /\ event' = n + 1 /\ n \in Nat
      /\ UNCHANGED <<where, stop, said, batch, shown, holder, gone>>
  BY DEF Press, EvShapes
<1>2. /\ unread'[p] = IF Hears(p) THEN Queued(q, n + 1) ELSE q
      /\ unheard'[p] = IF Hears(p) \/ where[p] = "end" THEN U ELSE U \cup {n + 1}
  BY <1>1 DEF Press
<1>3. /\ q \in Seq(Mark(n)) /\ x \in Seq(Mark(n)) /\ All(p) \in Seq(Mark(n))
      /\ All(p) = x \o q
      /\ Len(x) <= Len(All(p)) /\ \A i \in 1 .. Len(x) : x[i] = All(p)[i]
      /\ U \in SUBSET (1 .. n)
  BY EvAllIs DEF EvShapes, All
<1>4. /\ Linked(All(p), U) /\ Len(q) <= QUEUE /\ Len(q) \in Nat
      /\ where[p] # "end" => UpTo(All(p), U, n)
  BY <1>3 DEF EvOf
<1>5. All(p)' = x \o unread'[p]
  BY <1>1 DEF All
<1>6. ASSUME Linked(All(p)', unheard'[p]), unread'[p] \in Seq(Mark(n + 1)),
             where[p] # "end" => UpTo(All(p)', unheard'[p], n + 1),
             Len(unread'[p]) <= QUEUE, unheard'[p] \in SUBSET (1 .. n + 1)
      PROVE  /\ unread'[p] \in Seq(Mark(event')) /\ unheard'[p] \in SUBSET (1 .. event')
             /\ EvOf(p)'
  BY <1>1, <1>6 DEF EvOf
<1>7. U \in SUBSET (1 .. n + 1) /\ U \cup {n + 1} \in SUBSET (1 .. n + 1)
  BY <1>1, <1>3
<1>8. CASE ~Hears(p)
  <2>1. /\ unread'[p] = q /\ All(p)' = All(p)
        /\ unheard'[p] = IF where[p] = "end" THEN U ELSE U \cup {n + 1}
    BY <1>2, <1>3, <1>5, <1>8
  <2>2. q \in Seq(Mark(n + 1))
    BY <1>1, <1>3, MarkIs, SeqMonotonic
  <2>3. Linked(All(p), U \cup {n + 1})
    BY <1>4, LinkedMore
  <2>4. where[p] # "end" => UpTo(All(p), U \cup {n + 1}, n + 1)
    BY <1>1, <1>3, <1>4, UpToMissed
  <2>5. CASE where[p] = "end"
    BY <1>4, <1>6, <1>7, <2>1, <2>2, <2>5
  <2>6. CASE where[p] # "end"
    BY <1>4, <1>6, <1>7, <2>1, <2>2, <2>3, <2>4, <2>6
  <2> QED BY <2>5, <2>6
<1>9. CASE Hears(p)
  <2>0. where[p] # "end" /\ UpTo(All(p), U, n) /\ unheard'[p] = U
    BY <1>2, <1>4, <1>9, EvPlaces DEF Hears
  <2>1. CASE Len(q) < QUEUE
    <3>1. unread'[p] = Append(q, n + 1)
      BY <1>2, <1>9, <2>1 DEF Queued
    <3>2. q \in Seq(Mark(n + 1)) /\ x \in Seq(Mark(n + 1)) /\ n + 1 \in Mark(n + 1)
      BY <1>1, <1>3, MarkIs, SeqMonotonic
    <3>3. Append(q, n + 1) \in Seq(Mark(n + 1)) /\ Len(Append(q, n + 1)) = Len(q) + 1
      BY <3>2
    <3>4. All(p)' = Append(All(p), n + 1)
      <4> HIDE DEF x, q
      <4>1. x \o Append(q, n + 1) = Append(x \o q, n + 1)
        BY <3>2
      <4> QED BY <4>1, <3>1, <1>3, <1>5
    <3>5. Linked(Append(All(p), n + 1), U) /\ UpTo(Append(All(p), n + 1), U, n + 1)
      BY <1>1, <1>3, <1>4, <2>0, LinkedNext
    <3>6. Len(q) + 1 <= QUEUE
      BY <1>4, <2>1, EvtestAssumption
    <3> QED BY <1>6, <1>7, <2>0, <3>1, <3>3, <3>4, <3>5, <3>6
  <2>2. CASE ~(Len(q) < QUEUE)
    <3>1. unread'[p] = <<DROPPED, n + 1>>
      BY <1>2, <1>9, <2>2 DEF Queued
    <3>2. Linked(x, U)
      BY <1>3, <1>4, LinkedPart
    <3>3. /\ Linked(x \o <<DROPPED, n + 1>>, U)
          /\ UpTo(x \o <<DROPPED, n + 1>>, U, n + 1)
      BY <1>1, <1>3, <3>2, LinkedDrop
    <3>4. <<DROPPED, n + 1>> \in Seq(Mark(n + 1)) /\ Len(<<DROPPED, n + 1>>) = 2
      <4>1. n + 1 \in Nat /\ DROPPED \in Mark(n + 1) /\ n + 1 \in Mark(n + 1)
        <5>1. n + 1 \in Nat
          BY <1>1
        <5> QED BY <1>1, <5>1, MarkIs
      <4> QED BY <4>1
    <3>5. 2 <= QUEUE
      BY EvtestAssumption
    <3>6. All(p)' = x \o <<DROPPED, n + 1>>
      BY <3>1, <1>5
    <3> QED BY <1>6, <1>7, <2>0, <3>1, <3>3, <3>4, <3>5, <3>6
  <2> QED BY <2>1, <2>2
<1> QED BY <1>8, <1>9

-----------------------------------------------------------------------------
(* The variables keep their shapes. *)

LEMMA EvShapesPress ==
  ASSUME EvShapes, \A p \in Proc : EvOf(p), Press PROVE EvShapes'
<1>1. /\ event' = event + 1 /\ event \in Nat
      /\ UNCHANGED <<where, stop, said, batch, shown, holder, gone>>
  BY DEF Press, EvShapes
<1>2. \A p \in Proc : /\ unread'[p] \in Seq(Mark(event')) /\ unheard'[p] \in SUBSET (1 .. event')
  BY EvPressed
<1>3. \E f, g : unread' = [p \in Proc |-> f[p]] /\ unheard' = [p \in Proc |-> g[p]]
  <2>1. /\ unread' = [p \in Proc |-> unread'[p]]
        /\ unheard' = [p \in Proc |-> unheard'[p]]
    BY DEF Press
  <2> QED BY <2>1
<1>4. /\ unread' \in [Proc -> Seq(Mark(event'))]
      /\ unheard' \in [Proc -> SUBSET (1 .. event')]
  BY <1>2, <1>3
<1>5. Mark(event) \subseteq Mark(event')
  BY <1>1, MarkIs
<1>6. shown' \in [Proc -> Seq(Mark(event'))] /\ batch' \in [Proc -> Seq(Mark(event'))]
  <2>1. \A s \in Seq(Mark(event)) : s \in Seq(Mark(event'))
    BY <1>5, SeqMonotonic
  <2> QED BY <1>1, <2>1 DEF EvShapes
<1> QED BY <1>1, <1>4, <1>6 DEF EvShapes

LEMMA EvShapesRuns ==
  ASSUME EvShapes, NEW p \in Proc, Runs(p) \/ Interrupt(p)
  PROVE  EvShapes'
<1>1. event' = event /\ unheard' = unheard
  BY EvMoves
<1>2. where' \in [Proc -> OpenAt \cup {"start", "end"}]
  <2>1. \E b \in OpenAt \cup {"start", "end"} : where' = [where EXCEPT ![p] = b]
    <3>1. where[p] \in OpenAt \cup {"start", "end"} /\ "end" \in OpenAt \cup {"start", "end"}
      BY DEF EvShapes
    <3>2. CASE OpenDevice(p) \/ CatchSignals(p) \/ CallSelect(p) \/ SelectReturns(p) \/ Ungrab(p)
      BY <3>2, EvPlaces DEF OpenDevice, CatchSignals, CallSelect, SelectReturns, Ungrab, Goes
    <3>3. CASE DeviceInfo(p) \/ TestStop(p)
      BY <3>3, EvPlaces DEF DeviceInfo, TestStop, Goes, Ends
    <3>4. CASE TestGrab(p)
      BY <3>4, EvPlaces DEF TestGrab, Goes
    <3>5. CASE ReadEvents(p) \/ PrintEvents(p)
      BY <3>5, EvPlaces DEF ReadEvents, PrintEvents, Goes, Ends
    <3>6. CASE Interrupt(p)
      BY <3>6, <3>1, EvPlaces DEF Interrupt, Goes, Ends
    <3> QED BY <3>2, <3>3, <3>4, <3>5, <3>6 DEF Runs
  <2> QED BY <2>1 DEF EvShapes
<1>3. stop' \in [Proc -> BOOLEAN] /\ said' \in [Proc -> BOOLEAN]
  <2>1. \/ stop' = stop \/ stop' = [stop EXCEPT ![p] = TRUE]
    BY DEF Runs, OpenDevice, CatchSignals, CallSelect, SelectReturns, Ungrab, DeviceInfo, TestStop,
           TestGrab, ReadEvents, PrintEvents, Interrupt
  <2>2. \/ said' = said \/ said' = [said EXCEPT ![p] = ~Ungrabs(p)]
    BY DEF Runs, OpenDevice, CatchSignals, CallSelect, SelectReturns, Ungrab, DeviceInfo, TestStop,
           TestGrab, ReadEvents, PrintEvents, Interrupt
  <2> QED BY <2>1, <2>2 DEF EvShapes
<1>4. /\ \E b : shown' = [shown EXCEPT ![p] = b]
      /\ \E b : batch' = [batch EXCEPT ![p] = b]
      /\ \E b : unread' = [unread EXCEPT ![p] = b]
  <2>1. CASE OpenDevice(p) \/ CatchSignals(p) \/ CallSelect(p) \/ SelectReturns(p) \/ Ungrab(p)
    <3>1. UNCHANGED <<shown, batch, unread>>
      BY <2>1 DEF OpenDevice, CatchSignals, CallSelect, SelectReturns, Ungrab, Device
    <3> QED BY <3>1 DEF EvShapes
  <2>2. CASE DeviceInfo(p) \/ TestStop(p) \/ Interrupt(p)
    <3>1. UNCHANGED <<shown, batch>> /\ (unread' = unread \/ unread' = [unread EXCEPT ![p] = <<>>])
      BY <2>2 DEF DeviceInfo, TestStop, Interrupt, Ends
    <3> QED BY <3>1 DEF EvShapes
  <2>3. CASE TestGrab(p)
    <3>1. UNCHANGED <<shown, batch, unread>>
      BY <2>3 DEF TestGrab, Device
    <3> QED BY <3>1 DEF EvShapes
  <2>4. CASE ReadEvents(p)
    <3>1. UNCHANGED shown
      BY <2>4 DEF ReadEvents
    <3>2. \/ batch' = batch /\ unread' = [unread EXCEPT ![p] = <<>>]
          \/ /\ batch' = [batch EXCEPT ![p] = SubSeq(unread[p], 1, Taken(unread[p]))]
             /\ unread' = [unread EXCEPT ![p] = SubSeq(@, Taken(@) + 1, Len(@))]
      BY <2>4 DEF ReadEvents, Ends
    <3> QED BY <3>1, <3>2 DEF EvShapes
  <2>5. CASE PrintEvents(p)
    <3>1. /\ shown' = [shown EXCEPT ![p] = @ \o Lines(batch[p])]
          /\ batch' = [batch EXCEPT ![p] = <<>>] /\ unread' = unread
      BY <2>5 DEF PrintEvents, Device
    <3> QED BY <3>1 DEF EvShapes
  <2> QED BY <2>1, <2>2, <2>3, <2>4, <2>5 DEF Runs
<1>5. /\ shown'[p] \in Seq(Mark(event)) /\ batch'[p] \in Seq(Mark(event))
      /\ unread'[p] \in Seq(Mark(event))
  <2>1. /\ shown[p] \in Seq(Mark(event)) /\ batch[p] \in Seq(Mark(event))
        /\ unread[p] \in Seq(Mark(event)) /\ shown[p] \o batch[p] \in Seq(Mark(event))
    BY EvAllIs
  <2>4. <<>> \in Seq(Mark(event))
    OBVIOUS
  <2>2. CASE EvKeeps(p) \/ EvEnds(p) \/ EvPrints(p)
    BY <2>1, <2>2, <2>4 DEF EvKeeps, EvEnds, EvPrints
  <2>3. CASE EvReads(p)
    <3> DEFINE r == unread[p]
               k == Taken(r)
               S == Mark(event)
    <3>1. r \in Seq(S)
      BY <2>1
    <3>2. SubSeq(r, 1, k) \in Seq(S) /\ SubSeq(r, k + 1, Len(r)) \in Seq(S)
      <4> HIDE DEF r, S
      <4> QED BY <3>1, TakenIs, EvSplit
    <3> QED BY <2>1, <2>3, <3>2 DEF EvReads
  <2> QED BY <2>2, <2>3, EvMoves
<1>6. /\ shown' \in [Proc -> Seq(Mark(event))] /\ batch' \in [Proc -> Seq(Mark(event))]
      /\ unread' \in [Proc -> Seq(Mark(event))]
  BY <1>4, <1>5 DEF EvShapes
<1> QED BY <1>1, <1>2, <1>3, <1>6 DEF EvShapes

\* The grab and what was said of it.
LEMMA EvHoldRuns ==
  ASSUME EvShapes, EvHold, NEW p \in Proc, Runs(p) \/ Interrupt(p)
  PROVE  EvHold'
<1> DEFINE Told(q) == /\ where'[q] \in Handling \cup {"signal"} /\ q \in Grabs => holder' = q \/ said'[q]
                      /\ holder' = q /\ q \notin Grabs => where'[q] = "ungrab"
                      /\ where'[q] = "ungrab" => q \notin Grabs
<1>1. /\ holder \in Proc \cup {NoProc} /\ p # NoProc
      /\ holder # NoProc => where[holder] \in OpenAt
      /\ where[p] \in Handling \cup {"signal"} /\ p \in Grabs => holder = p \/ said[p]
      /\ holder = p /\ p \notin Grabs => where[p] = "ungrab"
      /\ where[p] = "ungrab" => p \notin Grabs
  BY EvtestAssumption DEF EvHold
<1>2. EvElsewhere(p)
  BY EvMoves
<1>3. ASSUME \/ holder' = holder
             \/ holder' = p /\ holder = NoProc
             \/ holder' = NoProc /\ holder \in {p, NoProc},
             holder' = p => where'[p] \in OpenAt,
             Told(p)
      PROVE  EvHold'
  <2>1. holder' \in Proc \cup {NoProc}
    BY <1>1, <1>3
  <2>2. holder' # NoProc => where'[holder'] \in OpenAt
    BY <1>1, <1>2, <1>3 DEF EvElsewhere
  <2>3. ASSUME NEW q \in Proc \ {p} PROVE Told(q)
    <3>1. where'[q] = where[q] /\ said'[q] = said[q]
      BY <1>2 DEF EvElsewhere
    <3>2. holder' = q <=> holder = q
      BY <1>3, EvtestAssumption
    <3> QED BY <3>1, <3>2 DEF EvHold
  <2> QED BY <1>3, <2>1, <2>2, <2>3 DEF EvHold
<1> HIDE DEF Told
<1>4. CASE OpenDevice(p)
  <2>1. holder' = holder /\ holder # p /\ where'[p] \in {"info", "end"} /\ said' = said
    BY <1>1, <1>4, EvPlaces DEF OpenDevice, Goes, EvShapes
  <2> QED BY <1>3, <2>1, EvPlaces DEF Told
<1>5. CASE DeviceInfo(p)
  <2>1. CASE gone
    <3>1. where'[p] = "end" /\ holder' = IF holder = p THEN NoProc ELSE holder
      BY <1>5, <2>1 DEF DeviceInfo, Ends, Goes, Releases, EvShapes
    <3> QED BY <1>1, <1>3, <3>1, EvPlaces DEF Told
  <2>2. CASE ~gone
    <3>1. where[p] = "info" /\ where'[p] = "grab" /\ holder' = holder
      BY <1>5, <2>2 DEF DeviceInfo, Goes, EvShapes
    <3> QED BY <1>1, <1>3, <3>1, EvPlaces DEF Told
  <2> QED BY <2>1, <2>2
<1>6. CASE TestGrab(p)
  <2>1. CASE holder = NoProc /\ ~gone
    <3>1. /\ holder' = p
          /\ where'[p] = IF Ungrabs(p) THEN "ungrab" ELSE "signal"
      BY <1>6, <2>1 DEF TestGrab, Goes, EvShapes
    <3> QED BY <1>1, <1>3, <2>1, <3>1, EvPlaces DEF Told, Ungrabs
  <2>2. CASE ~(holder = NoProc /\ ~gone)
    <3>1. where[p] = "grab" /\ holder' = holder /\ where'[p] = "signal"
      BY <1>6, <2>2 DEF TestGrab, Goes, EvShapes
    <3>3. p \in Grabs => said'[p]
      BY <1>6, <2>2, Zenon DEF TestGrab, Ungrabs, EvShapes
    <3>2. ~(holder = p /\ p \notin Grabs) /\ (p \in Grabs => said'[p])
      BY <1>1, <3>1, <3>3
    <3> QED BY <1>3, <3>1, <3>2, EvPlaces DEF Told
  <2> QED BY <2>1, <2>2
<1>7. CASE Ungrab(p)
  <2>1. /\ holder' = (IF holder = p THEN NoProc ELSE holder) /\ where'[p] = "signal"
        /\ where[p] = "ungrab" /\ said' = said
    BY <1>7 DEF Ungrab, Goes, Releases, EvShapes
  <2> QED BY <1>1, <1>3, <2>1, EvPlaces DEF Told
<1>8. CASE CatchSignals(p)
  <2>1. /\ where[p] = "signal" /\ where'[p] = "test" /\ holder' = holder /\ said' = said
    BY <1>8 DEF CatchSignals, Goes, EvShapes
  <2> QED BY <1>1, <1>3, <2>1, EvPlaces DEF Told
<1>9. CASE CallSelect(p) \/ SelectReturns(p) \/ PrintEvents(p)
  <2>1. /\ where[p] \in Handling /\ where'[p] \in Handling /\ holder' = holder /\ said' = said
    BY <1>9, EvPlaces DEF CallSelect, SelectReturns, PrintEvents, Goes, EvShapes
  <2> QED BY <1>1, <1>3, <2>1, EvPlaces DEF Told
<1>10. CASE TestStop(p) \/ ReadEvents(p) \/ Interrupt(p)
  <2>1. /\ said' = said
        /\ \/ /\ where'[p] = "end"
              /\ holder' = IF holder = p THEN NoProc ELSE holder
           \/ /\ where[p] \in Handling /\ where'[p] \in Handling
              /\ holder' = holder
    <3>1. CASE TestStop(p)
      BY <3>1, EvPlaces DEF TestStop, Goes, Ends, Releases, EvShapes
    <3>2. CASE ReadEvents(p)
      BY <3>2, EvPlaces DEF ReadEvents, Goes, Ends, Releases, EvShapes
    <3>3. CASE Interrupt(p)
      <4>1. CASE where[p] \notin Handling
        BY <4>1, <3>3, EvPlaces DEF Interrupt, Goes, Ends, Releases, EvShapes
      <4>2. CASE where[p] \in Handling
        BY <4>2, <3>3, EvPlaces DEF Interrupt, Goes, EvShapes
      <4> QED BY <4>1, <4>2
    <3> QED BY <1>10, <3>1, <3>2, <3>3
  <2>2. CASE where'[p] = "end"
    <3>1. holder' = (IF holder = p THEN NoProc ELSE holder)
      BY <2>1, <2>2, EvPlaces
    <3> QED BY <1>1, <1>3, <2>2, <3>1, EvPlaces DEF Told
  <2>3. CASE where[p] \in Handling /\ where'[p] \in Handling /\ holder' = holder
    BY <1>1, <1>3, <2>1, <2>3, EvPlaces DEF Told
  <2> QED BY <2>1, <2>2, <2>3
<1> QED BY <1>4, <1>5, <1>6, <1>7, <1>8, <1>9, <1>10 DEF Runs

LEMMA EvInvNext == EvInv /\ [EvNext]_evVars => EvInv'
<1> SUFFICES ASSUME EvInv, [EvNext]_evVars PROVE EvInv'
  OBVIOUS
<1>1. CASE UNCHANGED evVars \/ Unplug
  <2>1. UNCHANGED <<where, stop, said, batch, shown, holder, unread, event, unheard>>
    BY <1>1 DEF evVars, Unplug
  <2> QED BY <2>1 DEF EvInv, EvShapes, EvOf, EvHold, All
<1>2. CASE Press
  <2>1. EvShapes'
    BY <1>2, EvShapesPress DEF EvInv
  <2>2. \A p \in Proc : EvOf(p)'
    BY <1>2, EvPressed DEF EvInv
  <2>3. UNCHANGED <<where, said, holder>>
    BY <1>2 DEF Press
  <2>4. EvHold'
    BY <2>3 DEF EvInv, EvHold
  <2> QED BY <2>1, <2>2, <2>4 DEF EvInv
<1>3. ASSUME NEW p \in Proc, Runs(p) \/ Interrupt(p) PROVE EvInv'
  <2>1. /\ UNCHANGED <<event, gone, unheard>> /\ EvElsewhere(p)
        /\ EvKeeps(p) \/ EvEnds(p) \/ EvReads(p) \/ EvPrints(p)
    BY <1>3, EvMoves DEF EvInv
  <2>2. EvOf(p)'
    BY <2>1, EvKept, EvEnded, EvRead, EvPrinted DEF EvInv
  <2>3. ASSUME NEW q \in Proc \ {p} PROVE EvOf(q)'
    <3>1. EvKeeps(q)
      BY <2>1 DEF EvElsewhere, EvKeeps
    <3> QED BY <2>1, <3>1, EvKept DEF EvInv
  <2>4. EvShapes' /\ EvHold'
    BY <1>3, EvShapesRuns, EvHoldRuns DEF EvInv
  <2> QED BY <2>2, <2>3, <2>4 DEF EvInv
<1> QED BY <1>1, <1>2, <1>3 DEF EvNext

LEMMA EvSound == EvInv => EvTypeOK /\ PrintedExplained /\ GrabbedOrTold
<1> SUFFICES ASSUME EvInv PROVE EvTypeOK /\ PrintedExplained /\ GrabbedOrTold
  OBVIOUS
<1>1. \A p \in Proc : /\ Len(unread[p]) <= QUEUE /\ Len(batch[p]) <= BATCH
                      /\ where[p] # "print" => batch[p] = <<>>
                      /\ unheard[p] \subseteq 1 .. event
  BY DEF EvInv, EvOf, EvShapes
<1>2. EvTypeOK
  BY <1>1 DEF EvInv, EvTypeOK, EvShapes, EvHold
<1>3. GrabbedOrTold
  BY DEF EvInv, EvHold, GrabbedOrTold
<1>4. ASSUME NEW p \in Proc, NEW i \in DOMAIN shown[p]
      PROVE  LET a == IF i = 1 THEN 0 ELSE shown[p][i - 1]   b == shown[p][i] IN
             DROPPED \notin {a, b} => a < b /\ (a + 1) .. (b - 1) \subseteq unheard[p]
  <2>0. EvShapes
    BY DEF EvInv
  <2>4. shown[p] \in Seq(Mark(event))
    BY <2>0 DEF EvShapes
  <2>1. i \in 1 .. Len(shown[p])
    BY <2>4
  <2>2. Linked(shown[p], unheard[p])
    <3>1. Linked(All(p), unheard[p])
      BY DEF EvInv, EvOf
    <3> QED BY <2>0, <2>4, <3>1, EvAllIs, LinkedPart
  <2>3. LinkAt(shown[p], unheard[p], i)
    BY <2>1, <2>2 DEF Linked
  <2> QED BY <2>3 DEF LinkAt, Before
<1>5. PrintedExplained
  BY <1>4 DEF PrintedExplained
<1> QED BY <1>2, <1>3, <1>5

-----------------------------------------------------------------------------
(* The UDP samples (UdpSamples) *)

\* What the receiver may print.
Allowed(d) == /\ d.to = "group" => pair = "mcast"
              /\ d.to = "other group" => joined /\ addr = "any"

UdpShapes ==
  /\ pair \in Pair /\ addr \in {"any", "one"} /\ joined \in BOOLEAN
  /\ rx \in {"setup", "loop", "tested", "receiving", "exited"}
  /\ tx \in {"setup", "sending", "exited"}
  /\ rxAt \in 1..(Len(Receiver(pair).steps) + 1)
  /\ txAt \in 1..(Len(Sender(pair)) + 1)
  /\ rx = "setup" => rxAt <= Len(Receiver(pair).steps)
  /\ tx = "setup" => txAt <= Len(Sender(pair))
  /\ typed \in 0..MaxLines /\ foreign \in 0..MaxForeign /\ line \in Nat
  /\ running \in BOOLEAN

UdpTraffic ==
  /\ net \subseteq Datagram /\ printed \subseteq Datagram /\ queue \in Seq(Datagram)
  /\ \A d \in printed : Allowed(d)
  /\ \A i \in 1 .. Len(queue) : Allowed(queue[i])
  /\ zeroAt \in 0 .. Receiver(pair).length

UdpInv == UdpShapes /\ UdpTraffic

LEMMA UdpPrograms ==
  ASSUME pair \in Pair
  PROVE  /\ Len(Receiver(pair).steps) \in Nat \ {0} /\ Len(Sender(pair)) \in Nat \ {0}
         /\ Receiver(pair).length \in Nat /\ Receiver(pair).size \in Nat
         /\ Receiver(pair).length < Receiver(pair).size
              \/ (pair = "simple" /\ Receiver(pair).length = 128 /\ Receiver(pair).size = 128)
<1>1. CASE pair = "simple"
  <2>1. Receiver(pair) = SimpleServer /\ Sender(pair) = SimpleClient
    BY <1>1 DEF Receiver, Sender
  <2>2. Receiver(pair).length = 128 /\ Receiver(pair).size = 128
    BY <2>1 DEF SimpleServer
  <2>3. Len(Receiver(pair).steps) = 3 /\ Len(Sender(pair)) = 2
    BY <2>1 DEF SimpleServer, SimpleClient
  <2> QED BY <1>1, <2>2, <2>3
<1>2. CASE pair = "broadcast"
  <2>1. Receiver(pair) = BroadcastServer /\ Sender(pair) = BroadcastClient
    BY <1>2 DEF Receiver, Sender
  <2> QED BY <2>1 DEF BroadcastServer, BroadcastClient
<1>3. CASE pair = "mcast"
  <2>1. Receiver(pair) = McastServer /\ Sender(pair) = McastClient
    BY <1>3 DEF Receiver, Sender
  <2> QED BY <2>1 DEF McastServer, McastClient
<1> QED BY <1>1, <1>2, <1>3 DEF Pair

\* Only the multicast receiver joins a group.
LEMMA OnlyMcastJoins == ASSUME UdpShapes, Done("join") PROVE pair = "mcast"
<1>1. PICK i \in 1 .. (rxAt - 1) : Receiver(pair).steps[i] = "join"
  BY DEF Done
<1>2. i \in 1 .. Len(Receiver(pair).steps)
  BY <1>1, UdpPrograms DEF UdpShapes
<1>3. CASE pair = "simple"
  <2>1. Receiver(pair) = SimpleServer
    BY <1>3 DEF Receiver
  <2> QED BY <1>1, <1>2, <2>1 DEF SimpleServer
<1>4. CASE pair = "broadcast"
  <2>1. Receiver(pair) = BroadcastServer
    BY <1>4 DEF Receiver
  <2> QED BY <1>1, <1>2, <2>1 DEF BroadcastServer
<1> QED BY <1>3, <1>4 DEF Pair, UdpShapes

LEMMA UdpInvInit == UdpInit => UdpInv
<1> SUFFICES ASSUME UdpInit PROVE UdpInv
  OBVIOUS
<1>1. pair \in Pair /\ addr \in {"any", "one"}
  BY DEF UdpInit
<1>2. joined \in BOOLEAN /\ running \in BOOLEAN
  BY Zenon DEF UdpInit
<1>3. /\ Len(Receiver(pair).steps) \in Nat \ {0} /\ Len(Sender(pair)) \in Nat \ {0}
      /\ Receiver(pair).length \in Nat
  BY <1>1, UdpPrograms
<1>4. UdpShapes
  BY <1>1, <1>2, <1>3, UdpAssumption DEF UdpInit, UdpShapes
<1>5. UdpTraffic
  BY <1>3 DEF UdpInit, UdpTraffic
<1> QED BY <1>4, <1>5 DEF UdpInv

UdpSetting == <<pair, addr, joined>>

LEMMA UdpShapesNext == ASSUME UdpInv, UdpNext PROVE UdpShapes' /\ UNCHANGED UdpSetting
<1>0. /\ UdpShapes /\ UdpTraffic
      /\ Len(Receiver(pair).steps) \in Nat \ {0} /\ Len(Sender(pair)) \in Nat \ {0}
  BY UdpPrograms DEF UdpInv, UdpShapes
<1>1. UNCHANGED UdpSetting
  BY DEF UdpNext, Setup, SigInt, Loop, Recvfrom, Receive, Timeout, SendSetup, SendOnce, Type,
         SendPiece, Foreign, Deliver, Lose, UdpSetting
<1>2. Receiver(pair)' = Receiver(pair) /\ Sender(pair)' = Sender(pair) /\ pair' = pair /\ addr' = addr
  BY <1>1 DEF UdpSetting, Receiver, Sender
<1>3. joined' \in BOOLEAN /\ running' \in BOOLEAN
  <2>1. joined' \in BOOLEAN
    BY <1>0, <1>1, Zenon DEF UdpSetting, UdpShapes
  <2>2. running' = running \/ running' = FALSE
    BY Zenon DEF UdpNext, Setup, SigInt, Loop, Recvfrom, Receive, Timeout, SendSetup, SendOnce, Type,
           SendPiece, Foreign, Deliver, Lose
  <2> QED BY <1>0, <2>1, <2>2, Zenon DEF UdpShapes
<1> USE <1>0, <1>2, <1>3 DEF UdpShapes
<1>4. CASE Setup \/ SigInt \/ Loop \/ Recvfrom \/ Receive \/ Timeout
  <2>1. /\ UNCHANGED <<tx, txAt, line, typed, foreign>>
        /\ rx' \in {"setup", "loop", "tested", "receiving", "exited"}
        /\ \/ rxAt' = rxAt /\ (rx' = "setup" => rx = "setup")
           \/ /\ rx = "setup" /\ rxAt' = rxAt + 1
              /\ rx' = IF rxAt = Len(Receiver(pair).steps) THEN "loop" ELSE "setup"
    BY <1>4 DEF Setup, SigInt, Loop, Recvfrom, Receive, Timeout
  <2> QED BY <1>1, <2>1
<1>5. CASE SendSetup
  BY <1>1, <1>5 DEF SendSetup
<1>6. CASE SendOnce \/ Foreign \/ Deliver \/ Lose
  <2>1. UNCHANGED <<rx, rxAt, txAt, line, typed>> /\ tx' \in {tx, "exited"}
    BY <1>6 DEF SendOnce, Foreign, Deliver, Lose
  <2>2. foreign' = foreign \/ (foreign < MaxForeign /\ foreign' = foreign + 1)
    BY <1>6 DEF SendOnce, Foreign, Deliver, Lose
  <2>3. foreign' \in 0 .. MaxForeign
    BY <2>2, UdpAssumption
  <2> QED BY <1>1, <2>1, <2>3
<1>7. CASE Type
  <2>1. UNCHANGED <<rx, rxAt, txAt, foreign>> /\ tx' \in {tx, "exited"}
    BY <1>7 DEF Type
  <2>2. \/ typed' = typed /\ line' = line
        \/ typed < MaxLines /\ typed' = typed + 1 /\ line' \in LineLen
    BY <1>7 DEF Type
  <2>4. typed' \in 0 .. MaxLines
    BY <2>2, UdpAssumption
  <2>5. line' \in Nat
    BY <2>2, UdpAssumption
  <2>3. typed' \in 0 .. MaxLines /\ line' \in Nat
    BY <2>4, <2>5
  <2> QED BY <1>1, <2>1, <2>3
<1>8. CASE SendPiece
  <2>1. /\ UNCHANGED <<rx, rxAt, tx, txAt, foreign, typed>> /\ line' \in Nat
    BY <1>8 DEF SendPiece, FGETS_MAX
  <2> QED BY <1>1, <2>1
<1> QED BY <1>4, <1>5, <1>6, <1>7, <1>8 DEF UdpNext

LEMMA UdpTrafficNext == ASSUME UdpInv, UdpNext PROVE UdpTraffic'
<1>0. UdpShapes /\ UdpTraffic /\ Receiver(pair).length \in Nat
  BY UdpPrograms DEF UdpInv, UdpShapes
<1>1. UNCHANGED UdpSetting
  BY UdpShapesNext
<1>2. Receiver(pair)' = Receiver(pair) /\ pair' = pair /\ addr' = addr /\ joined' = joined
  BY <1>1 DEF UdpSetting, Receiver
<1>3. ASSUME NEW d PROVE Allowed(d)' <=> Allowed(d)
  BY <1>2 DEF Allowed
<1>4. CASE Receive
  <2>1. queue # <<>> /\ queue' = Tail(queue) /\ net' = net
    BY <1>4 DEF Receive
  <2> DEFINE d == Head(queue)
             n == IF d.len < Receiver(pair).length THEN d.len ELSE Receiver(pair).length
  <2>2. zeroAt' = n /\ printed' = printed \cup {[d EXCEPT !.len = n]}
    BY <1>4 DEF Receive
  <2>3. d = queue[1] /\ 1 \in 1 .. Len(queue) /\ d \in Datagram
    BY <1>0, <2>1 DEF UdpTraffic
  <2>4. d.len \in Nat
    BY <2>3 DEF Datagram
  <2>5. n \in 0 .. Receiver(pair).length
    BY <1>0, <2>4
  <2>13. n \in Nat
    BY <1>0, <2>5
  <2> HIDE DEF n, d
  <2>6. [d EXCEPT !.len = n] \in Datagram /\ [d EXCEPT !.len = n].to = d.to
    BY <2>3, <2>13 DEF Datagram
  <2>7. Allowed(d)
    BY <1>0, <2>3 DEF UdpTraffic
  <2>8. Allowed([d EXCEPT !.len = n])
    BY <2>6, <2>7 DEF Allowed
  <2>9. /\ queue' \in Seq(Datagram) /\ Len(queue') = Len(queue) - 1
        /\ \A i \in 1 .. Len(queue') : queue'[i] = queue[i + 1]
    BY <1>0, <2>1 DEF UdpTraffic
  <2>10. \A i \in 1 .. Len(queue') : Allowed(queue'[i])
    BY <1>0, <2>9 DEF UdpTraffic
  <2>11. printed' \subseteq Datagram /\ \A e \in printed' : Allowed(e)
    BY <1>0, <2>2, <2>6, <2>8 DEF UdpTraffic
  <2>12. net' \subseteq Datagram
    BY <1>0, <2>1 DEF UdpTraffic
  <2> QED BY <1>2, <1>3, <2>2, <2>5, <2>9, <2>10, <2>11, <2>12 DEF UdpTraffic
<1>5. ASSUME printed' = printed, zeroAt' = zeroAt, queue' = queue, net' \subseteq Datagram
      PROVE  UdpTraffic'
  BY <1>0, <1>2, <1>3, <1>5 DEF UdpTraffic
<1>6. CASE Setup \/ SigInt \/ Loop \/ Recvfrom \/ Timeout \/ SendSetup \/ Type
  <2>1. UNCHANGED <<printed, zeroAt, queue, net>>
    BY <1>6 DEF Setup, SigInt, Loop, Recvfrom, Timeout, SendSetup, Type
  <2> QED BY <1>0, <1>5, <2>1 DEF UdpTraffic
<1>7. CASE SendOnce \/ SendPiece \/ Foreign
  <2>1. ASSUME NEW n \in Nat PROVE OwnDatagram(n) \in Datagram
    <3>1. Target \in {"host", "broadcast", "group"}
      BY <1>0 DEF Target, UdpShapes, Pair
    <3> QED BY <3>1 DEF OwnDatagram, Datagram
  <2>2. net' \subseteq Datagram
    <3>1. CASE SendOnce
      BY <1>0, <2>1, <3>1 DEF SendOnce, Greeting, UdpTraffic
    <3>2. CASE SendPiece
      <4>1. PICK n \in Nat : net' \in {net, net \cup {OwnDatagram(n)}}
        BY <1>0, <3>2 DEF SendPiece, FGETS_MAX, UdpShapes
      <4> QED BY <1>0, <2>1, <4>1 DEF UdpTraffic
    <3>3. CASE Foreign
      <4>1. PICK n \in ForeignLen, to \in {"host", "broadcast", "group", "other group"} :
              net' = net \cup {[len |-> n, to |-> to, by |-> "foreign"]}
        BY <3>3 DEF Foreign
      <4>2. [len |-> n, to |-> to, by |-> "foreign"] \in Datagram
        BY UdpAssumption DEF Datagram
      <4> QED BY <1>0, <4>1, <4>2 DEF UdpTraffic
    <3> QED BY <1>7, <3>1, <3>2, <3>3
  <2>3. UNCHANGED <<printed, zeroAt, queue>>
    BY <1>7 DEF SendOnce, SendPiece, Foreign
  <2> QED BY <1>5, <2>2, <2>3
<1>8. CASE Lose
  <2>1. UNCHANGED <<printed, zeroAt, queue>> /\ net' \subseteq net
    BY <1>8 DEF Lose
  <2> QED BY <1>0, <1>5, <2>1 DEF UdpTraffic
<1>9. CASE Deliver
  <2>1. PICK d \in net :
          /\ net' = net \ {d}
          /\ queue' = IF Done("bind") /\ rx # "exited" /\ Reaches(d) THEN Append(queue, d) ELSE queue
          /\ UNCHANGED <<printed, zeroAt>>
    BY <1>9 DEF Deliver
  <2>2. net' \subseteq Datagram /\ d \in Datagram
    BY <1>0, <2>1 DEF UdpTraffic
  <2>3. CASE queue' = queue
    BY <1>5, <2>1, <2>2, <2>3
  <2>4. CASE Reaches(d) /\ queue' = Append(queue, d)
    <3>1. Allowed(d)
      <4>1. d.to = "group" => Done("join")
        BY <2>4 DEF Reaches
      <4>2. d.to = "other group" => addr = "any" /\ joined
        BY <2>4 DEF Reaches
      <4> QED BY <1>0, <4>1, <4>2, OnlyMcastJoins DEF Allowed
    <3>2. /\ queue' \in Seq(Datagram) /\ Len(queue') = Len(queue) + 1
          /\ queue'[Len(queue) + 1] = d /\ Len(queue) \in Nat
          /\ \A i \in 1 .. Len(queue) : queue'[i] = queue[i]
      BY <1>0, <2>2, <2>4 DEF UdpTraffic
    <3>3. ASSUME NEW i \in 1 .. Len(queue') PROVE Allowed(queue'[i])
      <4>1. CASE i = Len(queue) + 1
        BY <3>1, <3>2, <4>1
      <4>2. CASE i \in 1 .. Len(queue)
        <5>1. Allowed(queue[i])
          BY <1>0, <4>2 DEF UdpTraffic
        <5> QED BY <3>2, <4>2, <5>1
      <4> QED BY <3>2, <4>1, <4>2
    <3>4. \A i \in 1 .. Len(queue') : Allowed(queue[i])' <=> Allowed(queue'[i])
      BY <1>2 DEF Allowed
    <3> QED BY <1>0, <1>2, <1>3, <2>1, <2>2, <3>2, <3>3, <3>4 DEF UdpTraffic
  <2> QED BY <2>1, <2>3, <2>4
<1> QED BY <1>4, <1>6, <1>7, <1>8, <1>9 DEF UdpNext

LEMMA UdpInvNext == UdpInv /\ [UdpNext]_udpVars => UdpInv'
<1> SUFFICES ASSUME UdpInv, [UdpNext]_udpVars PROVE UdpInv'
  OBVIOUS
<1>1. CASE UNCHANGED udpVars
  BY <1>1 DEF udpVars, UdpInv, UdpShapes, UdpTraffic, Allowed
<1>2. CASE UdpNext
  BY <1>2, UdpShapesNext, UdpTrafficNext DEF UdpInv
<1> QED BY <1>1, <1>2

LEMMA UdpSound == UdpInv => UdpTypeOK /\ TerminatorInside /\ OthersTrafficExplained
<1> SUFFICES ASSUME UdpInv PROVE UdpTypeOK /\ TerminatorInside /\ OthersTrafficExplained
  OBVIOUS
<1>1. UdpTypeOK
  BY DEF UdpInv, UdpShapes, UdpTraffic, UdpTypeOK
<1>2. TerminatorInside
  <2>1. pair \in Pair /\ zeroAt \in 0 .. Receiver(pair).length
    BY DEF UdpInv, UdpShapes, UdpTraffic
  <2>2. CASE Receiver(pair).length < Receiver(pair).size
    <3>1. Receiver(pair).size \in Nat /\ Receiver(pair).length \in Nat
      BY <2>1, UdpPrograms
    <3> QED BY <2>1, <2>2, <3>1 DEF TerminatorInside
  <2>3. CASE pair = "simple" /\ Receiver(pair).length = 128 /\ Receiver(pair).size = 128
    BY <2>1, <2>3 DEF TerminatorInside
  <2> QED BY <2>1, <2>2, <2>3, UdpPrograms
<1>3. OthersTrafficExplained
  BY DEF UdpInv, UdpTraffic, Allowed, OthersTrafficExplained
<1> QED BY <1>1, <1>2, <1>3

-----------------------------------------------------------------------------
(* The tracing hooks (TraceHooks) *)

\* What the hook of a call still has to add to the depth.
Pending(h) ==
  IF h.kind = "enter" /\ h.pc \in {"test", "set", "print", "count"} THEN -1
  ELSE IF h.kind = "exit" /\ h.pc \in {"test", "set", "count"} THEN 1 ELSE 0

\* The calls of a thread the depth counts.
Counted == [t \in Task |-> nest[t] + Pending(hook[t])]

HookForm(t) ==
  /\ hook[t].pc = "out" => hook[t] = NoHook
  /\ hook[t].kind = "none" => hook[t] = NoHook
  /\ hook[t].pc = "clamp" => hook[t].kind = "exit"
  /\ hook[t].kind = "enter" => nest[t] > 0

TraceForms ==
  /\ TraceTypeOK /\ raced \in BOOLEAN /\ skipped \in BOOLEAN
  /\ \A t \in Task : HookForm(t)

\* While no two hooks have met, one thread at most is between the set and the clear
\* of the guard, and what it read of the depth is the depth.
OneCounts ==
  ~raced => /\ \A t, u \in Task : Guarded(t) /\ Guarded(u) => t = u
            /\ \A t \in Task : hook[t].pc = "count" => hook[t].got = depth
            /\ depth < 0 => \E t \in Task : hook[t].pc = "clamp"

TraceInv ==
  /\ TraceForms /\ OneCounts
  /\ in_trace = 1 => \E t \in Task : Guarded(t)
  /\ ~raced /\ ~skipped => depth = Sum(Counted, Task)

LEMMA SumOfNats ==
  ASSUME NEW S, IsFiniteSet(S), NEW r, \A x \in S : r[x] \in Nat
  PROVE  Sum(r, S) \in Nat
<1>1. PICK g : SumFn(g, r, S) /\ Sum(r, S) = g[S]
  BY SumIs
<1> DEFINE Bad == {n \in Nat : \E s \in SUBSET S : Cardinality(s) = n /\ g[s] \notin Nat}
<1>0. \A s \in SUBSET S : IsFiniteSet(s) /\ Cardinality(s) \in Nat
  BY FS_Subset, FS_CardinalityType
<1>2. Bad = {}
  <2> SUFFICES ASSUME Bad # {} PROVE FALSE
    OBVIOUS
  <2>1. PICK n \in Bad : \A m \in Bad : n <= m
    BY LeastNumber
  <2>0. n \in Nat
    OBVIOUS
  <2>2. PICK s \in SUBSET S : Cardinality(s) = n /\ g[s] \notin Nat
    OBVIOUS
  <2>3. g[s] = SumStep(g, r, s)
    BY <1>1 DEF SumFn
  <2>4. s # {}
    BY <2>2, <2>3 DEF SumStep
  <2>5. Chosen(s) \in s /\ Cardinality(s \ {Chosen(s)}) = n - 1 /\ n - 1 \in Nat /\ s \ {Chosen(s)} \in SUBSET S
    BY <1>0, <2>2, <2>4, Rest
  <2>6. g[s \ {Chosen(s)}] \in Nat
    <3>1. n - 1 \notin Bad
      <4> HIDE DEF Bad
      <4> QED BY <2>0, <2>1
    <3> QED BY <2>5, <3>1
  <2> QED BY <2>2, <2>3, <2>4, <2>5, <2>6 DEF SumStep
<1> QED BY <1>0, <1>1, <1>2

LEMMA TraceInvInit == TraceInit => TraceInv
<1> SUFFICES ASSUME TraceInit PROVE TraceInv
  OBVIOUS
<1>1. \A t \in Task : hook[t] = NoHook /\ nest[t] = 0
  BY DEF TraceInit
<1>2. raced = FALSE /\ skipped = FALSE /\ in_trace = 0 /\ depth = 0
  BY DEF TraceInit
<1>3. TraceTypeOK
  BY TraceAssumption DEF TraceInit, TraceTypeOK, NoHook
<1>4. TraceForms
  <2>1. raced \in BOOLEAN /\ skipped \in BOOLEAN
    BY <1>2, Zenon
  <2>2. ASSUME NEW t \in Task PROVE HookForm(t)
    BY <1>1 DEF HookForm, NoHook
  <2> QED BY <1>3, <2>1, <2>2 DEF TraceForms
<1>5. OneCounts
  BY <1>1, <1>2 DEF OneCounts, Guarded, NoHook
<1>6. \A t \in Task : Counted[t] = 0
  BY <1>1 DEF Counted, Pending, NoHook
<1>7. Sum(Counted, Task) = 0
  BY <1>6, SumOfZeros, TraceAssumption
<1> QED BY <1>2, <1>4, <1>5, <1>7 DEF TraceInv

\* What a step of a thread does to the hooks: one place is changed.
HookStep(t) ==
  \/ Call(t) \/ TestGuard(t) \/ SetGuard(t) \/ PrintLine(t) \/ EnterCount(t)
  \/ ExitCount(t) \/ Clamp(t) \/ ClearGuard(t)

HookKind == {"none", "enter", "exit"}
HookPc == {"out", "test", "set", "print", "count", "clamp", "clear"}

LEMMA HookMoves ==
  ASSUME TraceForms, NEW t \in Task, HookStep(t)
  PROVE  /\ \A u \in Task : u # t => hook'[u] = hook[u] /\ nest'[u] = nest[u]
         /\ hook'[t] \in [kind : HookKind, pc : HookPc, got : Int]
         /\ nest'[t] \in 0 .. MaxNest
         /\ HookForm(t)'
         /\ hook' \in [Task -> [kind : HookKind, pc : HookPc, got : Int]]
         /\ nest' \in [Task -> 0 .. MaxNest]
         /\ depth' \in Int /\ in_trace' \in 0 .. 1 /\ hooks' \in 0 .. MaxHooks
<1>0. /\ hook \in [Task -> [kind : HookKind, pc : HookPc, got : Int]] /\ nest \in [Task -> 0 .. MaxNest]
      /\ hook[t] \in [kind : HookKind, pc : HookPc, got : Int] /\ nest[t] \in 0 .. MaxNest
      /\ depth \in Int /\ in_trace \in 0 .. 1 /\ hooks \in 0 .. MaxHooks /\ HookForm(t)
      /\ MaxNest \in Nat /\ MaxHooks \in Nat
  BY TraceAssumption DEF TraceForms, TraceTypeOK, HookKind, HookPc
<1>1. PICK h : hook' = [hook EXCEPT ![t] = h] /\ h \in [kind : HookKind, pc : HookPc, got : Int]
  <2>1. CASE Call(t)
    <3>1. PICK way \in {"enter", "exit"} : hook' = [hook EXCEPT ![t] = [NoHook EXCEPT !.kind = way, !.pc = "test"]]
      BY <2>1 DEF Call
    <3>2. [NoHook EXCEPT !.kind = way, !.pc = "test"] \in [kind : HookKind, pc : HookPc, got : Int]
      <4>1. NoHook \in [kind : HookKind, pc : HookPc, got : Int]
        BY DEF NoHook, HookKind, HookPc
      <4>2. way \in HookKind /\ "test" \in HookPc
        BY DEF HookKind, HookPc
      <4> QED BY <4>1, <4>2
    <3> QED BY <3>1, <3>2
  <2>2. CASE TestGuard(t) \/ ClearGuard(t)
    BY <1>0, <2>2 DEF TestGuard, ClearGuard, NoHook, HookKind, HookPc
  <2>3. CASE SetGuard(t) \/ PrintLine(t)
    BY <1>0, <2>3 DEF SetGuard, PrintLine, HookKind, HookPc
  <2>4. CASE EnterCount(t) \/ ExitCount(t) \/ Clamp(t)
    BY <1>0, <2>4 DEF EnterCount, ExitCount, Clamp, HookKind, HookPc
  <2> QED BY <2>1, <2>2, <2>3, <2>4 DEF HookStep
<1>2. /\ hook'[t] = h /\ hook' \in [Task -> [kind : HookKind, pc : HookPc, got : Int]]
      /\ \A u \in Task : u # t => hook'[u] = hook[u]
  BY <1>0, <1>1
<1>3. /\ nest'[t] \in 0 .. MaxNest /\ nest' \in [Task -> 0 .. MaxNest]
      /\ \A u \in Task : u # t => nest'[u] = nest[u]
  <2>1. CASE Call(t)
    BY <1>0, <2>1 DEF Call
  <2>2. CASE nest' = nest
    BY <1>0, <2>2
  <2> QED BY <2>1, <2>2 DEF HookStep, TestGuard, SetGuard, PrintLine, EnterCount, ExitCount, Clamp, ClearGuard
<1>4. depth' \in Int
  BY <1>0 DEF HookStep, Call, TestGuard, SetGuard, PrintLine, EnterCount, ExitCount, Clamp, ClearGuard, Clamped
<1>5. in_trace' \in 0 .. 1
  BY <1>0 DEF HookStep, Call, TestGuard, SetGuard, PrintLine, EnterCount, ExitCount, Clamp, ClearGuard
<1>6. hooks' \in 0 .. MaxHooks
  BY <1>0 DEF HookStep, Call, TestGuard, SetGuard, PrintLine, EnterCount, ExitCount, Clamp, ClearGuard
<1>7. HookForm(t)'
  <2>1. CASE Call(t)
    <3>1. PICK way \in {"enter", "exit"} :
            /\ hook'[t] = [NoHook EXCEPT !.kind = way, !.pc = "test"]
            /\ nest'[t] = nest[t] + (IF way = "enter" THEN 1 ELSE -1)
      BY <1>0, <2>1 DEF Call
    <3>2. hook'[t].kind = way /\ hook'[t].pc = "test"
      BY <3>1 DEF NoHook
    <3>3. way = "enter" => nest'[t] > 0
      BY <1>0, <3>1
    <3> QED BY <3>2, <3>3 DEF HookForm
  <2>2. CASE TestGuard(t) \/ ClearGuard(t)
    <3>1. nest'[t] = nest[t]
      BY <2>2 DEF TestGuard, ClearGuard
    <3>2. hook'[t] = NoHook \/ (hook'[t].pc = "set" /\ hook'[t].kind = hook[t].kind /\ hook[t].pc = "test")
      BY <1>0, <2>2 DEF TestGuard, ClearGuard
    <3> QED BY <1>0, <3>1, <3>2 DEF HookForm, NoHook
  <2>3. CASE SetGuard(t) \/ PrintLine(t) \/ EnterCount(t) \/ ExitCount(t) \/ Clamp(t)
    <3>1. nest'[t] = nest[t]
      BY <2>3 DEF SetGuard, PrintLine, EnterCount, ExitCount, Clamp
    <3>2. /\ hook'[t].kind = hook[t].kind /\ hook'[t].pc # "out" /\ hook[t].pc # "out"
          /\ hook'[t].pc = "clamp" => hook[t].kind = "exit"
      BY <1>0, <2>3 DEF SetGuard, PrintLine, EnterCount, ExitCount, Clamp
    <3>3. hook[t].kind # "none"
      BY <1>0, <3>2 DEF HookForm, NoHook
    <3> QED BY <1>0, <3>1, <3>2, <3>3 DEF HookForm
  <2> QED BY <2>1, <2>2, <2>3 DEF HookStep
<1> QED BY <1>1, <1>2, <1>3, <1>4, <1>5, <1>6, <1>7

LEMMA TraceGuards ==
  ASSUME TraceInv, NEW t \in Task, HookStep(t)
  PROVE  OneCounts' /\ (in_trace' = 1 => \E u \in Task : Guarded(u)')
<1>0. /\ TraceForms /\ OneCounts /\ depth \in Int
      /\ hook \in [Task -> [kind : HookKind, pc : HookPc, got : Int]]
      /\ in_trace = 1 => \E u \in Task : Guarded(u)
  BY DEF TraceInv, TraceForms, TraceTypeOK, HookKind, HookPc
<1>1. \A u \in Task : u # t => hook'[u] = hook[u] /\ (Guarded(u)' <=> Guarded(u))
  BY <1>0, HookMoves DEF Guarded
<1>2. ASSUME ~Guarded(t), ~Guarded(t)', UNCHANGED <<in_trace, depth, raced>>
      PROVE  OneCounts' /\ (in_trace' = 1 => \E u \in Task : Guarded(u)')
  <2>1. \A u \in Task : Guarded(u)' <=> Guarded(u)
    BY <1>1, <1>2
  <2>2. in_trace' = 1 => \E u \in Task : Guarded(u)'
    BY <1>0, <1>2, <2>1
  <2>3. ASSUME ~raced' PROVE /\ \A v, u \in Task : Guarded(v)' /\ Guarded(u)' => v = u
                             /\ \A v \in Task : hook'[v].pc = "count" => hook'[v].got = depth'
                             /\ depth' < 0 => \E v \in Task : hook'[v].pc = "clamp"
    <3>1. ~raced
      BY <1>2, <2>3
    <3>2. \A v, u \in Task : Guarded(v)' /\ Guarded(u)' => v = u
      BY <1>0, <2>1, <3>1 DEF OneCounts
    <3>3. hook'[t].pc # "count" /\ hook[t].pc # "clamp"
      BY <1>2 DEF Guarded
    <3>4. \A v \in Task : hook'[v].pc = "count" => hook'[v].got = depth'
      BY <1>0, <1>1, <1>2, <3>1, <3>3 DEF OneCounts
    <3>5. depth' < 0 => \E v \in Task : hook'[v].pc = "clamp"
      BY <1>0, <1>1, <1>2, <3>1, <3>3 DEF OneCounts
    <3> QED BY <3>2, <3>4, <3>5
  <2> QED BY <2>2, <2>3 DEF OneCounts
<1>3. ASSUME Guarded(t), raced' = raced, (Guarded(t)' /\ in_trace' = in_trace) \/ in_trace' = 0,
             ~raced /\ hook'[t].pc = "count" => hook'[t].got = depth',
             ~raced /\ depth' < 0 /\ hook[t].pc # "clamp" => hook'[t].pc = "clamp" \/ depth' = depth,
             ~raced /\ hook[t].pc = "clamp" => depth' >= 0
      PROVE  OneCounts' /\ (in_trace' = 1 => \E u \in Task : Guarded(u)')
  <2>1. in_trace' = 1 => \E u \in Task : Guarded(u)'
    BY <1>3
  <2>2. ASSUME ~raced' PROVE /\ \A v, u \in Task : Guarded(v)' /\ Guarded(u)' => v = u
                             /\ \A v \in Task : hook'[v].pc = "count" => hook'[v].got = depth'
                             /\ depth' < 0 => \E v \in Task : hook'[v].pc = "clamp"
    <3>1. ~raced
      BY <1>3, <2>2
    <3>2. \A u \in Task : u # t => ~Guarded(u) /\ ~Guarded(u)'
      BY <1>0, <1>1, <1>3, <3>1 DEF OneCounts
    <3>3. \A u \in Task : u # t => hook'[u].pc # "count" /\ hook[u].pc # "clamp"
      BY <1>1, <3>2 DEF Guarded
    <3>4. depth' < 0 => hook'[t].pc = "clamp"
      <4> SUFFICES ASSUME depth' < 0, hook'[t].pc # "clamp" PROVE FALSE
        OBVIOUS
      <4>1. hook[t].pc # "clamp"
        <5> SUFFICES ASSUME hook[t].pc = "clamp" PROVE FALSE
          OBVIOUS
        <5>1. depth' >= 0 /\ depth' \in Int
          BY <1>0, <1>3, <3>1, HookMoves
        <5> QED BY <5>1
      <4>2. depth' = depth
        BY <1>3, <3>1, <4>1
      <4>3. PICK u \in Task : hook[u].pc = "clamp"
        BY <1>0, <3>1, <4>2 DEF OneCounts
      <4> QED BY <3>3, <4>1, <4>3
    <3> QED BY <1>3, <3>1, <3>2, <3>3, <3>4
  <2> QED BY <2>1, <2>2 DEF OneCounts
<1>4. CASE Call(t)
  <2>1. hook[t].pc = "out" /\ hook'[t].pc = "test" /\ UNCHANGED <<in_trace, depth, raced>>
    BY <1>0, <1>4 DEF Call, NoHook
  <2> QED BY <1>2, <2>1 DEF Guarded
<1>5. CASE TestGuard(t)
  <2>1. hook[t].pc = "test" /\ hook'[t].pc \in {"out", "set"} /\ UNCHANGED <<in_trace, depth, raced>>
    BY <1>0, <1>5 DEF TestGuard, NoHook
  <2> QED BY <1>2, <2>1 DEF Guarded
<1>6. CASE SetGuard(t)
  <2>1. /\ hook[t].pc = "set" /\ hook'[t].pc \in {"print", "count"} /\ hook'[t].got = depth
        /\ depth' = depth
    BY <1>0, <1>6 DEF SetGuard
  <2>2. raced' = (raced \/ \E u \in Task : Guarded(u))
    BY <1>6 DEF SetGuard
  <2>3. Guarded(t)'
    BY <2>1 DEF Guarded
  <2>4. ASSUME ~raced' PROVE /\ \A v, u \in Task : Guarded(v)' /\ Guarded(u)' => v = u
                             /\ \A v \in Task : hook'[v].pc = "count" => hook'[v].got = depth'
                             /\ depth' < 0 => \E v \in Task : hook'[v].pc = "clamp"
    <3>1. ~raced /\ \A u \in Task : ~Guarded(u)
      BY <2>2, <2>4, Zenon
    <3>2. \A u \in Task : u # t => ~Guarded(u)'
      BY <1>1, <3>1
    <3>3. \A v \in Task : hook'[v].pc = "count" => hook'[v].got = depth'
      <4>1. \A v \in Task : v # t => hook'[v].pc # "count"
        BY <1>1, <3>1 DEF Guarded
      <4> QED BY <2>1, <4>1
    <3>4. ~(depth < 0)
      BY <1>0, <3>1 DEF OneCounts, Guarded
    <3> QED BY <2>1, <3>2, <3>3, <3>4
  <2> QED BY <2>3, <2>4 DEF OneCounts
<1>7. CASE PrintLine(t)
  <2>1. /\ hook[t].pc = "print" /\ hook'[t].pc \in {"count", "clear"} /\ hook'[t].got = depth
        /\ depth' = depth /\ in_trace' = in_trace /\ raced' = raced
    BY <1>0, <1>7 DEF PrintLine
  <2>2. Guarded(t) /\ Guarded(t)'
    BY <2>1 DEF Guarded
  <2> QED BY <1>3, <2>1, <2>2
<1>8. CASE EnterCount(t)
  <2>1. /\ hook[t].pc = "count" /\ hook'[t].pc = "clear"
        /\ depth' \in {depth + 1, hook[t].got + 1} /\ in_trace' = in_trace /\ raced' = raced
    BY <1>0, <1>8 DEF EnterCount
  <2>2. Guarded(t) /\ Guarded(t)'
    BY <2>1 DEF Guarded
  <2>3. ASSUME ~raced PROVE depth' >= 0
    <3>1. hook[t].got = depth
      BY <1>0, <2>1, <2>3 DEF OneCounts
    <3>2. ~(depth < 0)
      <4> SUFFICES ASSUME depth < 0 PROVE FALSE
        OBVIOUS
      <4>1. PICK u \in Task : hook[u].pc = "clamp"
        BY <1>0, <2>3 DEF OneCounts
      <4>2. Guarded(u) /\ u # t
        BY <2>1, <4>1 DEF Guarded
      <4> QED BY <1>0, <2>2, <2>3, <4>2 DEF OneCounts
    <3> QED BY <1>0, <2>1, <3>1, <3>2
  <2>4. ~raced => ~(depth' < 0)
    <3>1. depth' \in Int
      BY <1>0, HookMoves
    <3> QED BY <2>3, <3>1
  <2> QED BY <1>3, <2>1, <2>2, <2>4
<1>9. CASE ExitCount(t)
  <2>1. /\ hook[t].pc = "count" /\ hook'[t].pc = "clamp" /\ in_trace' = in_trace /\ raced' = raced
    BY <1>0, <1>9 DEF ExitCount
  <2>2. Guarded(t) /\ Guarded(t)'
    BY <2>1 DEF Guarded
  <2> QED BY <1>3, <2>1, <2>2
<1>10. CASE Clamp(t)
  <2>1. /\ hook[t].pc = "clamp" /\ hook'[t].pc = "print" /\ depth' = Clamped(depth)
        /\ in_trace' = in_trace /\ raced' = raced
    BY <1>0, <1>10 DEF Clamp
  <2>2. Guarded(t) /\ Guarded(t)'
    BY <2>1 DEF Guarded
  <2>3. depth' >= 0
    BY <1>0, <2>1 DEF Clamped
  <2> QED BY <1>3, <2>1, <2>2, <2>3
<1>11. CASE ClearGuard(t)
  <2>1. /\ hook[t].pc = "clear" /\ hook'[t].pc = "out" /\ depth' = depth
        /\ in_trace' = 0 /\ raced' = raced
    BY <1>0, <1>11 DEF ClearGuard, NoHook
  <2>2. Guarded(t)
    BY <2>1 DEF Guarded
  <2> QED BY <1>3, <2>1, <2>2
<1> QED BY <1>4, <1>5, <1>6, <1>7, <1>8, <1>9, <1>10, <1>11 DEF HookStep

\* Every step of a hook moves as much from what is pending to the depth, or back.
LEMMA TraceSum ==
  ASSUME TraceInv, NEW t \in Task, HookStep(t), ~raced', ~skipped'
  PROVE  depth' = Sum(Counted', Task)
<1>0. /\ TraceForms /\ depth \in Int /\ IsFiniteSet(Task)
      /\ hook \in [Task -> [kind : HookKind, pc : HookPc, got : Int]]
      /\ nest \in [Task -> 0 .. MaxNest] /\ MaxNest \in Nat /\ HookForm(t)
  BY TraceAssumption DEF TraceInv, TraceForms, TraceTypeOK, HookKind, HookPc
<1>1. ~raced /\ ~skipped
  <2>1. CASE SetGuard(t)
    <3>1. raced' = (raced \/ \E u \in Task : Guarded(u)) /\ skipped' = skipped
      BY <2>1 DEF SetGuard
    <3> QED BY <3>1, Zenon
  <2>2. CASE TestGuard(t)
    <3>1. raced' = raced
      BY <2>2 DEF TestGuard
    <3>2. in_trace = 1 => skipped'
      BY <2>2, Zenon DEF TestGuard
    <3>3. ~(in_trace = 1) => skipped' = skipped
      BY <2>2, Zenon DEF TestGuard
    <3>4. ~skipped
      BY <3>2, <3>3, Zenon
    <3> QED BY <3>1, <3>4, Zenon
  <2>3. CASE ~SetGuard(t) /\ ~TestGuard(t)
    <3>1. raced' = raced /\ skipped' = skipped
      BY <2>3 DEF HookStep, Call, PrintLine, EnterCount, ExitCount, Clamp, ClearGuard
    <3> QED BY <3>1, Zenon
  <2> QED BY <2>1, <2>2, <2>3
<1>2. depth = Sum(Counted, Task)
  BY <1>1 DEF TraceInv
<1>3. \A u \in Task : Counted[u] \in Nat
  BY <1>0 DEF Counted, Pending, TraceForms, HookForm
<1>4. \A u \in Task : Counted'[u] \in Int /\ (u # t => Counted'[u] = Counted[u])
  <2>1. /\ hook' \in [Task -> [kind : HookKind, pc : HookPc, got : Int]]
        /\ nest' \in [Task -> 0 .. MaxNest]
        /\ \A u \in Task : u # t => hook'[u] = hook[u] /\ nest'[u] = nest[u]
    BY <1>0, HookMoves
  <2> QED BY <1>0, <2>1 DEF Counted, Pending
<1>5. Sum(Counted', Task) = Sum(Counted, Task) + (Counted'[t] - Counted[t])
  <2>1. \A u \in Task : /\ Counted[u] \in Int /\ Counted'[u] \in Int
                        /\ u # t => Counted'[u] = Counted[u]
    BY <1>3, <1>4
  <2>2. PICK r, q : r = Counted /\ q = Counted'
    OBVIOUS
  <2>3. IsFiniteSet(Task)
    BY <1>0
  <2>4. \A u \in Task : r[u] \in Int /\ q[u] \in Int /\ (u # t => q[u] = r[u])
    BY <2>1, <2>2
  <2>5. Sum(q, Task) = Sum(r, Task) + (IF t \in Task THEN q[t] - r[t] ELSE 0)
    BY <2>3, <2>4, SumChanged
  <2> QED BY <2>2, <2>5
<1>6. depth >= 0
  <2>1. Sum(Counted, Task) \in Nat
    BY <1>0, <1>3, SumOfNats
  <2> QED BY <1>2, <2>1
<1>7. /\ Counted[t] = nest[t] + Pending(hook[t])
      /\ Counted'[t] = nest'[t] + Pending(hook'[t])
  BY DEF Counted
<1>8. depth' = depth + (Counted'[t] - Counted[t])
  <2>0. hook[t] \in [kind : HookKind, pc : HookPc, got : Int] /\ nest[t] \in Int
    BY <1>0
  <2>1. CASE Call(t)
    <3>1. PICK way \in {"enter", "exit"} :
            /\ hook'[t] = [NoHook EXCEPT !.kind = way, !.pc = "test"]
            /\ nest'[t] = nest[t] + (IF way = "enter" THEN 1 ELSE -1)
      BY <1>0, <2>1 DEF Call
    <3>2. hook'[t].kind = way /\ hook'[t].pc = "test"
      BY <3>1 DEF NoHook
    <3>3. Pending(hook'[t]) = IF way = "enter" THEN -1 ELSE 1
      BY <3>2 DEF Pending
    <3>4. Pending(hook[t]) = 0 /\ depth' = depth
      BY <2>1 DEF Call, NoHook, Pending
    <3> QED BY <1>0, <1>7, <2>0, <3>1, <3>3, <3>4
  <2>2. CASE TestGuard(t)
    <3>1. skipped' = TRUE \/ hook' = [hook EXCEPT ![t].pc = "set"]
      BY <2>2 DEF TestGuard
    <3>2. hook'[t].kind = hook[t].kind /\ hook'[t].pc = "set" /\ hook[t].pc = "test"
      BY <1>0, <2>2, <3>1 DEF TestGuard
    <3>3. Pending(hook'[t]) = Pending(hook[t]) /\ Pending(hook[t]) \in Int
      BY <3>2 DEF Pending
    <3>4. nest'[t] = nest[t] /\ depth' = depth
      BY <2>2 DEF TestGuard
    <3> QED BY <1>0, <1>7, <2>0, <3>3, <3>4
  <2>3. CASE SetGuard(t) \/ PrintLine(t)
    <3>1. /\ hook'[t].kind = hook[t].kind
          /\ \/ hook[t].pc = "set" /\ hook'[t].pc = IF hook[t].kind = "enter" THEN "print" ELSE "count"
             \/ hook[t].pc = "print" /\ hook'[t].pc = IF hook[t].kind = "enter" THEN "count" ELSE "clear"
      BY <1>0, <2>3 DEF SetGuard, PrintLine
    <3>2. Pending(hook'[t]) = Pending(hook[t]) /\ Pending(hook[t]) \in Int
      BY <3>1 DEF Pending
    <3>3. nest'[t] = nest[t] /\ depth' = depth
      BY <2>3 DEF SetGuard, PrintLine
    <3> QED BY <1>0, <1>7, <2>0, <3>2, <3>3
  <2>4. CASE EnterCount(t) \/ ExitCount(t)
    <3>1. /\ hook'[t].kind = hook[t].kind /\ hook[t].pc = "count" /\ nest'[t] = nest[t]
          /\ \/ /\ hook[t].kind = "enter" /\ hook'[t].pc = "clear"
                /\ depth' \in {depth + 1, hook[t].got + 1}
             \/ /\ hook[t].kind = "exit" /\ hook'[t].pc = "clamp"
                /\ depth' \in {depth - 1, hook[t].got - 1}
      BY <1>0, <2>4 DEF EnterCount, ExitCount
    <3>2. hook[t].got = depth
      BY <1>1, <3>1 DEF TraceInv, OneCounts
    <3>3. CASE hook[t].kind = "enter"
      <4>1. Pending(hook[t]) = -1 /\ Pending(hook'[t]) = 0
        BY <3>1, <3>3 DEF Pending
      <4>2. depth' = depth + 1
        BY <1>0, <3>1, <3>2, <3>3
      <4> QED BY <1>0, <1>7, <2>0, <3>1, <4>1, <4>2
    <3>4. CASE hook[t].kind = "exit"
      <4>1. Pending(hook[t]) = 1 /\ Pending(hook'[t]) = 0
        BY <3>1, <3>4 DEF Pending
      <4>2. depth' = depth - 1
        BY <1>0, <3>1, <3>2, <3>4
      <4> QED BY <1>0, <1>7, <2>0, <3>1, <4>1, <4>2
    <3> QED BY <3>1, <3>3, <3>4
  <2>5. CASE Clamp(t)
    <3>1. /\ hook[t].pc = "clamp" /\ hook'[t].pc = "print" /\ hook'[t].kind = hook[t].kind
          /\ nest'[t] = nest[t] /\ depth' = Clamped(depth) /\ hook[t].kind = "exit"
      BY <1>0, <2>5 DEF Clamp, HookForm
    <3>2. Pending(hook'[t]) = 0 /\ Pending(hook[t]) = 0
      BY <3>1 DEF Pending
    <3> QED BY <1>0, <1>6, <1>7, <2>0, <3>1, <3>2 DEF Clamped
  <2>6. CASE ClearGuard(t)
    <3>1. hook[t].pc = "clear" /\ hook'[t] = NoHook /\ nest'[t] = nest[t] /\ depth' = depth
      BY <1>0, <2>6 DEF ClearGuard
    <3>2. Pending(hook'[t]) = 0 /\ Pending(hook[t]) = 0
      BY <3>1 DEF Pending, NoHook
    <3> QED BY <1>0, <1>7, <2>0, <3>1, <3>2
  <2> QED BY <2>1, <2>2, <2>3, <2>4, <2>5, <2>6 DEF HookStep
<1> QED BY <1>2, <1>5, <1>8

LEMMA TraceInvNext == TraceInv /\ [TraceNext]_traceVars => TraceInv'
<1> SUFFICES ASSUME TraceInv, [TraceNext]_traceVars PROVE TraceInv'
  OBVIOUS
<1>1. CASE UNCHANGED traceVars
  <2>1. Counted' = Counted
    BY <1>1 DEF traceVars, Counted
  <2> QED BY <1>1, <2>1 DEF traceVars, TraceInv, TraceForms, TraceTypeOK, HookForm, OneCounts, Guarded
<1>2. ASSUME NEW t \in Task, HookStep(t) PROVE TraceInv'
  <2>0. TraceForms
    BY DEF TraceInv
  <2>1. TraceTypeOK'
    BY <1>2, <2>0, HookMoves DEF TraceTypeOK, HookKind, HookPc
  <2>2. \A u \in Task : HookForm(u)'
    <3>1. HookForm(t)'
      BY <1>2, <2>0, HookMoves
    <3>2. \A u \in Task : u # t => hook'[u] = hook[u] /\ nest'[u] = nest[u]
      BY <1>2, <2>0, HookMoves
    <3>3. \A u \in Task : HookForm(u)
      BY DEF TraceInv, TraceForms
    <3> QED BY <3>1, <3>2, <3>3 DEF HookForm
  <2>3. raced' \in BOOLEAN /\ skipped' \in BOOLEAN
    <3>1. raced \in BOOLEAN /\ skipped \in BOOLEAN
      BY <2>0 DEF TraceForms
    <3>2. raced' = raced \/ raced' = (raced \/ \E u \in Task : Guarded(u))
      BY <1>2, Zenon DEF HookStep, Call, TestGuard, SetGuard, PrintLine, EnterCount, ExitCount, Clamp, ClearGuard
    <3>3. skipped' = skipped \/ skipped' = TRUE
      BY <1>2, Zenon DEF HookStep, Call, TestGuard, SetGuard, PrintLine, EnterCount, ExitCount, Clamp, ClearGuard
    <3>4. raced' \in BOOLEAN
      BY <3>1, <3>2, Zenon
    <3>5. skipped' \in BOOLEAN
      BY <3>1, <3>3, Zenon
    <3> QED BY <3>4, <3>5
  <2>4. OneCounts' /\ (in_trace' = 1 => \E u \in Task : Guarded(u)')
    BY <1>2, TraceGuards
  <2>5. ~raced' /\ ~skipped' => depth' = Sum(Counted', Task)
    BY <1>2, TraceSum
  <2> QED BY <2>1, <2>2, <2>3, <2>4, <2>5 DEF TraceInv, TraceForms
<1> QED BY <1>1, <1>2 DEF TraceNext, HookStep

LEMMA TraceSound == TraceInv => TraceTypeOK /\ DepthCounts /\ GuardReopens
<1> SUFFICES ASSUME TraceInv PROVE TraceTypeOK /\ DepthCounts /\ GuardReopens
  OBVIOUS
<1>1. TraceTypeOK
  BY DEF TraceInv, TraceForms
<1>2. ASSUME Quiet PROVE \A t \in Task : hook[t].pc = "out" /\ ~Guarded(t)
  BY <1>2 DEF Quiet, NoHook, Guarded
<1>3. GuardReopens
  <2> SUFFICES ASSUME Quiet PROVE in_trace = 0 /\ (depth < 0 => raced)
    BY DEF GuardReopens
  <2>1. in_trace = 0
    BY <1>1, <1>2 DEF TraceInv, TraceTypeOK
  <2>2. depth < 0 => raced
    BY <1>2 DEF TraceInv, OneCounts
  <2> QED BY <2>1, <2>2
<1>4. DepthCounts
  <2> SUFFICES ASSUME Quiet, ~skipped, ~raced PROVE depth = Sum(nest, Task)
    BY DEF DepthCounts, Sum
  <2>1. depth = Sum(Counted, Task)
    BY DEF TraceInv
  <2>2. Counted = nest
    <3>1. nest \in [Task -> 0 .. MaxNest] /\ MaxNest \in Nat
      BY <1>1, TraceAssumption DEF TraceTypeOK
    <3>2. \A t \in Task : nest[t] + Pending(hook[t]) = nest[t]
      BY <1>2, <3>1 DEF Pending
    <3> QED BY <3>1, <3>2 DEF Counted
  <2> QED BY <2>1, <2>2
<1> QED BY <1>1, <1>3, <1>4

-----------------------------------------------------------------------------
(* The USB listing (UsbFind) *)

UsbStep == {"init", "list", "descriptor", "open", "string", "close", "compare", "path", "store",
            "free", "exit", "done"}
AtDevice == {"open", "string", "close", "compare", "path", "store"}
UsbOver == {"free", "exit", "done"}

UsbTypes ==
  /\ UsbTypeOK /\ usbStep \in UsbStep
  /\ usbStep \in AtDevice => index <= Len(devs)
  /\ \A d \in untold : d <= index
  /\ obuf \in Seq(1 .. Len(devs))

\* What is open at each step.
HeldAt(s) ==
  IF s \in {"init", "done"} THEN {}
  ELSE IF s \in {"list", "exit"} THEN {"ctx"}
  ELSE IF s \in {"string", "close"} THEN {"ctx", "devs", "handle"}
  ELSE {"ctx", "devs"}

\* What is known of the device at hand.
DeviceKnown ==
  /\ usbStep \in {"init", "list", "descriptor", "open", "string"} => product = NoString
  /\ usbStep \in {"init", "list", "descriptor", "open", "string"} => index \notin untold
  /\ usbStep = "close" => IF retval = "good" THEN index \notin untold /\ product = devs[index].product
                                          ELSE index \in untold
  /\ usbStep \in {"compare", "path", "store"} =>
       IF index \in untold THEN product = NoString ELSE product = devs[index].product
  /\ usbStep \in {"path", "store"} => product = target
  /\ usbStep \in {"init", "list", "descriptor", "open", "string", "close", "compare"} => port = 1 /\ offset = 0

\* How far the path of the device has come.
PathSoFar ==
  usbStep = "path" =>
    /\ port >= 1 /\ port <= Len(devs[index].ports) + 1 /\ offset <= 3 * (port - 1)
    /\ (\A p \in 1 .. Len(devs[index].ports) : devs[index].ports[p] <= 1) => offset <= 2 * (port - 1)

TableSound ==
  /\ Len(obuf) <= NMEMB /\ (usbStep \notin UsbOver => Len(obuf) < NMEMB)
  /\ \A a, b \in 1 .. Len(obuf) : a < b => obuf[a] < obuf[b]
  /\ \A a \in 1 .. Len(obuf) :
       /\ obuf[a] <= index /\ (usbStep \notin UsbOver => obuf[a] < index)
       /\ devs[obuf[a]].product = target \/ (target = NoString /\ obuf[a] \in untold)

TableComplete ==
  usbStep \notin UsbOver \/ (usbStep = "free" /\ Len(obuf) < NMEMB) =>
    \A d \in (1 .. Len(devs)) \ untold :
      d < index /\ devs[d].product = target => \E a \in 1 .. Len(obuf) : obuf[a] = d

UsbInv ==
  /\ UsbTypes /\ usbHeld = HeldAt(usbStep)
  /\ DeviceKnown /\ PathSoFar /\ TableSound /\ TableComplete
  /\ usbStep = "free" /\ Len(obuf) < NMEMB => index = Len(devs) + 1
  /\ PathsInside

LEMMA UsbLists ==
  ASSUME devs \in Lists
  PROVE  /\ Len(devs) \in Nat /\ DOMAIN devs = 1 .. Len(devs)
         /\ \A i \in 1 .. Len(devs) : /\ devs[i].ports \in Seq(1 .. 2)
                                      /\ Len(devs[i].ports) \in Nat /\ Len(devs[i].ports) <= 8
                                      /\ DOMAIN devs[i].ports = 1 .. Len(devs[i].ports)
<1>2. Len(devs) \in Nat /\ DOMAIN devs = 1 .. Len(devs)
  BY UsbAssumption
<1>4. ASSUME NEW i \in 1 .. Len(devs)
      PROVE  devs[i].ports \in Seq(1 .. 2) /\ Len(devs[i].ports) <= 8
  BY <1>2, UsbAssumption
<1>5. ASSUME NEW i \in 1 .. Len(devs)
      PROVE  Len(devs[i].ports) \in Nat /\ DOMAIN devs[i].ports = 1 .. Len(devs[i].ports)
  BY <1>4
<1> QED BY <1>2, <1>4, <1>5

LEMMA UsbInvInit == UsbInit => UsbInv
<1> SUFFICES ASSUME UsbInit PROVE UsbInv
  OBVIOUS
<1>1. devs \in Lists /\ target \in Targets /\ Len(devs) \in Nat
  BY UsbLists DEF UsbInit
<1>2. UsbTypes
  <2>1. /\ index \in 1 .. Len(devs) + 1 /\ port \in Nat /\ offset \in Nat /\ obuf \in Seq(1 .. Len(devs))
    BY <1>1 DEF UsbInit
  <2>2. /\ usbHeld \subseteq {"ctx", "devs", "handle"} /\ untold \subseteq DOMAIN devs /\ outside \subseteq DOMAIN devs
        /\ \A d \in untold : d <= index
    BY DEF UsbInit
  <2>3. retval \in {"good", "bad"} /\ usbStep \in UsbStep /\ usbStep \notin AtDevice
    BY DEF UsbInit, UsbStep, AtDevice
  <2> QED BY <1>1, <2>1, <2>2, <2>3 DEF UsbTypes, UsbTypeOK
<1>3. usbHeld = HeldAt(usbStep)
  BY DEF UsbInit, HeldAt, UsbStep
<1>4. DeviceKnown /\ PathSoFar /\ TableSound /\ TableComplete /\ PathsInside
  <2>1. NMEMB \in Nat \ {0} /\ Len(obuf) = 0
    BY UsbAssumption DEF UsbInit
  <2>2. /\ usbStep = "init" /\ product = NoString /\ untold = {} /\ outside = {} /\ index = 1
        /\ port = 1 /\ offset = 0
    BY DEF UsbInit
  <2>3. DeviceKnown /\ PathSoFar /\ PathsInside
    BY <2>2 DEF DeviceKnown, PathSoFar, PathsInside
  <2>4. TableSound /\ TableComplete
    BY <1>1, <2>1, <2>2 DEF TableSound, TableComplete
  <2> QED BY <2>3, <2>4
<1> QED BY <1>2, <1>3, <1>4 DEF UsbInit, UsbInv

\* The steps that go on to the next device, and the ones that stay with this one.
UsbStays == UNCHANGED <<index, port, offset>>

LEMMA UsbMoves ==
  ASSUME UsbInv, UsbNext
  PROVE  /\ devs' = devs /\ target' = target
         /\ UsbTypes'
<1>0. UsbTypes /\ devs \in Lists /\ DeviceKnown /\ Len(devs) \in Nat
  BY UsbLists DEF UsbInv, UsbTypes, UsbTypeOK
<1>1. devs' = devs /\ target' = target
  BY DEF UsbNext, InitUsb, GetList, ListEnds, GetDescriptor, OpenUsb, GetString, CloseUsb, Compare,
         WritePort, StorePath, FreeList, ExitUsb
<1>2. usbStep' \in UsbStep /\ retval' \in {"good", "bad"}
  <2>1. usbStep' \in UsbStep
    BY <1>0 DEF UsbTypes, UsbNext, InitUsb, GetList, ListEnds, GetDescriptor, OpenUsb, GetString, CloseUsb,
           Compare, WritePort, StorePath, FreeList, ExitUsb, NextDevice, UsbStep
  <2>2. retval' \in {"good", "bad"}
    BY <1>0 DEF UsbTypes, UsbTypeOK, UsbNext, InitUsb, GetList, ListEnds, GetDescriptor, OpenUsb, GetString, CloseUsb,
           Compare, WritePort, StorePath, FreeList, ExitUsb
  <2> QED BY <2>1, <2>2
<1>3. /\ index' \in 1 .. Len(devs) + 1 /\ index <= index'
      /\ usbStep' \in AtDevice => index' <= Len(devs)
  <2>1. index \in 1 .. Len(devs) + 1 /\ (usbStep \in AtDevice => index <= Len(devs))
    BY <1>0 DEF UsbTypes, UsbTypeOK
  <2>2. CASE NextDevice
    <3>1. index <= Len(devs) /\ usbStep' = "descriptor" /\ index' = index + 1
      <4>1. usbStep \in AtDevice \/ (usbStep = "descriptor" /\ index <= Len(devs))
        <5>1. index' # index
          BY <2>1, <2>2 DEF NextDevice
        <5>2. GetDescriptor \/ CloseUsb \/ Compare \/ StorePath
          BY <5>1 DEF UsbNext, InitUsb, GetList, ListEnds, OpenUsb, GetString, WritePort, FreeList, ExitUsb,
                 device
        <5> QED BY <5>2 DEF GetDescriptor, CloseUsb, Compare, StorePath, AtDevice
      <4> QED BY <2>1, <2>2, <4>1 DEF NextDevice
    <3> QED BY <1>0, <2>1, <3>1 DEF AtDevice
  <2>3. CASE ~NextDevice
    <3>1. index' = index
      BY <2>3 DEF UsbNext, InitUsb, GetList, ListEnds, GetDescriptor, OpenUsb, GetString, CloseUsb,
               Compare, WritePort, StorePath, FreeList, ExitUsb, device
    <3>2. usbStep' \in AtDevice => usbStep \in AtDevice \/ (usbStep = "descriptor" /\ index <= Len(devs))
      BY <2>3 DEF UsbNext, InitUsb, GetList, ListEnds, GetDescriptor, OpenUsb, GetString, CloseUsb,
               Compare, WritePort, StorePath, FreeList, ExitUsb, AtDevice
    <3> QED BY <2>1, <3>1, <3>2
  <2> QED BY <2>2, <2>3
<1>4. port' \in Nat /\ offset' \in Nat
  <2>1. CASE WritePort
    <3>1. usbStep = "path" /\ index <= Len(devs) /\ index \in 1 .. Len(devs) /\ port \in Nat /\ offset \in Nat
      BY <1>0, <2>1 DEF WritePort, UsbTypes, UsbTypeOK, AtDevice
    <3>2. CASE port > Len(devs[index].ports)
      BY <1>0, <2>1, <3>1, <3>2 DEF WritePort, device, UsbTypes
    <3>3. CASE ~(port > Len(devs[index].ports))
      <4>1. port \in 1 .. Len(devs[index].ports)
        <5>1. port >= 1
          BY <3>1 DEF UsbInv, PathSoFar
        <5> QED BY <1>0, <3>1, <3>3, <5>1, UsbLists
      <4>2. devs[index].ports[port] \in 1 .. 2
        BY <1>0, <3>1, <4>1, UsbLists
      <4>3. PortLength \in Nat
        BY <1>0, <3>1, <4>2 DEF PortLength
      <4>4. offset' = offset + PortLength /\ port' = port + 1
        BY <2>1, <3>3 DEF WritePort
      <4> QED BY <1>0, <3>1, <4>3, <4>4 DEF UsbTypes
    <3> QED BY <3>2, <3>3
  <2>3. CASE ~WritePort
    <3>1. UsbStays \/ NextDevice
      BY <2>3 DEF UsbNext, InitUsb, GetList, ListEnds, GetDescriptor, OpenUsb, GetString, CloseUsb,
             Compare, StorePath, FreeList, ExitUsb, device, UsbStays
    <3>2. CASE UsbStays
      BY <1>0, <3>2 DEF UsbStays, UsbTypes, UsbTypeOK
    <3>3. CASE NextDevice
      BY <3>3 DEF NextDevice
    <3> QED BY <3>1, <3>2, <3>3
  <2> QED BY <2>1, <2>3
<1>5. usbHeld' \subseteq {"ctx", "devs", "handle"}
  BY <1>0 DEF UsbTypes, UsbTypeOK, UsbNext, InitUsb, GetList, ListEnds, GetDescriptor, OpenUsb, GetString, CloseUsb,
           Compare, WritePort, StorePath, FreeList, ExitUsb
<1>6. /\ untold' = untold \/ (untold' = untold \cup {index} /\ index \in 1 .. Len(devs))
      /\ outside' = outside \/ (outside' = outside \cup {index} /\ index \in 1 .. Len(devs))
  <2>1. usbStep \in AtDevice \/ (usbStep = "descriptor" /\ index <= Len(devs)) => index \in 1 .. Len(devs)
    BY <1>0 DEF UsbTypes, UsbTypeOK
  <2> QED BY <2>1 DEF UsbNext, InitUsb, GetList, ListEnds, GetDescriptor, OpenUsb, GetString, CloseUsb,
           Compare, WritePort, StorePath, FreeList, ExitUsb, AtDevice
<1>7. /\ untold' \subseteq 1 .. Len(devs) /\ outside' \subseteq 1 .. Len(devs)
      /\ \A d \in untold' : d <= index'
  <2>1. /\ untold \subseteq 1 .. Len(devs) /\ outside \subseteq 1 .. Len(devs) /\ \A d \in untold : d <= index
        /\ index \in Nat
    BY <1>0, UsbLists DEF UsbTypes, UsbTypeOK
  <2>2. untold' \subseteq 1 .. Len(devs) /\ outside' \subseteq 1 .. Len(devs)
    BY <1>6, <2>1
  <2>3. ASSUME NEW d \in untold' PROVE d <= index'
    <3>1. d \in untold \/ d = index
      BY <1>6, <2>3
    <3>2. d \in Nat /\ d <= index
      BY <1>0, <2>1, <2>2, <2>3, <3>1
    <3> QED BY <1>0, <1>3, <2>1, <3>2
  <2> QED BY <2>2, <2>3
<1>8. obuf' \in Seq(1 .. Len(devs))
  <2>1. obuf \in Seq(1 .. Len(devs))
    BY <1>0 DEF UsbTypes
  <2>2. CASE StorePath
    <3>1. index \in 1 .. Len(devs)
      BY <1>0, <2>2 DEF StorePath, UsbTypes, UsbTypeOK, AtDevice
    <3> QED BY <2>1, <2>2, <3>1 DEF StorePath
  <2>3. CASE ~StorePath
    <3>1. obuf' = obuf
      BY <2>3 DEF UsbNext, InitUsb, GetList, ListEnds, GetDescriptor, OpenUsb, GetString, CloseUsb,
           Compare, WritePort, FreeList, ExitUsb
    <3> QED BY <2>1, <3>1
  <2> QED BY <2>2, <2>3
<1>9. DOMAIN devs = 1 .. Len(devs) /\ devs \in Lists /\ target \in Targets
  BY <1>0, UsbLists DEF UsbTypes, UsbTypeOK
<1> QED BY <1>1, <1>2, <1>3, <1>4, <1>5, <1>7, <1>8, <1>9 DEF UsbTypes, UsbTypeOK

\* What is open after a step.
LEMMA UsbHeldNext == ASSUME UsbInv, UsbNext PROVE usbHeld' = HeldAt(usbStep)'
<1>0. usbHeld = HeldAt(usbStep)
  BY DEF UsbInv
<1>1. CASE InitUsb \/ GetList \/ FreeList \/ ExitUsb
  BY <1>0, <1>1 DEF InitUsb, GetList, FreeList, ExitUsb, HeldAt
<1>2. CASE ListEnds \/ GetDescriptor \/ GetString
  BY <1>0, <1>2 DEF ListEnds, GetDescriptor, GetString, NextDevice, HeldAt
<1>3. CASE OpenUsb \/ CloseUsb
  BY <1>0, <1>3 DEF OpenUsb, CloseUsb, NextDevice, HeldAt
<1>4. CASE Compare \/ WritePort \/ StorePath
  BY <1>0, <1>4 DEF Compare, WritePort, StorePath, NextDevice, HeldAt
<1> QED BY <1>1, <1>2, <1>3, <1>4 DEF UsbNext

\* What is known of the device at hand, and of its path.
LEMMA UsbDeviceNext == ASSUME UsbInv, UsbNext PROVE DeviceKnown'
<1>0. /\ UsbTypes /\ DeviceKnown /\ devs' = devs /\ target' = target
      /\ index \in Nat /\ untold \subseteq 1 .. Len(devs) /\ \A d \in untold : d <= index
  BY UsbMoves, UsbLists DEF UsbInv, UsbTypes, UsbTypeOK
<1>1. index + 1 \notin untold \cup {index} /\ index + 1 # index
  BY <1>0
<1>2. CASE InitUsb \/ GetList \/ ListEnds \/ FreeList \/ ExitUsb
  BY <1>0, <1>2 DEF InitUsb, GetList, ListEnds, FreeList, ExitUsb, DeviceKnown, device
<1>3. CASE GetDescriptor
  BY <1>0, <1>1, <1>3 DEF GetDescriptor, NextDevice, DeviceKnown, device
<1>4. CASE OpenUsb
  BY <1>0, <1>1, <1>4 DEF OpenUsb, DeviceKnown, device
<1>5. CASE GetString
  BY <1>0, <1>1, <1>5 DEF GetString, DeviceKnown
<1>6. CASE CloseUsb
  <2>1. CASE retval = "bad"
    BY <1>0, <1>1, <1>6, <2>1 DEF CloseUsb, NextDevice, DeviceKnown
  <2>2. CASE retval # "bad"
    <3>1. retval = "good"
      BY <1>0, <2>2 DEF UsbTypes, UsbTypeOK
    <3> QED BY <1>0, <1>6, <2>2, <3>1 DEF CloseUsb, DeviceKnown, device
  <2> QED BY <2>1, <2>2
<1>7. CASE Compare
  BY <1>0, <1>1, <1>7 DEF Compare, NextDevice, DeviceKnown, device
<1>8. CASE WritePort
  BY <1>0, <1>8 DEF WritePort, DeviceKnown, device
<1>9. CASE StorePath
  BY <1>0, <1>1, <1>9 DEF StorePath, NextDevice, DeviceKnown, device
<1> QED BY <1>2, <1>3, <1>4, <1>5, <1>6, <1>7, <1>8, <1>9 DEF UsbNext

LEMMA UsbPathNext == ASSUME UsbInv, UsbNext PROVE PathSoFar' /\ PathsInside'
<1>0. UsbTypes /\ DeviceKnown /\ PathSoFar /\ PathsInside /\ devs \in Lists /\ devs' = devs
  BY UsbMoves DEF UsbInv, UsbTypes, UsbTypeOK
<1>1. CASE Compare
  <2>1. outside' = outside /\ (usbStep' = "path" => index' = index /\ port' = 1 /\ offset' = 0)
    BY <1>0, <1>1 DEF Compare, NextDevice, DeviceKnown, device
  <2>2. usbStep' = "path" => Len(devs[index].ports) \in Nat
    <3>1. index \in 1 .. Len(devs)
      BY <1>0, <1>1 DEF Compare, UsbTypes, UsbTypeOK, AtDevice
    <3> QED BY <1>0, <3>1, UsbLists
  <2>3. PathSoFar'
    BY <1>0, <2>1, <2>2 DEF PathSoFar
  <2> QED BY <1>0, <2>1, <2>3 DEF PathsInside
<1>2. CASE WritePort
  <2>1. /\ usbStep = "path" /\ index \in 1 .. Len(devs) /\ port \in Nat /\ offset \in Nat
        /\ index' = index
    BY <1>0, <1>2 DEF WritePort, UsbTypes, UsbTypeOK, AtDevice, device
  <2>2. PICK ports : ports = devs[index].ports
    OBVIOUS
  <2>3. /\ ports \in Seq(1 .. 2) /\ Len(ports) \in Nat /\ Len(ports) <= 8
        /\ DOMAIN ports = 1 .. Len(ports)
    BY <1>0, <2>1, <2>2, UsbLists
  <2>4. /\ port >= 1 /\ port <= Len(ports) + 1 /\ offset <= 3 * (port - 1)
        /\ (\A p \in 1 .. Len(ports) : ports[p] <= 1) => offset <= 2 * (port - 1)
    BY <1>0, <2>1, <2>2 DEF PathSoFar
  <2>5. CASE port > Len(ports)
    <3>1. usbStep' = "store" /\ outside' = outside
      BY <1>2, <2>2, <2>5 DEF WritePort
    <3> QED BY <1>0, <3>1 DEF PathSoFar, PathsInside
  <2>6. CASE ~(port > Len(ports))
    <3>1. /\ offset' = offset + PortLength /\ port' = port + 1
          /\ outside' = IF offset > PORT_STR THEN outside \cup {index} ELSE outside
      BY <1>2, <2>2, <2>6 DEF WritePort
    <3>2. port \in 1 .. Len(ports) /\ ports[port] \in 1 .. 2
      BY <2>1, <2>3, <2>4, <2>6
    <3>3. PortLength \in Nat /\ PortLength <= ports[port] + 1
      BY <2>2, <2>3, <3>2 DEF PortLength
    <3>4. port' >= 1 /\ port' <= Len(ports) + 1 /\ offset' <= 3 * (port' - 1)
      BY <2>1, <2>3, <2>4, <3>1, <3>2, <3>3
    <3>5. ASSUME \A p \in 1 .. Len(ports) : ports[p] <= 1 PROVE offset' <= 2 * (port' - 1)
      <4>1. ports[port] <= 1 /\ offset <= 2 * (port - 1)
        BY <2>4, <3>2, <3>5
      <4> QED BY <2>1, <3>1, <3>2, <3>3, <4>1
    <3>6. PathSoFar'
      BY <1>0, <2>1, <2>2, <3>4, <3>5 DEF PathSoFar
    <3>7. ASSUME offset > PORT_STR
          PROVE  Len(ports) >= 7 /\ \E p \in DOMAIN ports : ports[p] > 1
      <4>1. offset > 16
        BY <2>1, <3>7, UsbAssumption
      <4>2. port >= 7 /\ port <= 8
        BY <2>1, <2>3, <2>4, <3>2, <4>1
      <4>3. ~(offset <= 2 * (port - 1))
        BY <2>1, <4>1, <4>2
      <4>4. PICK p \in 1 .. Len(ports) : ~(ports[p] <= 1)
        BY <2>4, <4>3
      <4>5. ports[p] \in 1 .. 2
        BY <2>3, <4>4
      <4>6. ports[p] > 1
        BY <4>4, <4>5
      <4> QED BY <2>3, <3>2, <4>2, <4>4, <4>6
    <3>8. PathsInside'
      <4>1. ASSUME NEW d \in outside'
            PROVE  Len(devs[d].ports) >= 7 /\ \E p \in DOMAIN devs[d].ports : devs[d].ports[p] > 1
        <5>1. CASE d \in outside
          BY <1>0, <5>1 DEF PathsInside
        <5>2. CASE d = index /\ offset > PORT_STR
          BY <2>2, <3>7, <5>2
        <5> QED BY <3>1, <4>1, <5>1, <5>2
      <4> QED BY <1>0, <4>1 DEF PathsInside
    <3> QED BY <3>6, <3>8
  <2> QED BY <2>5, <2>6
<1>3. CASE ~Compare /\ ~WritePort
  <2>1. outside' = outside /\ usbStep' # "path"
    BY <1>3 DEF UsbNext, InitUsb, GetList, ListEnds, GetDescriptor, OpenUsb, GetString, CloseUsb, StorePath,
           FreeList, ExitUsb, NextDevice
  <2> QED BY <1>0, <2>1 DEF PathSoFar, PathsInside
<1> QED BY <1>1, <1>2, <1>3

\* The table only changes when a device is stored; what is untold stays so.
LEMMA UsbGrows ==
  ASSUME UsbInv, UsbNext
  PROVE  /\ untold \subseteq untold' /\ index' \in Nat /\ index \in Nat
         /\ index' = index \/ NextDevice
         /\ usbStep' \notin UsbOver => usbStep \notin UsbOver
         /\ ~StorePath => obuf' = obuf
<1>1. untold \subseteq untold'
  BY DEF UsbNext, InitUsb, GetList, ListEnds, GetDescriptor, OpenUsb, GetString, CloseUsb, Compare, WritePort,
         StorePath, FreeList, ExitUsb
<1>2. index' \in Nat /\ index \in Nat
  BY UsbMoves, UsbLists DEF UsbInv, UsbTypes, UsbTypeOK
<1>3. index' = index \/ NextDevice
  BY DEF UsbNext, InitUsb, GetList, ListEnds, GetDescriptor, OpenUsb, GetString, CloseUsb, Compare, WritePort,
         StorePath, FreeList, ExitUsb, device
<1>4. usbStep' \notin UsbOver => usbStep \notin UsbOver
  BY DEF UsbNext, InitUsb, GetList, ListEnds, GetDescriptor, OpenUsb, GetString, CloseUsb, Compare, WritePort,
         StorePath, FreeList, ExitUsb, UsbOver
<1>5. ~StorePath => obuf' = obuf
  BY DEF UsbNext, InitUsb, GetList, ListEnds, GetDescriptor, OpenUsb, GetString, CloseUsb, Compare, WritePort,
         FreeList, ExitUsb
<1> QED BY <1>1, <1>2, <1>3, <1>4, <1>5

LEMMA UsbTableNext == ASSUME UsbInv, UsbNext PROVE TableSound' /\ TableComplete'
<1>0. /\ UsbTypes /\ UsbTypes' /\ DeviceKnown /\ TableSound /\ TableComplete
      /\ devs' = devs /\ target' = target /\ NMEMB \in Nat
  BY UsbMoves, UsbAssumption DEF UsbInv
<1>1. /\ untold \subseteq untold' /\ index' \in Nat /\ index \in Nat
      /\ index' = index \/ NextDevice
      /\ usbStep' \notin UsbOver => usbStep \notin UsbOver
      /\ ~StorePath => obuf' = obuf
  BY UsbGrows
<1>2. /\ obuf \in Seq(1 .. Len(devs)) /\ Len(obuf) \in Nat /\ Len(devs) \in Nat
      /\ \A a \in 1 .. Len(obuf) : obuf[a] \in Nat
  <2>1. obuf \in Seq(1 .. Len(devs)) /\ devs \in Lists
    BY <1>0 DEF UsbTypes, UsbTypeOK
  <2>2. Len(obuf) \in Nat /\ \A a \in 1 .. Len(obuf) : obuf[a] \in 1 .. Len(devs)
    BY <2>1
  <2> QED BY <2>1, <2>2, UsbLists
<1>3. index <= index'
  BY <1>1 DEF NextDevice
<1>4. CASE StorePath
  <2>1. /\ usbStep = "store" /\ obuf' = Append(obuf, index) /\ index \in 1 .. Len(devs)
        /\ IF Len(obuf') >= NMEMB THEN usbStep' = "free" /\ index' = index ELSE NextDevice
        /\ untold' = untold
    BY <1>0, <1>4 DEF StorePath, UsbTypes, UsbTypeOK, AtDevice, device
  <2>2. /\ Len(obuf') = Len(obuf) + 1 /\ obuf'[Len(obuf) + 1] = index
        /\ \A a \in 1 .. Len(obuf) : obuf'[a] = obuf[a]
    BY <1>2, <2>1
  <2>3. /\ Len(obuf) < NMEMB /\ \A a \in 1 .. Len(obuf) : obuf[a] < index
    BY <1>0, <2>1 DEF TableSound, UsbOver
  <2>4. \A a \in 1 .. Len(obuf') : a \in 1 .. Len(obuf) \/ a = Len(obuf) + 1
    BY <1>2, <2>2
  <2>5. devs[index].product = target \/ (target = NoString /\ index \in untold)
    BY <1>0, <2>1 DEF DeviceKnown
  <2>6. /\ Len(obuf') <= NMEMB /\ (usbStep' \notin UsbOver => Len(obuf') < NMEMB)
        /\ index' = IF usbStep' \in UsbOver THEN index ELSE index + 1
    BY <1>0, <1>2, <2>1, <2>2, <2>3 DEF NextDevice, UsbOver
  <2>7. \A a, b \in 1 .. Len(obuf') : a < b => obuf'[a] < obuf'[b]
    <3>1. SUFFICES ASSUME NEW a \in 1 .. Len(obuf'), NEW b \in 1 .. Len(obuf'), a < b
                   PROVE  obuf'[a] < obuf'[b]
      OBVIOUS
    <3>2. a \in 1 .. Len(obuf)
      BY <1>2, <2>2, <3>1
    <3>3. CASE b \in 1 .. Len(obuf)
      BY <1>0, <2>2, <3>1, <3>2, <3>3 DEF TableSound
    <3>4. CASE b = Len(obuf) + 1
      BY <2>2, <2>3, <3>2, <3>4
    <3> QED BY <2>4, <3>3, <3>4
  <2>8. ASSUME NEW a \in 1 .. Len(obuf')
        PROVE  /\ obuf'[a] <= index' /\ (usbStep' \notin UsbOver => obuf'[a] < index')
               /\ devs[obuf'[a]].product = target \/ (target = NoString /\ obuf'[a] \in untold')
    <3>1. CASE a \in 1 .. Len(obuf)
      <4>1. obuf'[a] = obuf[a] /\ obuf[a] < index /\ obuf[a] \in Nat
        BY <1>2, <2>2, <2>3, <3>1
      <4>2. devs[obuf[a]].product = target \/ (target = NoString /\ obuf[a] \in untold)
        BY <1>0, <3>1 DEF TableSound
      <4>3. obuf[a] < index'
        BY <1>1, <1>3, <4>1
      <4> QED BY <1>1, <2>1, <4>1, <4>2, <4>3
    <3>2. CASE a = Len(obuf) + 1
      BY <1>1, <2>1, <2>2, <2>5, <2>6, <3>2
    <3> QED BY <2>4, <3>1, <3>2
  <2>9. TableSound'
    BY <1>0, <2>6, <2>7, <2>8 DEF TableSound
  <2>10. ASSUME usbStep' \notin UsbOver \/ (usbStep' = "free" /\ Len(obuf') < NMEMB),
                NEW d \in (1 .. Len(devs)) \ untold', d < index', devs[d].product = target
         PROVE  \E a \in 1 .. Len(obuf') : obuf'[a] = d
    <3>1. index' = index + 1
      <4>1. Len(obuf') \in Nat
        BY <1>2, <2>2
      <4>2. ~(Len(obuf') >= NMEMB)
        BY <1>0, <2>1, <2>10, <4>1 DEF UsbOver
      <4> QED BY <2>1, <4>2 DEF NextDevice
    <3>2. CASE d < index
      <4>1. PICK a \in 1 .. Len(obuf) : obuf[a] = d
        BY <1>0, <2>1, <2>10, <3>2 DEF TableComplete, UsbOver
      <4>2. a \in 1 .. Len(obuf') /\ obuf'[a] = d
        BY <1>2, <2>2, <4>1
      <4> QED BY <4>2
    <3>3. CASE d = index
      <4>1. Len(obuf) + 1 \in 1 .. Len(obuf')
        BY <1>2, <2>2
      <4> QED BY <2>2, <3>3, <4>1
    <3> QED BY <1>1, <2>10, <3>1, <3>2, <3>3
  <2>11. TableComplete'
    BY <1>0, <2>10 DEF TableComplete
  <2> QED BY <2>9, <2>11
<1>5. CASE ~StorePath
  <2>1. obuf' = obuf
    BY <1>1, <1>5
  <2>2. TableSound'
    <3>1. ASSUME NEW a \in 1 .. Len(obuf)
          PROVE  /\ obuf[a] <= index' /\ (usbStep' \notin UsbOver => obuf[a] < index')
                 /\ devs[obuf[a]].product = target \/ (target = NoString /\ obuf[a] \in untold')
      <4>1. /\ obuf[a] <= index /\ (usbStep \notin UsbOver => obuf[a] < index) /\ obuf[a] \in Nat
            /\ devs[obuf[a]].product = target \/ (target = NoString /\ obuf[a] \in untold)
        BY <1>0, <1>2 DEF TableSound
      <4> QED BY <1>1, <1>3, <4>1
    <3>2. /\ Len(obuf) <= NMEMB /\ (usbStep \notin UsbOver => Len(obuf) < NMEMB)
          /\ \A a, b \in 1 .. Len(obuf) : a < b => obuf[a] < obuf[b]
      BY <1>0 DEF TableSound
    <3> QED BY <1>0, <1>1, <2>1, <3>1, <3>2 DEF TableSound
  <2>3. ASSUME usbStep' \notin UsbOver \/ (usbStep' = "free" /\ Len(obuf) < NMEMB),
               NEW d \in (1 .. Len(devs)) \ untold', d < index', devs[d].product = target
        PROVE  \E a \in 1 .. Len(obuf) : obuf[a] = d
    <3>1. usbStep \notin UsbOver
      BY <1>1, <1>5, <2>3 DEF UsbNext, InitUsb, GetList, ListEnds, GetDescriptor, OpenUsb, GetString, CloseUsb,
             Compare, WritePort, FreeList, ExitUsb, UsbOver
    <3>2. CASE d < index
      BY <1>0, <1>1, <2>3, <3>1, <3>2 DEF TableComplete
    <3>3. CASE ~(d < index)
      <4>1. d = index /\ NextDevice
        BY <1>1, <2>3, <3>3 DEF NextDevice
      <4>2. index' # index
        BY <1>1, <4>1 DEF NextDevice
      <4>3. GetDescriptor \/ CloseUsb \/ Compare
        BY <1>5, <4>2 DEF UsbNext, InitUsb, GetList, ListEnds, OpenUsb, GetString, WritePort, FreeList,
               ExitUsb, device
      <4>4. CASE GetDescriptor
        BY <2>3, <4>1, <4>2, <4>4 DEF GetDescriptor, device
      <4>5. CASE CloseUsb
        <5>1. retval = "bad" /\ usbStep = "close"
          BY <4>2, <4>5 DEF CloseUsb, device
        <5>2. index \in untold
          BY <1>0, <5>1 DEF DeviceKnown
        <5> QED BY <1>1, <2>3, <4>1, <5>2
      <4>6. CASE Compare
        <5>1. product # target /\ usbStep = "compare"
          BY <4>2, <4>6 DEF Compare, device
        <5>2. index \in untold \/ product = devs[index].product
          BY <1>0, <5>1 DEF DeviceKnown
        <5> QED BY <1>1, <2>3, <4>1, <5>1, <5>2
      <4> QED BY <4>3, <4>4, <4>5, <4>6
    <3> QED BY <3>2, <3>3
  <2>4. TableComplete'
    BY <1>0, <2>1, <2>3 DEF TableComplete
  <2> QED BY <2>2, <2>4
<1> QED BY <1>4, <1>5

LEMMA UsbInvNext == UsbInv /\ [UsbNext]_usbVars => UsbInv'
<1>1. ASSUME UsbInv, UNCHANGED usbVars PROVE UsbInv'
  <2>1. UNCHANGED <<usbStep, devs, target, index, product, retval, port, offset, obuf, usbHeld, untold, outside>>
    BY <1>1 DEF usbVars
  <2> QED BY <1>1, <2>1 DEF UsbInv, UsbTypes, UsbTypeOK, DeviceKnown, PathSoFar, TableSound, TableComplete,
                           PathsInside, HeldAt
<1>2. ASSUME UsbInv, UsbNext PROVE UsbInv'
  <2>1. UsbTypes' /\ usbHeld' = HeldAt(usbStep)' /\ DeviceKnown' /\ PathSoFar' /\ PathsInside'
        /\ TableSound' /\ TableComplete'
    BY <1>2, UsbMoves, UsbHeldNext, UsbDeviceNext, UsbPathNext, UsbTableNext
  <2>2. usbStep' = "free" /\ Len(obuf') < NMEMB => index' = Len(devs') + 1
    <3>1. SUFFICES ASSUME usbStep' = "free", Len(obuf') < NMEMB PROVE index' = Len(devs') + 1
      OBVIOUS
    <3>2. ListEnds
      <4>1. ListEnds \/ StorePath
        BY <1>2, <3>1 DEF UsbNext, InitUsb, GetList, GetDescriptor, OpenUsb, GetString, CloseUsb, Compare,
               WritePort, FreeList, ExitUsb, NextDevice
      <4>2. Len(obuf') \in Nat /\ NMEMB \in Nat
        BY <2>1, UsbAssumption DEF UsbTypes
      <4>3. ~StorePath
        BY <3>1, <4>2 DEF StorePath, NextDevice
      <4> QED BY <4>1, <4>3
    <3>3. index \in 1 .. Len(devs) + 1 /\ index > Len(devs) /\ index' = index /\ devs' = devs
          /\ Len(devs) \in Nat
      BY <1>2, <3>2, UsbLists DEF ListEnds, UsbInv, UsbTypes, UsbTypeOK, device
    <3> QED BY <3>3
  <2> QED BY <2>1, <2>2 DEF UsbInv
<1> QED BY <1>1, <1>2

\* Nothing left open, the right devices in order, and the paths that fit.
LEMMA UsbSound == UsbInv => UsbTypeOK /\ FoundExplained /\ PathsInside
<1> SUFFICES ASSUME UsbInv PROVE UsbTypeOK /\ FoundExplained /\ PathsInside
  OBVIOUS
<1>1. UsbTypeOK /\ PathsInside /\ devs \in Lists /\ obuf \in Seq(1 .. Len(devs))
  BY DEF UsbInv, UsbTypes, UsbTypeOK
<1>2. DOMAIN obuf = 1 .. Len(obuf) /\ DOMAIN devs = 1 .. Len(devs) /\ Len(devs) \in Nat
  BY <1>1, UsbLists
<1>3. usbStep = "done" => usbHeld = {}
  BY DEF UsbInv, HeldAt
<1>4. ASSUME usbStep = "free", Len(obuf) < NMEMB, NEW d \in (1 .. Len(devs)) \ untold,
             devs[d].product = target
      PROVE  \E a \in 1 .. Len(obuf) : obuf[a] = d
  <2>1. index = Len(devs) + 1 /\ d < index
    BY <1>2, <1>4 DEF UsbInv
  <2> QED BY <1>4, <2>1 DEF UsbInv, TableComplete
<1>5. FoundExplained
  <2>1. TableSound
    BY DEF UsbInv
  <2> QED BY <1>2, <1>3, <1>4, <2>1 DEF FoundExplained, TableSound
<1> QED BY <1>1, <1>5
-----------------------------------------------------------------------------
(* Evtest's queries (EvQuery) *)

LEMMA TypedIs ==
  /\ DOMAIN Typed = 1 .. 11 /\ DOMAIN Tables = 1 .. 11
  /\ Typed[1] = 0 /\ Typed[2] = 1 /\ Typed[3] = 2 /\ Typed[4] = 3 /\ Typed[5] = 4 /\ Typed[6] = 5
  /\ Typed[7] = 17 /\ Typed[8] = 18 /\ Typed[9] = 20 /\ Typed[10] = 21 /\ Typed[11] = 23
BY DEF Typed, Tables, EV_SYN, EV_KEY, EV_REL, EV_ABS, EV_MSC, EV_SW, EV_LED, EV_SND, EV_REP, EV_FF, EV_FF_STATUS

LEMMA TableTops == \A i \in 1 .. 11 : Tables[i].top \in Nat
<1>1. /\ syns.top \in Nat /\ relatives.top \in Nat /\ absolutes.top \in Nat
      /\ misc.top \in Nat /\ repeats.top \in Nat /\ force.top \in Nat /\ forcestatus.top \in Nat
  BY DEF syns, relatives, absolutes, misc, repeats, force, forcestatus
<1>2. keys.top \in Nat /\ switches.top \in Nat /\ leds.top \in Nat /\ sounds.top \in Nat
  BY DEF keys, switches, leds, sounds
<1>3. /\ Tables[1] = syns /\ Tables[2] = keys /\ Tables[3] = relatives /\ Tables[4] = absolutes
      /\ Tables[5] = misc /\ Tables[6] = switches /\ Tables[7] = leds /\ Tables[8] = sounds
      /\ Tables[9] = repeats /\ Tables[10] = force /\ Tables[11] = forcestatus
  BY DEF Tables
<1>4. \A i \in 1 .. 11 : \/ i = 1 \/ i = 2 \/ i = 3 \/ i = 4 \/ i = 5 \/ i = 6
                         \/ i = 7 \/ i = 8 \/ i = 9 \/ i = 10 \/ i = 11
  OBVIOUS
<1> QED BY <1>1, <1>2, <1>3, <1>4

\* The table of a type.
LEMMA NamesOf ==
  ASSUME NEW i \in 1 .. 11
  PROVE  names(Typed[i]) = Tables[i] /\ HasNames(Typed[i])
<1>1. \A j \in 1 .. 11 : Typed[j] = Typed[i] => j = i
  BY TypedIs
<1>2. (CHOOSE j \in DOMAIN Typed : Typed[j] = Typed[i]) = i
  BY <1>1, TypedIs
<1> QED BY <1>2, TypedIs DEF names, HasNames

LEMMA AskedNames ==
  /\ names(EV_KEY) = keys /\ names(EV_LED) = leds /\ names(EV_SND) = sounds /\ names(EV_SW) = switches
<1>1. EV_KEY = Typed[2] /\ EV_LED = Typed[7] /\ EV_SND = Typed[8] /\ EV_SW = Typed[6]
  BY TypedIs DEF EV_KEY, EV_LED, EV_SND, EV_SW
<1>2. Tables[2] = keys /\ Tables[7] = leds /\ Tables[8] = sounds /\ Tables[6] = switches
  BY DEF Tables
<1>3. names(Typed[2]) = Tables[2] /\ names(Typed[7]) = Tables[7] /\ names(Typed[8]) = Tables[8]
      /\ names(Typed[6]) = Tables[6]
  BY NamesOf
<1> QED BY <1>1, <1>2, <1>3

\* codename looks up no name outside its table.
LEMMA NamesInside ==
  \A t \in {Typed[i] : i \in DOMAIN Typed} : \A code : LooksUp(t, code) => code <= names(t).top
<1> SUFFICES ASSUME NEW i \in DOMAIN Typed, NEW code, LooksUp(Typed[i], code)
             PROVE  code <= names(Typed[i]).top
  OBVIOUS
<1>1. i \in 1 .. 11
  BY TypedIs
<1>2. names(Typed[i]).top \in Nat /\ HasNames(Typed[i])
  BY <1>1, NamesOf, TableTops
<1>3. maxval(Typed[i]) = names(Typed[i]).top /\ maxval(Typed[i]) # -1
  BY <1>2 DEF maxval
<1> QED BY <1>3 DEF LooksUp

\* A code within its table has its bit in the array.
LEMMA BitsInside ==
  ASSUME NEW m \in query_modes, NEW k \in Int, k >= 0, k <= names(m).top
  PROVE  k \div BITS_PER_LONG < NBITS(names(m).top)
<1>1. \/ names(m).top = 767 \/ names(m).top = 15 \/ names(m).top = 7 \/ names(m).top = 16
  BY AskedNames DEF query_modes, keys, leds, sounds, switches
<1>2. PICK n \in Nat : n = names(m).top
  BY <1>1
<1>3. CASE BITS_PER_LONG = 32
  BY <1>1, <1>2, <1>3 DEF NBITS
<1>4. CASE BITS_PER_LONG = 64
  BY <1>1, <1>2, <1>4 DEF NBITS
<1> QED BY <1>3, <1>4, QueryAssumption

\* What is typed for a code.
LEMMA CodeTyped ==
  ASSUME NEW w \in CodeWords, NEW m \in query_modes
  PROVE  /\ GetKeycode(m, w) \in Int
         /\ w.kind = "number" => GetKeycode(m, w) = w.int
         /\ w.kind = "name" /\ w.type = m => GetKeycode(m, w) >= 0
         /\ w.kind \in {"name", "number"}
<1>1. CASE w \in {Number(v) : v \in Digits}
  BY <1>1, QueryAssumption DEF Number, Digits, GetKeycode
<1>2. CASE w = Name(EV_KEY, 743)
  <2>1. w.kind = "name" /\ w.type = EV_KEY /\ w.code = 743
    BY <1>2 DEF Name
  <2>2. 743 \in keys.named /\ 743 < keys.top
    BY DEF keys, ButtonCodes
  <2> QED BY <2>1, <2>2, AskedNames DEF GetKeycode
<1>3. CASE w = Name(EV_LED, 10)
  <2>1. w.kind = "name" /\ w.type = EV_LED /\ w.code = 10
    BY <1>3 DEF Name
  <2>2. 10 \in leds.named /\ 10 < leds.top
    BY DEF leds
  <2> QED BY <2>1, <2>2, AskedNames DEF GetKeycode
<1>4. CASE w = Name(EV_SND, 2)
  <2>1. w.kind = "name" /\ w.type = EV_SND /\ w.code = 2
    BY <1>4 DEF Name
  <2>2. 2 \in sounds.named /\ 2 < sounds.top
    BY DEF sounds
  <2> QED BY <2>1, <2>2, AskedNames DEF GetKeycode
<1>5. CASE w = Name(EV_SW, 14)
  <2>1. w.kind = "name" /\ w.type = EV_SW /\ w.code = 14
    BY <1>5 DEF Name
  <2>2. 14 \in switches.named /\ 14 < switches.top
    BY DEF switches
  <2> QED BY <2>1, <2>2, AskedNames DEF GetKeycode
<1> QED BY <1>1, <1>2, <1>3, <1>4, <1>5 DEF CodeWords

\* Between what was typed and what is answered.
EqInv ==
  /\ EqTypeOK
  /\ reports \in {{<<EV_KEY, 743>>, <<EV_KEY, 767>>, <<EV_SYN, 0>>, <<EV_LED, 15>>},
                  {<<EV_REP, 0>>, <<EV_REP, 1>>, <<EV_ABS, 62>>}, {}}
  /\ eq \in {"idle", "ask", "choose"} => query_mode = NoDevice
  /\ eq # "done" => chosen = NoDevice
  /\ eq \in {"ask", "code", "state"} => words[2] \in CodeWords
  /\ eq \in {"code", "state"} => query_mode \in query_modes /\ Meant(words[1], query_mode)
  /\ eq = "state" => /\ Meant(words[2], keycode)
                     /\ keycode >= 0 /\ keycode <= names(query_mode).top
  /\ QueryExplained /\ ChoiceExplained

LEMMA EqInvInit == EqInit => EqInv
<1> SUFFICES ASSUME EqInit PROVE EqInv
  OBVIOUS
<1>1. EqTypeOK
  BY DEF EqInit, EqTypeOK
<1>2. QueryExplained /\ ChoiceExplained
  BY DEF EqInit, QueryExplained, ChoiceExplained
<1> QED BY <1>1, <1>2 DEF EqInit, EqInv

\* Everything reported is listed, but for what ChoiceExplained names.
LEMMA AllListed ==
  ASSUME EqInv, Choose
  PROVE  /\ listed' \subseteq reports \cup {<<EV_REP, 0>>, <<EV_REP, 1>>}
         /\ chosen' # NoDevice => \A r \in reports : r \in listed' \/ r[1] = EV_SYN \/ r[2] = keys.top
<1> DEFINE l == {r \in reports : r[1] < EV_MAX /\ r[1] \notin {EV_REP, EV_SYN} /\ r[2] < keys.top}
                  \cup {r \in {EV_REP} \X (0 .. repeats.top) : \E q \in reports : q[1] = EV_REP}
<1>1. chosen = NoDevice /\ eq = "choose" /\ EqTypeOK
  BY DEF EqInv, Choose
<1>2. UNCHANGED <<chosen, listed>> \/ listed' = l
  BY DEF Choose
<1>3. repeats.top = 1 /\ keys.top = 767
  BY DEF repeats, keys
<1>4. l \subseteq reports \cup {<<EV_REP, 0>>, <<EV_REP, 1>>}
  <2>1. ASSUME NEW r \in {EV_REP} \X (0 .. 1) PROVE r = <<EV_REP, 0>> \/ r = <<EV_REP, 1>>
    OBVIOUS
  <2> QED BY <1>3, <2>1
<1>5. ASSUME NEW r \in reports PROVE r \in l \/ r[1] = EV_SYN \/ r[2] = keys.top
  <2>1. CASE reports = {<<EV_KEY, 743>>, <<EV_KEY, 767>>, <<EV_SYN, 0>>, <<EV_LED, 15>>}
    BY <1>3, <1>5, <2>1 DEF EV_KEY, EV_SYN, EV_LED, EV_REP, EV_MAX
  <2>2. CASE reports = {<<EV_REP, 0>>, <<EV_REP, 1>>, <<EV_ABS, 62>>}
    <3>1. <<EV_REP, 0>> \in reports /\ <<EV_REP, 0>>[1] = EV_REP
      BY <2>2
    <3>2. CASE r = <<EV_REP, 0>> \/ r = <<EV_REP, 1>>
      <4>1. r \in {EV_REP} \X (0 .. repeats.top)
        BY <1>3, <3>2
      <4> QED BY <3>1, <4>1
    <3>3. CASE r = <<EV_ABS, 62>>
      BY <1>3, <1>5, <3>3 DEF EV_ABS, EV_SYN, EV_REP, EV_MAX
    <3> QED BY <2>2, <3>2, <3>3
  <2> QED BY <1>5, <2>1, <2>2 DEF EqInv
<1> HIDE DEF l
<1>6. CASE UNCHANGED <<chosen, listed>>
  BY <1>1, <1>6 DEF EqTypeOK
<1>7. CASE listed' = l
  BY <1>4, <1>5, <1>7
<1> QED BY <1>2, <1>6, <1>7

LEMMA EqInvNext == EqInv /\ [EqNext]_eqVars => EqInv'
<1>0. ASSUME EqInv, UNCHANGED eqVars PROVE EqInv'
  BY <1>0 DEF EqInv, eqVars, EqTypeOK, QueryExplained, ChoiceExplained, Meant
<1>1. ASSUME EqInv, Ask PROVE EqInv'
  <2>1. eq' = "ask" /\ words'[2] \in CodeWords /\ chosen' = NoDevice /\ query_mode' = NoDevice
        /\ reports' = reports
    BY <1>1 DEF Ask, EqInv
  <2>2. EqTypeOK'
    BY <1>1 DEF Ask, EqInv, EqTypeOK
  <2> QED BY <1>1, <2>1, <2>2 DEF EqInv, QueryExplained, ChoiceExplained
<1>2. ASSUME EqInv, FindQueryMode PROVE EqInv'
  <2>1. PICK t : t = IF words[1].kind = "name" THEN words[1].type ELSE words[1].int
    OBVIOUS
  <2>2. /\ eq = "ask" /\ words' = words /\ reports' = reports /\ chosen' = chosen /\ keycode' = keycode
        /\ listed' = listed
        /\ \/ t \in query_modes /\ query_mode' = t /\ eq' = "code" /\ reply' = reply
           \/ reply' = "usage" /\ eq' = "done" /\ query_mode' = query_mode
    BY <1>2, <2>1 DEF FindQueryMode
  <2>3. Meant(words[1], t)
    BY <2>1 DEF Meant
  <2>4. EqTypeOK'
    BY <1>2, <2>2 DEF EqInv, EqTypeOK
  <2>5. query_mode = NoDevice /\ chosen = NoDevice /\ words[2] \in CodeWords
    BY <1>2, <2>2 DEF EqInv
  <2> QED BY <1>2, <2>2, <2>3, <2>4, <2>5 DEF EqInv, QueryExplained, ChoiceExplained
<1>3. ASSUME EqInv, FindCode PROVE EqInv'
  <2>1. PICK code : code = GetKeycode(query_mode, words[2])
    OBVIOUS
  <2>2. /\ eq = "code" /\ words' = words /\ reports' = reports /\ chosen' = chosen
        /\ keycode' = code /\ query_mode' = query_mode /\ listed' = listed
        /\ IF code < 0 THEN reply' = "usage" /\ eq' = "done"
           ELSE IF OutOfBounds(query_mode, code) THEN reply' = "error" /\ eq' = "done"
           ELSE eq' = "state" /\ reply' = reply
    BY <1>3, <2>1 DEF FindCode
  <2>3. /\ query_mode \in query_modes /\ Meant(words[1], query_mode) /\ words[2] \in CodeWords
        /\ chosen = NoDevice
    BY <1>3, <2>2 DEF EqInv
  <2>4. /\ code \in Int /\ Meant(words[2], code)
        /\ code < 0 => ~(words[2].kind = "name" /\ words[2].type = query_mode)
    BY <2>1, <2>3, CodeTyped DEF Meant
  <2>5. EqTypeOK'
    BY <1>3, <2>2, <2>4 DEF EqInv, EqTypeOK
  <2>6. ~OutOfBounds(query_mode, code) => code <= names(query_mode).top
    <3>1. names(query_mode).top \in Int
      BY <2>3, AskedNames DEF query_modes, keys, leds, sounds, switches
    <3> QED BY <2>4, <3>1 DEF OutOfBounds
  <2>7. CASE code < 0
    BY <1>3, <2>2, <2>3, <2>4, <2>5, <2>7 DEF EqInv, QueryExplained, ChoiceExplained
  <2>8. CASE ~(code < 0) /\ OutOfBounds(query_mode, code)
    BY <1>3, <2>2, <2>3, <2>4, <2>5, <2>8 DEF EqInv, QueryExplained, ChoiceExplained
  <2>9. CASE ~(code < 0) /\ ~OutOfBounds(query_mode, code)
    BY <1>3, <2>2, <2>3, <2>4, <2>5, <2>6, <2>9 DEF EqInv, QueryExplained, ChoiceExplained
  <2> QED BY <2>7, <2>8, <2>9
<1>4. ASSUME EqInv, QueryDevice PROVE EqInv'
  <2>1. /\ eq = "state" /\ eq' = "done" /\ words' = words /\ query_mode' = query_mode /\ keycode' = keycode
        /\ reports' = reports /\ chosen' = chosen /\ listed' = listed /\ reply' \in {"0", "10", "error"}
    BY <1>4 DEF QueryDevice
  <2>2. /\ query_mode \in query_modes /\ Meant(words[1], query_mode) /\ Meant(words[2], keycode)
        /\ chosen = NoDevice
    BY <1>4, <2>1 DEF EqInv
  <2>3. EqTypeOK'
    BY <1>4, <2>1 DEF EqInv, EqTypeOK
  <2>4. reply' # "usage"
    BY <2>1
  <2> QED BY <1>4, <2>1, <2>2, <2>3, <2>4 DEF EqInv, QueryExplained, ChoiceExplained
<1>5. ASSUME EqInv, Toggle PROVE EqInv'
  <2>1. UNCHANGED <<eq, words, query_mode, keycode, reports, reply, chosen, listed>>
    BY <1>5 DEF Toggle
  <2> QED BY <1>5, <2>1 DEF EqInv, EqTypeOK, QueryExplained, ChoiceExplained, Meant
<1>6. ASSUME EqInv, ScanDevices PROVE EqInv'
  <2>1. eq = "idle" /\ eq' = "choose" /\ UNCHANGED <<query_mode, keycode, reports, reply, chosen, listed>>
    BY <1>6 DEF ScanDevices
  <2> QED BY <1>6, <2>1 DEF EqInv, EqTypeOK, QueryExplained, ChoiceExplained
<1>7. ASSUME EqInv, Choose PROVE EqInv'
  <2>1. /\ eq = "choose" /\ eq' = "done" /\ UNCHANGED <<words, query_mode, keycode, reports>>
        /\ query_mode = NoDevice /\ chosen = NoDevice
    BY <1>7 DEF Choose, EqInv
  <2>2. /\ reply' \in {"usage", "error", reply}
        /\ chosen' # NoDevice => \/ words[2] # NoDevice /\ chosen' = words[2].int
                                 \/ words[2] = NoDevice /\ chosen' \in LastScanned(words[1])
    BY <1>7, <2>1 DEF Choose
  <2>3. EqTypeOK'
    BY <1>7, <2>1, <2>2, AllListed DEF EqInv, EqTypeOK
  <2>4. ChoiceExplained'
    BY <1>7, <2>1, <2>2, AllListed DEF ChoiceExplained
  <2>5. QueryExplained'
    BY <2>1 DEF QueryExplained
  <2> QED BY <1>7, <2>1, <2>3, <2>4, <2>5 DEF EqInv
<1> QED BY <1>0, <1>1, <1>2, <1>3, <1>4, <1>5, <1>6, <1>7 DEF EqNext

LEMMA EqSound == EqInv => EqTypeOK /\ LookupsInside /\ QueryExplained /\ ChoiceExplained
<1> SUFFICES ASSUME EqInv PROVE EqTypeOK /\ LookupsInside /\ QueryExplained /\ ChoiceExplained
  OBVIOUS
<1>1. eq = "state" => keycode >= 0 /\ keycode \div BITS_PER_LONG < NBITS(names(query_mode).top)
  BY BitsInside DEF EqInv, EqTypeOK
<1>2. LookupsInside
  <2>1. \A t \in {Typed[i] : i \in DOMAIN Typed} :
          \A code \in {0, 1, 15, 16, 127, 128, 767, 768, 65535} :
            LooksUp(t, code) => code <= names(t).top
    BY NamesInside
  <2> QED BY <1>1, <2>1 DEF LookupsInside
<1> QED BY <1>2 DEF EqInv
-----------------------------------------------------------------------------
(* The lives of the drivers (DriverLife) *)

\* A probe has a step, and both sequences of a table are sequences.
TableOK(l) ==
  /\ Len(l.probe) \in Nat \ {0} /\ DOMAIN l.probe = 1 .. Len(l.probe)
  /\ Len(l.devm) \in Nat /\ DOMAIN l.devm = 1 .. Len(l.devm)

LEMMA TablesAre ==
  /\ TableOK(DummyChar)
  /\ TableOK(PlatformDummy)
  /\ TableOK(MyCharDev)
  /\ TableOK(PlatformIns)
  /\ TableOK(EthIns)
  /\ TableOK(RtcIns)
  /\ TableOK(PwmIns)
  /\ TableOK(PolledIns)
  /\ TableOK(FakeEth)
  /\ TableOK(FakeRtc)
  /\ TableOK(FakePwm)
  /\ TableOK(GpioDescriptor)
  /\ TableOK(GpioLegacyDt)
  /\ TableOK(GpioLegacy)
  /\ TableOK(InputButton)
  /\ TableOK(InputPolled)
  /\ TableOK(KobjAttribute)
  /\ TableOK(Kobject)
  /\ TableOK(Kset)
  /\ TableOK(SpiIcm20608)
  /\ TableOK(RegmapIcm20608)
  /\ TableOK(Ap3216c)
  /\ TableOK(IioIcm20608)
<1>1. TableOK(DummyChar)
  BY DEF DummyChar, TableOK
<1>2. TableOK(PlatformDummy)
  BY DEF PlatformDummy, TableOK
<1>3. TableOK(MyCharDev)
  BY DEF MyCharDev, TableOK
<1>4. TableOK(PlatformIns)
  BY DEF PlatformIns, TableOK
<1>5. TableOK(EthIns)
  BY <1>4 DEF EthIns
<1>6. TableOK(RtcIns)
  BY <1>4 DEF RtcIns
<1>7. TableOK(PwmIns)
  BY <1>4 DEF PwmIns
<1>8. TableOK(PolledIns)
  BY <1>4 DEF PolledIns
<1>9. TableOK(FakeEth)
  BY DEF FakeEth, TableOK
<1>10. TableOK(FakeRtc)
  BY DEF FakeRtc, TableOK
<1>11. TableOK(FakePwm)
  BY DEF FakePwm, TableOK
<1>12. TableOK(GpioDescriptor)
  BY DEF GpioDescriptor, TableOK
<1>13. TableOK(GpioLegacyDt)
  BY DEF GpioLegacyDt, TableOK
<1>14. TableOK(GpioLegacy)
  BY DEF GpioLegacy, TableOK
<1>15. TableOK(InputButton)
  BY DEF InputButton, TableOK
<1>16. TableOK(InputPolled)
  BY DEF InputPolled, TableOK
<1>17. TableOK(KobjAttribute)
  BY DEF KobjAttribute, TableOK
<1>18. TableOK(Kobject)
  BY DEF Kobject, TableOK
<1>19. TableOK(Kset)
  BY DEF Kset, TableOK
<1>20. TableOK(SpiIcm20608)
  BY DEF SpiIcm20608, TableOK
<1>21. TableOK(RegmapIcm20608)
  BY DEF RegmapIcm20608, TableOK
<1>22. TableOK(Ap3216c)
  BY DEF Ap3216c, TableOK
<1>23. TableOK(IioIcm20608)
  BY DEF IioIcm20608, TableOK
<1> QED BY <1>1, <1>2, <1>3, <1>4, <1>5, <1>6, <1>7, <1>8, <1>9, <1>10, <1>11, <1>12,
           <1>13, <1>14, <1>15, <1>16, <1>17, <1>18, <1>19, <1>20, <1>21, <1>22, <1>23

LEMMA LifeTables == \A d \in Driver : TableOK(Life[d])
<1>1. DOMAIN Life =
        {"dummy_char", "platform_dummy", "mychardev", "platform_ins", "eth_ins", "rtc_ins",
         "pwm_ins", "polled_ins", "fake_eth", "fake_rtc", "fake_pwm", "gpio_descriptor",
         "gpio_legacy_dt", "gpio_legacy", "input_button", "input_polled", "kobj_attribute", "kobject",
         "kset", "spi_icm20608", "regmap_icm20608", "ap3216c", "iio_icm20608"}
  BY DEF Life
<1>2. Life["dummy_char"] = DummyChar
  BY DEF Life
<1>3. Life["platform_dummy"] = PlatformDummy
  BY DEF Life
<1>4. Life["mychardev"] = MyCharDev
  BY DEF Life
<1>5. Life["platform_ins"] = PlatformIns
  BY DEF Life
<1>6. Life["eth_ins"] = EthIns
  BY DEF Life
<1>7. Life["rtc_ins"] = RtcIns
  BY DEF Life
<1>8. Life["pwm_ins"] = PwmIns
  BY DEF Life
<1>9. Life["polled_ins"] = PolledIns
  BY DEF Life
<1>10. Life["fake_eth"] = FakeEth
  BY DEF Life
<1>11. Life["fake_rtc"] = FakeRtc
  BY DEF Life
<1>12. Life["fake_pwm"] = FakePwm
  BY DEF Life
<1>13. Life["gpio_descriptor"] = GpioDescriptor
  BY DEF Life
<1>14. Life["gpio_legacy_dt"] = GpioLegacyDt
  BY DEF Life
<1>15. Life["gpio_legacy"] = GpioLegacy
  BY DEF Life
<1>16. Life["input_button"] = InputButton
  BY DEF Life
<1>17. Life["input_polled"] = InputPolled
  BY DEF Life
<1>18. Life["kobj_attribute"] = KobjAttribute
  BY DEF Life
<1>19. Life["kobject"] = Kobject
  BY DEF Life
<1>20. Life["kset"] = Kset
  BY DEF Life
<1>21. Life["spi_icm20608"] = SpiIcm20608
  BY DEF Life
<1>22. Life["regmap_icm20608"] = RegmapIcm20608
  BY DEF Life
<1>23. Life["ap3216c"] = Ap3216c
  BY DEF Life
<1>24. Life["iio_icm20608"] = IioIcm20608
  BY DEF Life
<1> SUFFICES ASSUME NEW d \in DOMAIN Life PROVE TableOK(Life[d])
  BY DEF Driver
<1> QED BY <1>1, <1>2, <1>3, <1>4, <1>5, <1>6, <1>7, <1>8, <1>9, <1>10, <1>11, <1>12, <1>13,
           <1>14, <1>15, <1>16, <1>17, <1>18, <1>19, <1>20, <1>21, <1>22, <1>23, <1>24, TablesAre

\* A probe that runs has a step to take, and has released nothing yet.
LifeInv ==
  /\ LifeTypeOK
  /\ phase = "probing" => at <= Len(Life[drv].probe) /\ freed = {}

LEMMA LifeInvInit == LifeInit => LifeInv
<1> SUFFICES ASSUME LifeInit PROVE LifeInv
  OBVIOUS
<1>1. drv \in Driver /\ Len(Life[drv].probe) \in Nat \ {0}
  BY LifeTables DEF LifeInit, TableOK
<1>2. probes \in 1 .. MAX_PROBES /\ at \in 1 .. Len(Life[drv].probe) + 1
  BY <1>1, LifeAssumption DEF LifeInit
<1>3. slipped \in BOOLEAN
  BY Zenon DEF LifeInit
<1>4. /\ phase \in Phase /\ user \in Entry(drv) \cup {"none"} /\ held \cap freed = {}
      /\ held \cup freed \cup leaked \subseteq Obtained(drv) \cup {"code"} /\ freed = {}
  BY DEF LifeInit, Phase
<1>5. at <= Len(Life[drv].probe)
  BY <1>1 DEF LifeInit
<1> QED BY <1>1, <1>2, <1>3, <1>4, <1>5 DEF LifeInv, LifeTypeOK

\* The managed resource that is released is held.
LEMMA LastManaged ==
  ASSUME NEW d, d = Life[drv].devm, drv \in Driver, Managed # {}
  PROVE  d[CHOOSE i \in DOMAIN d : /\ d[i] \in held
                                   /\ \A j \in DOMAIN d : d[j] \in held => j <= i] \in held
<1>1. Len(d) \in Nat /\ DOMAIN d = 1 .. Len(d)
  BY LifeTables DEF TableOK
<1> DEFINE T == {Len(d) - i : i \in {j \in 1 .. Len(d) : d[j] \in held}}
<1>2. T \in SUBSET Nat
  BY <1>1
<1>3. PICK r : r \in Managed
  OBVIOUS
<1>4. PICK a \in 1 .. Len(d) : d[a] = r /\ d[a] \in held
  BY <1>1, <1>3 DEF Managed
<1>5. T # {}
  BY <1>4
<1>6. PICK n \in T : \A m \in T : n <= m
  <2> HIDE DEF T
  <2> QED BY <1>2, <1>5, LeastNumber
<1>7. PICK k \in 1 .. Len(d) : d[k] \in held /\ n = Len(d) - k
  BY <1>6
<1>8. ASSUME NEW j \in 1 .. Len(d), d[j] \in held PROVE j <= k
  <2>1. Len(d) - j \in T
    BY <1>8
  <2>2. n <= Len(d) - j
    BY <1>6, <2>1
  <2> QED BY <1>1, <1>7, <2>2
<1> HIDE DEF T
<1>9. \E i \in DOMAIN d : d[i] \in held /\ \A j \in DOMAIN d : d[j] \in held => j <= i
  BY <1>1, <1>7, <1>8
<1> QED BY <1>9

LEMMA LifeInvNext == LifeInv /\ [LifeNext]_lifeVars => LifeInv'
<1> SUFFICES ASSUME LifeInv, [LifeNext]_lifeVars PROVE LifeInv'
  OBVIOUS
<1> DEFINE n == Len(Life[drv].probe)
           Own == Obtained(drv) \cup {"code"}
<1>1. /\ drv \in Driver /\ phase \in Phase /\ at \in 1 .. n + 1 /\ n \in Nat \ {0}
      /\ held \subseteq Own /\ freed \subseteq Own /\ leaked \subseteq Own /\ held \cap freed = {}
      /\ user \in Entry(drv) \cup {"none"} /\ slipped \in BOOLEAN /\ probes \in 1 .. MAX_PROBES
  BY LifeTables DEF LifeInv, LifeTypeOK, TableOK
<1>2. phase = "probing" => at \in 1 .. n /\ freed = {} /\ Step(drv).gets \in Obtained(drv)
  <2>1. SUFFICES ASSUME phase = "probing"
                 PROVE  at \in 1 .. n /\ freed = {} /\ Step(drv).gets \in Obtained(drv)
    OBVIOUS
  <2>2. at \in 1 .. n /\ freed = {}
    BY <1>1, <2>1 DEF LifeInv
  <2>3. DOMAIN Life[drv].probe = 1 .. n
    BY <1>1, LifeTables DEF TableOK
  <2> QED BY <2>2, <2>3 DEF Obtained, Step
<1>3. CASE UNCHANGED lifeVars
  BY <1>3 DEF lifeVars, LifeInv, LifeTypeOK
<1>4. CASE Obtain
  <2>1. PICK r : r = Step(drv).gets
    OBVIOUS
  <2>2. /\ phase = "probing" /\ held' = held \cup ({r} \ {"nothing"}) /\ at' = at + 1 /\ phase' = Beyond
        /\ UNCHANGED <<drv, freed, leaked, user, slipped, probes>>
    BY <1>4, <2>1 DEF Obtain
  <2>3. /\ at' \in 1 .. n + 1 /\ phase' \in Phase
        /\ phase' = "probing" => at' <= n
    BY <1>1, <1>2, <2>2 DEF Beyond, Phase
  <2>4. held' \subseteq Own /\ held' \cap freed = {} /\ freed = {}
    BY <1>1, <1>2, <2>1, <2>2
  <2> QED BY <1>1, <2>2, <2>3, <2>4 DEF LifeInv, LifeTypeOK
<1>5. CASE Fail
  <2>1. PICK step : step = Step(drv)
    OBVIOUS
  <2>2. /\ phase = "probing" /\ slipped' = TRUE /\ at' = at + 1
        /\ phase' = CASE step.failing = "stop"    -> "undoing"
                      [] step.failing = "go on"   -> Beyond
                      [] step.failing = "succeed" -> "live"
                      [] OTHER                    -> "oops"
        /\ UNCHANGED <<drv, held, freed, leaked, user, probes>>
    BY <1>5, <2>1 DEF Fail
  <2>3. at' \in 1 .. n + 1
    <3>1. at' = at + 1 /\ at \in 1 .. n
      BY <1>2, <2>2
    <3> QED BY <3>1, <1>1
  <2>4. phase' \in {"undoing", "live", "oops", Beyond}
    BY <2>2
  <2>5. phase' \in Phase /\ (phase' = "probing" => at' <= n)
    <3>1. phase = "probing" /\ at' = at + 1 /\ at \in 1 .. n
      BY <1>2, <2>2
    <3>2. Beyond \in {"live", "probing"} /\ (Beyond = "probing" => at # n)
      BY DEF Beyond
    <3>3. phase' \in {"undoing", "live", "oops", "probing"} /\ (phase' = "probing" => at # n)
      BY <2>4, <3>2
    <3> QED BY <1>1, <3>1, <3>3 DEF Phase
  <2> QED BY <1>1, <1>2, <2>2, <2>3, <2>5 DEF LifeInv, LifeTypeOK
<1>6. CASE Use
  <2>1. UNCHANGED <<drv, phase, at, held, freed, leaked, user, slipped, probes>>
    BY <1>6 DEF Use
  <2> QED BY <2>1 DEF LifeInv, LifeTypeOK
<1>7. CASE Open \/ Close
  <2>1. /\ user' \in Entry(drv) \cup {"none"}
        /\ UNCHANGED <<drv, phase, at, held, freed, leaked, slipped, probes>>
    BY <1>7 DEF Open, Close
  <2> QED BY <1>1, <2>1 DEF LifeInv, LifeTypeOK
<1>8. CASE Remove
  <2>1. phase' = "removing" /\ UNCHANGED <<drv, at, held, freed, leaked, user, slipped, probes>>
    BY <1>8 DEF Remove
  <2> QED BY <1>1, <2>1 DEF LifeInv, LifeTypeOK, Phase
<1>9. CASE Release
  <2>1. PICK rs : rs = IF Refused(Head(todo)) THEN {} ELSE Head(todo)
    OBVIOUS
  <2>2. /\ phase \in {"undoing", "removing"} /\ held' = held \ rs /\ freed' = freed \cup (rs \cap held)
        /\ UNCHANGED <<drv, phase, at, leaked, user, slipped, probes>>
    BY <1>9, <2>1 DEF Release
  <2>3. held' \subseteq Own /\ freed' \subseteq Own /\ held' \cap freed' = {} /\ phase # "probing"
    BY <1>1, <2>2
  <2> QED BY <1>1, <2>2, <2>3 DEF LifeInv, LifeTypeOK
<1>10. CASE ReleaseManaged
  <2>1. PICK d : d = Life[drv].devm
    OBVIOUS
  <2>2. PICK r : r = d[CHOOSE i \in DOMAIN d : /\ d[i] \in held
                                               /\ \A j \in DOMAIN d : d[j] \in held => j <= i]
    OBVIOUS
  <2>3. /\ phase \in {"undoing", "removing"} /\ held' = held \ {r} /\ freed' = freed \cup {r}
        /\ Managed # {} /\ UNCHANGED <<drv, phase, at, leaked, user, slipped, probes>>
    BY <1>10, <2>1, <2>2 DEF ReleaseManaged
  <2>4. r \in held
    BY <1>1, <2>1, <2>2, <2>3, LastManaged
  <2>5. held' \subseteq Own /\ freed' \subseteq Own /\ held' \cap freed' = {} /\ phase # "probing"
    BY <1>1, <2>3, <2>4
  <2> QED BY <1>1, <2>3, <2>5 DEF LifeInv, LifeTypeOK
<1>11. CASE Finish
  <2>1. PICK lost \in SUBSET {"code"} : held' = held \ lost /\ freed' = freed \cup lost
    BY <1>11 DEF Finish
  <2>2. phase' \in {"failed", "gone"} /\ UNCHANGED <<drv, at, leaked, user, slipped, probes>>
    BY <1>11 DEF Finish
  <2>3. held' \subseteq Own /\ freed' \subseteq Own /\ held' \cap freed' = {}
    BY <1>1, <2>1
  <2> QED BY <1>1, <2>2, <2>3 DEF LifeInv, LifeTypeOK, Phase
<1>12. CASE ProbeAgain
  <2>1. /\ probes < MAX_PROBES /\ probes' = probes + 1 /\ phase' = "probing" /\ at' = 1
        /\ leaked' = leaked \cup (held \ Pointers) /\ held' = {"code"} /\ freed' = {} /\ slipped' = FALSE
        /\ UNCHANGED <<drv, user>>
    BY <1>12 DEF ProbeAgain
  <2>2. probes' \in 1 .. MAX_PROBES /\ leaked' \subseteq Own /\ at' \in 1 .. n + 1 /\ at' <= n
    BY <1>1, <2>1, LifeAssumption
  <2> QED BY <1>1, <2>1, <2>2 DEF LifeInv, LifeTypeOK, Phase
<1> QED BY <1>3, <1>4, <1>5, <1>6, <1>7, <1>8, <1>9, <1>10, <1>11, <1>12 DEF LifeNext

-----------------------------------------------------------------------------
(* The programs and modules together (MCDriversSamples) *)

\* Each component keeps its own invariant: a step is of one of them, and leaves
\* the variables of the others.
DriversInv ==
  /\ DaemonInv /\ EvInv /\ UdpInv /\ TraceInv
  /\ BtnInv /\ FilInv /\ LifeInv /\ DeferredInv
  /\ EqInv /\ UsbInv

LEMMA DriversInvInit == DriversInit => DriversInv
BY DaemonInvInit, EvInvInit, UdpInvInit, TraceInvInit, BtnInvInit, FilInvInit, LifeInvInit,
   DeferredInvInit, EqInvInit, UsbInvInit DEF DriversInit, DriversInv

\* What a step of all is for each.
LEMMA DriversStep ==
  [DriversNext]_<<toolVars, moduleVars, program>> =>
    /\ [DaemonNext]_daemonVars /\ [EvNext]_evVars /\ [UdpNext]_udpVars /\ [TraceNext]_traceVars
    /\ [BtnNext]_btnVars /\ [FilNext]_filVars /\ [LifeNext]_lifeVars
    /\ [DeferredNext]_deferredVars /\ [EqNext]_eqVars /\ [UsbNext]_usbVars
<1> SUFFICES ASSUME [DriversNext]_<<toolVars, moduleVars, program>>
             PROVE  /\ [DaemonNext]_daemonVars /\ [EvNext]_evVars /\ [UdpNext]_udpVars
                    /\ [TraceNext]_traceVars /\ [BtnNext]_btnVars /\ [FilNext]_filVars
                    /\ [LifeNext]_lifeVars /\ [DeferredNext]_deferredVars /\ [EqNext]_eqVars
                    /\ [UsbNext]_usbVars
  OBVIOUS
<1>1. CASE UNCHANGED <<toolVars, moduleVars, program>>
  BY <1>1 DEF toolVars, moduleVars, listVars
<1>2. CASE DriversNext
  <2>1. [DaemonNext]_daemonVars /\ [EvNext]_evVars /\ [UdpNext]_udpVars /\ [TraceNext]_traceVars
    BY <1>2 DEF DriversNext, toolVars
  <2>2. [BtnNext]_btnVars /\ [FilNext]_filVars /\ [LifeNext]_lifeVars /\ [DeferredNext]_deferredVars
    BY <1>2 DEF DriversNext, moduleVars
  <2>3. [EqNext]_eqVars /\ [UsbNext]_usbVars
    BY <1>2 DEF DriversNext, toolVars, listVars
  <2> QED BY <2>1, <2>2, <2>3
<1> QED BY <1>1, <1>2

LEMMA DriversInvNext == DriversInv /\ [DriversNext]_<<toolVars, moduleVars, program>> => DriversInv'
<1> SUFFICES ASSUME DriversInv, [DriversNext]_<<toolVars, moduleVars, program>> PROVE DriversInv'
  OBVIOUS
<1>1. DaemonInv' /\ EvInv' /\ UdpInv' /\ TraceInv'
  BY DriversStep, DaemonInvNext, EvInvNext, UdpInvNext, TraceInvNext DEF DriversInv
<1>2. BtnInv' /\ FilInv' /\ LifeInv' /\ DeferredInv'
  BY DriversStep, BtnInvNext, FilInvNext, LifeInvNext, DeferredInvNext DEF DriversInv
<1>3. EqInv' /\ UsbInv'
  BY DriversStep, EqInvNext, UsbInvNext DEF DriversInv
<1> QED BY <1>1, <1>2, <1>3 DEF DriversInv

LEMMA InvarianceDrivers == DriversSpec => []DriversInv
BY DriversInvInit, DriversInvNext, PTL DEF DriversSpec

\* For any numbers of threads, copies, readers and events: every variable of the
\* programs and modules beside the tunnel holds a value of its type (what each of
\* them keeps is named in its module).
THEOREM DriversTypes == DriversSpec => []DriversTypeOK
<1>1. DriversInv => DriversTypeOK
  BY DaemonSound, EvSound, UdpSound, TraceSound, EqSound, UsbSound
     DEF DriversInv, BtnInv, FilInv, LifeInv, DeferredInv, DriversTypeOK
<1> QED BY <1>1, InvarianceDrivers, PTL

\* For any numbers of copies of evtest, of tasks in the tracing hooks, of polls and
\* of devices, and any sizes of queue and batch: one reader of the GPS line and a
\* true ant.status, events printed in order and grabs held or refused aloud,
\* datagrams inside their buffer, a trace indented by the calls in progress whose
\* guard opens again, a query answered about what was typed, and the ports of the
\* right USB devices, each with the exceptions the code leaves (script/gps/main.c,
\* evtest.c, src/mcast, trace_hooks.c, script/usb/main.c).
THEOREM ToolsAreExplained == DriversSpec => []ToolsExplained
<1>1. DriversInv => ToolsExplained
  BY DaemonSound, EvSound, UdpSound, TraceSound, EqSound, UsbSound DEF DriversInv, ToolsExplained
<1> QED BY <1>1, InvarianceDrivers, PTL

\* For any numbers of presses and calls and any sizes of buffers: a deferred-work
\* exercise that waits for its callback keeps its code until the callback is done;
\* freed data is used by the init function of the shared work queue only, which returns
\* for a signal only; no wake-up is lost; LED and key follow the button; and the files
\* of the examples show what was stored last, with the exceptions the code leaves
\* (src/driver).  (What the probes leak and free, LeaksExplained and
\* FaultsExplained, is read off the tables of DriverLife by TLC.)
THEOREM ModulesAreExplained ==
  DriversSpec => [](/\ CodeOutlivesCallback /\ FreedDataExplained /\ NoWakeLost
                    /\ LedExplained /\ KeyIsLevel
                    /\ ShowsWhatWasStored /\ BufferShownExplained /\ EndlessLine)
<1>1. DriversInv => /\ CodeOutlivesCallback /\ FreedDataExplained /\ NoWakeLost
                    /\ LedExplained /\ KeyIsLevel
                    /\ ShowsWhatWasStored /\ BufferShownExplained /\ EndlessLine
  BY DEF DriversInv, BtnInv, FilInv, DeferredInv
<1> QED BY <1>1, InvarianceDrivers, PTL
=============================================================================
