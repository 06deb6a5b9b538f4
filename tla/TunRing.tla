------------------------------- MODULE TunRing -------------------------------
(***************************************************************************)
(* How the server's main thread reads the TUN device through io_uring:     *)
(* tun_buf_init submits one read per buffer; io_uring_poll walks the       *)
(* completion queue, sends each packet, prepares the next read of its      *)
(* buffer, and at the end submits the reads and releases the entries.      *)
(*                                                                         *)
(* The kernel's side is external: it completes the submitted reads in any  *)
(* order, each with the next packet of the device or with an error.        *)
(***************************************************************************)
EXTENDS Integers, Sequences, FiniteSets

CONSTANTS
  Buffer,      \* the TUN_BATCH_SIZE buffers                          (32)
  Errors,      \* results the kernel may give a failed read: 0, -errno
  MaxPackets,  \* bound: packets the device delivers
  MaxErrors    \* bound: reads that complete with an error

ASSUME TunRingAssumption ==
  /\ IsFiniteSet(Buffer)
  /\ \A e \in Errors : e \in Int /\ e <= 0
  /\ MaxPackets \in Nat /\ MaxErrors \in Nat

Packet == 1 .. MaxPackets
\* A result greater than zero, the length in the code, names the packet.
Cqe == [buffer : Buffer, res : Packet \cup Errors]
NoPacket == 0

VARIABLES
  read,      \* packets the device has delivered
  failed,    \* reads that completed with an error
  reads,     \* reads of each buffer submitted to the kernel
  prepared,  \* reads of each buffer prepared, not yet submitted
  content,   \* the packet each buffer holds
  cq,        \* the completion queue, from its head
  pc,        \* main thread: "wait" in io_uring_wait_cqe, or "walk" cq
  seen,      \* entries of cq walked so far
  count,     \* entries among them that carried a packet
  sent       \* history: the contents send_to_gateway was given

kernelVars == <<read, failed, content, cq>>
walkVars == <<pc, seen, count>>
vars == <<kernelVars, reads, prepared, walkVars, sent>>

Init ==
  /\ read = 0 /\ failed = 0
  /\ reads = [b \in Buffer |-> 1]
  /\ prepared = [b \in Buffer |-> 0]
  /\ content = [b \in Buffer |-> NoPacket]
  /\ cq = <<>>
  /\ pc = "wait" /\ seen = 0 /\ count = 0
  /\ sent = <<>>

-----------------------------------------------------------------------------
(* The kernel *)

Complete(b, res) ==
  /\ reads[b] > 0
  /\ reads' = [reads EXCEPT ![b] = @ - 1]
  /\ cq' = Append(cq, [buffer |-> b, res |-> res])
  /\ UNCHANGED <<prepared, walkVars, sent>>

ReadPacket(b) ==
  /\ read < MaxPackets
  /\ read' = read + 1
  /\ content' = [content EXCEPT ![b] = read']
  /\ Complete(b, read')
  /\ UNCHANGED failed

ReadFails(b) ==
  /\ failed < MaxErrors
  /\ failed' = failed + 1
  /\ \E e \in Errors : Complete(b, e)
  /\ UNCHANGED <<read, content>>

-----------------------------------------------------------------------------
(* io_uring_poll *)

WaitCqe ==
  /\ pc = "wait" /\ cq # <<>>
  /\ pc' = "walk" /\ seen' = 0 /\ count' = 0
  /\ UNCHANGED <<kernelVars, reads, prepared, sent>>

\* One entry of the walk, which follows the queue's tail: a packet is sent and
\* its buffer's next read prepared; an error is skipped or only printed.
WalkCqe ==
  LET c == cq[seen + 1] IN
  /\ pc = "walk" /\ seen < Len(cq)
  /\ seen' = seen + 1
  /\ \/ /\ c.res > 0
        /\ count' = count + 1
        /\ sent' = Append(sent, content[c.buffer])
        /\ prepared' = [prepared EXCEPT ![c.buffer] = @ + 1]
     \/ c.res <= 0 /\ UNCHANGED <<count, sent, prepared>>
  /\ UNCHANGED <<kernelVars, reads, pc>>

\* Mutant: only one entry is released, however many were walked.
EndWalkReleasesOne ==
  /\ pc = "walk" /\ seen = Len(cq)
  /\ reads' = [b \in Buffer |-> reads[b] + prepared[b]]
  /\ prepared' = [b \in Buffer |-> 0]
  /\ cq' = Tail(cq)
  /\ pc' = "wait"
  /\ seen' = 0 /\ count' = 0
  /\ UNCHANGED <<read, failed, content, sent>>

\* Mutant: the walk stops anywhere and the whole queue is released.
EndWalkReleasesAll ==
  /\ pc = "walk"
  /\ reads' = [b \in Buffer |-> reads[b] + prepared[b]]
  /\ prepared' = [b \in Buffer |-> 0]
  /\ cq' = <<>>
  /\ pc' = "wait"
  /\ seen' = 0 /\ count' = 0
  /\ UNCHANGED <<read, failed, content, sent>>

\* Mutant: the prepared reads are not submitted, nor count started again.
EndWalkNoSubmit ==
  /\ pc = "walk" /\ seen = Len(cq)
  /\ prepared' = [b \in Buffer |-> 0]
  /\ cq' = SubSeq(cq, count + 1, Len(cq))
  /\ pc' = "wait"
  /\ seen' = 0
  /\ UNCHANGED <<read, failed, content, reads, count, sent>>

\* The end of the walk: submit the prepared reads, release count entries.
EndWalk ==
  /\ pc = "walk" /\ seen = Len(cq)
  /\ reads' = [b \in Buffer |-> reads[b] + prepared[b]]
  /\ prepared' = [b \in Buffer |-> 0]
  /\ cq' = SubSeq(cq, count + 1, Len(cq))
  /\ pc' = "wait"
  /\ seen' = 0 /\ count' = 0
  /\ UNCHANGED <<read, failed, content, sent>>

Next ==
  \/ \E b \in Buffer : ReadPacket(b) \/ ReadFails(b)
  \/ WaitCqe \/ WalkCqe \/ EndWalk

Spec == Init /\ [][Next]_vars

\* The main thread goes on calling io_uring_poll; the kernel need not complete
\* anything.
FairSpec == Spec /\ WF_vars(WaitCqe) /\ WF_vars(WalkCqe) /\ WF_vars(EndWalk)

-----------------------------------------------------------------------------
(* Properties *)

TypeOK ==
  /\ read \in 0 .. MaxPackets /\ failed \in 0 .. MaxErrors
  /\ reads \in [Buffer -> Nat] /\ prepared \in [Buffer -> Nat]
  /\ content \in [Buffer -> Packet \cup {NoPacket}]
  /\ cq \in Seq(Cqe)
  /\ pc \in {"wait", "walk"}
  /\ seen \in 0 .. Len(cq) /\ count \in 0 .. seen
  /\ sent \in Seq(Packet)

\* What the device delivered reaches send_to_gateway once and in its order.
SentInOrder == \A i \in DOMAIN sent : sent[i] = i

\* ... as long as no read has failed, although buffers are read into again
\* while the queue still holds their last entries.
InOrderUntilFailure == failed = 0 => SentInOrder

\* As long as no read has failed a buffer has one read under way, or one entry
\* not walked yet, or one read prepared: it is never written while it is read,
\* and never without a read.
OneReadPerBuffer ==
  failed = 0 =>
    \A b \in Buffer :
      reads[b] + prepared[b]
        + Cardinality({i \in (seen + 1) .. Len(cq) : cq[i].buffer = b}) = 1

\* Unless a read fails, every packet the device delivered is eventually sent.
EventuallySent ==
  \A n \in Packet : read >= n ~> (\E i \in DOMAIN sent : sent[i] = n) \/ failed > 0

\* A failed read costs its buffer, which is never read into again, but no
\* failure costs more than that one: the reads left keep up with the rest.
ReadsSurvive ==
  Cardinality({b \in Buffer :
                 \/ reads[b] + prepared[b] > 0
                 \/ \E i \in (seen + 1) .. Len(cq) : cq[i].buffer = b})
    >= Cardinality(Buffer) - failed

\* No buffer is read into twice at a time, and none is lost but by a failure.
ReadsKept == OneReadPerBuffer /\ ReadsSurvive

=============================================================================
