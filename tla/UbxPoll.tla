------------------------------- MODULE UbxPoll -------------------------------
(***************************************************************************)
(* Reading a GPS receiver's configuration over a serial line (the GPS      *)
(* daemon, script/gps/main.c).  dump_ubx_cfg sends the polls of a table    *)
(* one after the other, each up to MAX_RETRY more times; poll_ubx_data     *)
(* sends one and hunts the byte stream for a frame that settles it: the    *)
(* answer, which has the poll's class and id and a right checksum, or a    *)
(* NAK that names them.                                                    *)
(*                                                                         *)
(* Bytes are symbols <<value, origin>>: class and id are one symbol, so    *)
(* are the two length bytes and the two checksum bytes.  The origin is the *)
(* poll the byte answers, 0 for all else; a checksum is right when the     *)
(* bytes are those of one answer, in order.                                *)
(***************************************************************************)
EXTENDS Integers, Sequences

CONSTANTS
  Key,            \* class and id of each poll of the table; several share one
  DebugKey,       \* class and id of the commands ubx_debug_message sends
  MAX_RETRY,      \* further tries of a poll                              (2)
  UBX_FRAME_MAX,  \* symbols the frame buffer holds       (2048 bytes)
  Noise,          \* values line noise can produce
  MaxNoise        \* bound: symbols the line spoils

SYNC1 == 181
SYNC2 == 98
NAK == 1280     \* class 5, id 0
DATA == 0       \* the payload of an answer
CKSUM == 2
HEADER == 4     \* symbols up to the length
OVERHEAD == 5   \* symbols of a frame besides its payload

Poll == DOMAIN Key

ASSUME UbxAssumption ==
  /\ Key \in Seq(Nat)
  /\ \A p \in Poll : Key[p] >= 256 /\ Key[p] # NAK   \* the class is not 0, and it is no NAK
  /\ DebugKey \in Nat /\ DebugKey >= 256
  /\ MAX_RETRY \in Nat
  /\ UBX_FRAME_MAX \in Nat /\ UBX_FRAME_MAX > OVERHEAD
  /\ Noise \subseteq Nat
  /\ MaxNoise \in Nat

Symbol == Nat \X (Poll \cup {0})

VARIABLES
  cur,        \* dump_ubx_cfg: the poll it is at
  retry,      \* dump_ubx_cfg: tries before this one
  waiting,    \* poll_ubx_data has sent the poll and not returned
  parser,     \* poll_ubx_data: state, frame and expected_len
  cksum_err,  \* poll_ubx_data: cksum_err_seen
  pending,    \* external: commands the receiver has yet to answer
  line,       \* external: symbols it sent that were not read or flushed
  noise,      \* history: symbols spoilt
  cut,        \* history: a flush took the head of a frame and left the rest
  late,       \* history: polls of which a try was given up
  missed,     \* history: a sound answer to the poll awaited was read in vain
  outcome,    \* history: how each poll ended
  file        \* ubx.cfg: what was filed under each poll, by its origin

pollVars == <<cur, retry, waiting, parser, cksum_err>>
lineVars == <<pending, line, noise, cut>>
ubxVars == <<pollVars, lineVars, late, missed, outcome, file>>

-----------------------------------------------------------------------------
(* Frames *)

Answer(p) == <<<<SYNC1, p>>, <<SYNC2, p>>, <<Key[p], p>>, <<1, p>>, <<DATA, p>>, <<CKSUM, p>>>>

\* A NAK carries the class and id it rejects, and nothing else of the command.
Reject(key) == <<<<SYNC1, 0>>, <<SYNC2, 0>>, <<NAK, 0>>, <<1, 0>>, <<key, 0>>, <<CKSUM, 0>>>>

\* do_checksum: the frame from its class on is what the receiver computed it of.
Checksum(f) == \E p \in Poll : f[Len(f)][2] = p /\ Tail(Tail(f)) = Tail(Tail(Answer(p)))

Hunting == [state |-> 0, frame |-> <<>>, expected |-> 0]

\* Mutant: a length the buffer cannot hold is believed.
CollectUnbounded(x, b) ==
  LET f == Append(x.frame, b) IN
  CASE x.state = 0 -> IF b[1] = SYNC1 THEN [x EXCEPT !.state = 1, !.frame = <<b>>] ELSE x
    [] x.state = 1 -> IF b[1] = SYNC2 THEN [x EXCEPT !.state = 2, !.frame = f]
                                      ELSE [x EXCEPT !.state = 0]
    [] x.state = 2 /\ Len(f) < HEADER -> [x EXCEPT !.frame = f]
    [] x.state = 2 /\ Len(f) >= HEADER ->
         [state |-> 3, frame |-> f, expected |-> f[HEADER][1] + OVERHEAD]
    [] x.state = 3 -> [x EXCEPT !.frame = f]

\* One byte through the switch of poll_ubx_data, short of judging a complete
\* frame.  A second SYNC1 in a row is not tried as the start of a frame.
Collect(x, b) ==
  LET f == Append(x.frame, b)
      n == f[HEADER][1] + OVERHEAD
  IN
  CASE x.state = 0 -> IF b[1] = SYNC1 THEN [x EXCEPT !.state = 1, !.frame = <<b>>] ELSE x
    [] x.state = 1 -> IF b[1] = SYNC2 THEN [x EXCEPT !.state = 2, !.frame = f]
                                      ELSE [x EXCEPT !.state = 0]
    [] x.state = 2 /\ Len(f) < HEADER -> [x EXCEPT !.frame = f]
    [] x.state = 2 /\ Len(f) >= HEADER ->
         IF n > UBX_FRAME_MAX THEN [x EXCEPT !.state = 0, !.frame = <<>>]
                              ELSE [state |-> 3, frame |-> f, expected |-> n]
    [] x.state = 3 -> [x EXCEPT !.frame = f]

Complete(x) == x.state = 3 /\ Len(x.frame) >= x.expected

IsNak(f) == f[3][1] = NAK
Rejects(f, p) == IsNak(f) /\ Len(f) > OVERHEAD /\ f[HEADER + 1][1] = Key[p]

Answers(f, p) == ~IsNak(f) /\ f[3][1] = Key[p] /\ Checksum(f)

-----------------------------------------------------------------------------
(* dump_ubx_cfg and poll_ubx_data *)

\* The daemon is at its first poll; what ubx_debug_message sent half a second
\* ago may still have to be answered.
UbxInit ==
  /\ cur = 1 /\ retry = 0 /\ waiting = FALSE
  /\ parser = Hunting /\ cksum_err = FALSE
  /\ pending \in {<<>>, <<0>>}
  /\ line = <<>> /\ noise = 0 /\ cut = FALSE
  /\ late = {} /\ missed = FALSE
  /\ outcome = [p \in Poll |-> "none"]
  /\ file = [p \in Poll |-> 0]

\* tcflush, then the poll is written.  The flush takes what has arrived, some
\* part of what the receiver sent.
SendPoll ==
  /\ cur \in Poll /\ ~waiting
  /\ \E d \in 0 .. Len(line) :
       /\ line' = SubSeq(line, d + 1, Len(line))
       /\ cut' = (cut \/ (d < Len(line) /\ line[d + 1][1] # SYNC1))
  /\ pending' = Append(pending, cur)
  /\ waiting' = TRUE
  /\ parser' = Hunting
  /\ cksum_err' = FALSE
  /\ UNCHANGED <<cur, retry, noise, late, missed, outcome, file>>

\* Mutant: a poll is tried once too often.
ReturnLate(r) ==
  LET settled == r \in {"ok", "nak"} \/ retry > MAX_RETRY IN
  /\ waiting' = FALSE
  /\ parser' = Hunting
  /\ cksum_err' = FALSE
  /\ cur' = IF settled THEN cur + 1 ELSE cur
  /\ retry' = IF settled THEN 0 ELSE retry + 1
  /\ outcome' = [outcome EXCEPT ![cur] = r]

\* poll_ubx_data returns r; dump_ubx_cfg goes on to the next poll when r is an
\* answer or a NAK, or when the tries are used up.
Return(r) ==
  LET settled == r \in {"ok", "nak"} \/ retry >= MAX_RETRY IN
  /\ waiting' = FALSE
  /\ parser' = Hunting
  /\ cksum_err' = FALSE
  /\ cur' = IF settled THEN cur + 1 ELSE cur
  /\ retry' = IF settled THEN 0 ELSE retry + 1
  /\ outcome' = [outcome EXCEPT ![cur] = r]

\* What a byte made of the parser is kept, filed or given up for another hunt.
Judge(x) ==
  \/ /\ ~Complete(x)
     /\ parser' = x
     /\ missed' = (missed \/ Head(line) = <<CKSUM, cur>>)
     /\ UNCHANGED <<cur, retry, waiting, cksum_err, outcome, file>>
  \/ /\ Complete(x) /\ Rejects(x.frame, cur)
     /\ Return("nak")
     /\ UNCHANGED <<missed, file>>
  \/ /\ Complete(x) /\ Answers(x.frame, cur)
     /\ Return("ok")
     /\ file' = [file EXCEPT ![cur] = x.frame[Len(x.frame)][2]]
     /\ UNCHANGED missed
  \/ /\ Complete(x) /\ ~Rejects(x.frame, cur) /\ ~Answers(x.frame, cur)
     /\ parser' = Hunting
     /\ cksum_err' = (cksum_err \/ (~IsNak(x.frame) /\ x.frame[3][1] = Key[cur]))
     /\ missed' = (missed \/ Head(line) = <<CKSUM, cur>>)
     /\ UNCHANGED <<cur, retry, waiting, outcome, file>>

\* One byte of what read() returned is run through the parser, as it was sent
\* or spoilt.  The rest of a read after the byte that settles the poll is
\* dropped, as the next poll's flush would.
Byte ==
  /\ waiting /\ line # <<>>
  /\ line' = Tail(line)
  /\ \E b \in {Head(line)} \cup (IF noise < MaxNoise THEN Noise \X {0} ELSE {}) :
       /\ noise' = IF b = Head(line) THEN noise ELSE noise + 1
       /\ Judge(Collect(parser, b))
  /\ UNCHANGED <<pending, cut, late>>

\* The time is over (or select fails), or the poll could not be written.
GiveUp ==
  /\ waiting
  /\ Return(IF cksum_err THEN "cksum_err" ELSE "none")
  /\ late' = late \cup {cur}
  /\ UNCHANGED <<lineVars, missed, file>>

\* External: the receiver takes the next command: it answers a poll, rejects
\* it, or says nothing; a command of ubx_debug_message it rejects or not.
Receiver ==
  /\ pending # <<>>
  /\ pending' = Tail(pending)
  /\ LET p == Head(pending) IN
     line' \in {line, line \o Reject(IF p = 0 THEN DebugKey ELSE Key[p])}
               \cup (IF p = 0 THEN {} ELSE {line \o Answer(p)})
  /\ UNCHANGED <<pollVars, noise, cut, late, missed, outcome, file>>

UbxNext == SendPoll \/ Byte \/ GiveUp \/ Receiver

UbxSpec == UbxInit /\ [][UbxNext]_ubxVars

-----------------------------------------------------------------------------
(* Properties *)

UbxTypeOK ==
  /\ cur \in 1 .. Len(Key) + 1
  /\ retry \in 0 .. MAX_RETRY
  /\ waiting \in BOOLEAN /\ cksum_err \in BOOLEAN
  /\ parser \in [state : 0 .. 3, frame : Seq(Symbol), expected : Nat]
  /\ pending \in Seq(Poll \cup {0})
  /\ line \in Seq(Symbol)
  /\ noise \in 0 .. MaxNoise
  /\ cut \in BOOLEAN /\ missed \in BOOLEAN
  /\ late \subseteq Poll
  /\ outcome \in [Poll -> {"none", "ok", "nak", "cksum_err"}]
  /\ file \in [Poll -> Poll \cup {0}]

\* The parser never stores past its frame buffer, whatever length a frame claims
\* (poll_ubx_data): a byte it still wants fits.
FrameInBounds ==
  /\ Len(parser.frame) < UBX_FRAME_MAX
  /\ parser.state = 3 => /\ parser.expected <= UBX_FRAME_MAX
                         /\ Len(parser.frame) < parser.expected

\* What dump_ubx_cfg files under a poll is an answer the receiver gave, whole,
\* to a poll of the same class and id.  When it was another poll's, that poll came
\* earlier, and its answer was late: one of its tries had been given up, or a NAK,
\* which says no more than class and id, had been taken for its own, or it had
\* itself been filed the answer of another.  So one late answer may shift the
\* answers of all polls behind it that share its class and id.
FiledExplained ==
  \A p \in Poll : file[p] # 0 =>
    /\ Key[file[p]] = Key[p]
    /\ file[p] # p => /\ file[p] < p
                      /\ \/ file[p] \in late \/ outcome[file[p]] = "nak"
                         \/ file[file[p]] \notin {0, file[p]}

\* A sound answer to the poll awaited is not read in vain: the hunt loses one
\* only when the line spoilt a byte or a flush cut a frame in two.
HeardUnlessSpoilt == missed => noise > 0 \/ cut

\* What poll_ubx_data stores, files and misses, whatever the receiver sends and
\* the line does to it.
PollExplained == FrameInBounds /\ FiledExplained /\ HeardUnlessSpoilt

=============================================================================
