------------------------- MODULE GpsSensors_proofs -------------------------
(***************************************************************************)
(* The readers of devices, for every number of polls, files, users and     *)
(* samples.  One component after the other: the polls of the GPS daemon    *)
(* (UbxPoll), its log directory (GnssLog), the sensors' character devices  *)
(* (CharSensor), the IIO device (IioSensor), the clock (RtcClock).  Each   *)
(* has an inductive invariant of its own; the lemmas named ...Moves and    *)
(* ...Steps say what an action changes, field by field, and the ones that  *)
(* follow preserve the invariant's parts from that alone.  The last        *)
(* section puts the five together as the runs do (MCGpsSensors).           *)
(***************************************************************************)
EXTENDS MCGpsSensors, SequenceTheorems, FiniteSetTheorems, WellFoundedInduction, TLAPS

-----------------------------------------------------------------------------
(* The polls: the bytes on the line, and what the parser made of them. *)

Parser == [state : 0 .. 3, frame : Seq(Symbol), expected : Nat]

\* What is in the frame buffer in each state of the hunt.
ParserFits(x) ==
  /\ x.state = 0 => Len(x.frame) <= 1
  /\ x.state = 1 => Len(x.frame) = 1
  /\ x.state = 2 => Len(x.frame) >= 2 /\ Len(x.frame) <= 3
  /\ x.state = 3 => /\ Len(x.frame) >= HEADER /\ Len(x.frame) < x.expected
                    /\ x.expected <= UBX_FRAME_MAX

UbxTypes ==
  /\ UbxTypeOK
  /\ waiting => cur \in Poll
  /\ ~waiting => parser = Hunting
  /\ ParserFits(parser)

-----------------------------------------------------------------------------
LEMMA UbxConstants ==
  /\ Key \in Seq(Nat) /\ Len(Key) \in Nat /\ Poll = 1 .. Len(Key) /\ 0 \notin Poll
  /\ \A p \in Poll : Key[p] \in Nat /\ Key[p] >= 256 /\ Key[p] # NAK
  /\ DebugKey \in Nat /\ DebugKey >= 256 /\ MAX_RETRY \in Nat
  /\ UBX_FRAME_MAX \in Nat /\ UBX_FRAME_MAX > OVERHEAD
  /\ Noise \subseteq Nat /\ MaxNoise \in Nat
<1>1. Key \in Seq(Nat) /\ Len(Key) \in Nat /\ Poll = 1 .. Len(Key) /\ DOMAIN Key = 1 .. Len(Key)
  BY UbxAssumption DEF Poll
<1>2. \A p \in Poll : Key[p] \in Nat
  BY <1>1
<1> QED BY <1>1, <1>2, UbxAssumption

LEMMA HuntingFits == /\ Hunting \in Parser /\ ParserFits(Hunting)
                     /\ Hunting.state = 0 /\ Hunting.frame = <<>>
BY DEF Hunting, Parser, ParserFits

Fields(y, s, f, n) == y \in Parser /\ y.state = s /\ y.frame = f /\ y.expected = n

\* A parser with some of its fields set.
LEMMA ParserFields ==
  ASSUME NEW x \in Parser, NEW s \in 0 .. 3, NEW f \in Seq(Symbol)
  PROVE  /\ Fields([x EXCEPT !.state = s], s, x.frame, x.expected)
         /\ Fields([x EXCEPT !.frame = f], x.state, f, x.expected)
         /\ Fields([x EXCEPT !.state = s, !.frame = f], s, f, x.expected)
<1>1. Fields([x EXCEPT !.state = s], s, x.frame, x.expected)
  BY DEF Fields, Parser
<1>2. Fields([x EXCEPT !.frame = f], x.state, f, x.expected)
  BY DEF Fields, Parser
<1>3. Fields([x EXCEPT !.state = s, !.frame = f], s, f, x.expected)
  <2>1. [x EXCEPT !.state = s, !.frame = f] \in Parser
    BY Zenon DEF Parser
  <2>2. /\ [x EXCEPT !.state = s, !.frame = f].state = s
        /\ [x EXCEPT !.state = s, !.frame = f].frame = f
        /\ [x EXCEPT !.state = s, !.frame = f].expected = x.expected
    BY DEF Parser
  <2> QED BY <2>1, <2>2, Zenon DEF Fields
<1> QED BY <1>1, <1>2, <1>3, Zenon

\* One byte through the switch, by the state it meets.
LEMMA Collected ==
  ASSUME NEW x \in Parser, NEW b \in Symbol
  PROVE  LET y == Collect(x, b)
             f == Append(x.frame, b)
             n == f[HEADER][1] + OVERHEAD IN
         /\ x.state = 0 /\ b[1] = SYNC1 => Fields(y, 1, <<b>>, x.expected)
         /\ x.state = 0 /\ b[1] # SYNC1 => y = x
         /\ x.state = 1 /\ b[1] = SYNC2 => Fields(y, 2, f, x.expected)
         /\ x.state = 1 /\ b[1] # SYNC2 => Fields(y, 0, x.frame, x.expected)
         /\ x.state = 2 /\ Len(f) < HEADER => Fields(y, 2, f, x.expected)
         /\ x.state = 2 /\ Len(f) >= HEADER /\ n > UBX_FRAME_MAX => Fields(y, 0, <<>>, x.expected)
         /\ x.state = 2 /\ Len(f) >= HEADER /\ ~(n > UBX_FRAME_MAX) => Fields(y, 3, f, n)
         /\ x.state = 3 => Fields(y, 3, f, x.expected)
<1> DEFINE f == Append(x.frame, b)
           n == f[HEADER][1] + OVERHEAD
<1>1. f \in Seq(Symbol) /\ <<b>> \in Seq(Symbol) /\ <<>> \in Seq(Symbol)
      /\ (0 \in 0 .. 3 /\ 1 \in 0 .. 3 /\ 2 \in 0 .. 3)
  BY DEF Parser
<1>2. \A s \in 0 .. 3, g \in Seq(Symbol) :
        /\ Fields([x EXCEPT !.state = s], s, x.frame, x.expected)
        /\ Fields([x EXCEPT !.frame = g], x.state, g, x.expected)
        /\ Fields([x EXCEPT !.state = s, !.frame = g], s, g, x.expected)
  BY ParserFields, Zenon
<1>3. ASSUME x.state = 0, b[1] = SYNC1
      PROVE  Fields(Collect(x, b), 1, <<b>>, x.expected)
  <2>1. Collect(x, b) = [x EXCEPT !.state = 1, !.frame = <<b>>]
    BY <1>3 DEF Collect
  <2> QED BY <1>1, <1>2, <2>1, Zenon
<1>4. ASSUME x.state = 0, b[1] # SYNC1
      PROVE  Collect(x, b) = x
  BY <1>4 DEF Collect
<1>5. ASSUME x.state = 1, b[1] = SYNC2
      PROVE  Fields(Collect(x, b), 2, f, x.expected)
  <2>1. Collect(x, b) = [x EXCEPT !.state = 2, !.frame = f]
    BY <1>5 DEF Collect
  <2> QED BY <1>1, <1>2, <2>1, Zenon
<1>6. ASSUME x.state = 1, b[1] # SYNC2
      PROVE  Fields(Collect(x, b), 0, x.frame, x.expected)
  <2>1. Collect(x, b) = [x EXCEPT !.state = 0]
    BY <1>6 DEF Collect
  <2> QED BY <1>1, <1>2, <2>1, Zenon
<1>70. ~(Len(f) < HEADER /\ Len(f) >= HEADER)
  BY DEF HEADER, Parser
<1>71. x.state = 2 /\ Len(f) >= HEADER =>
        Collect(x, b) = IF n > UBX_FRAME_MAX THEN [x EXCEPT !.state = 0, !.frame = <<>>]
                                             ELSE [state |-> 3, frame |-> f, expected |-> n]
  <2>1. 2 # 0 /\ 2 # 1 /\ 2 # 3
    OBVIOUS
  <2> QED BY <1>70, <2>1, Zenon DEF Collect
<1>7. ASSUME x.state = 2, Len(f) < HEADER
      PROVE  Fields(Collect(x, b), 2, f, x.expected)
  <2>1. Collect(x, b) = [x EXCEPT !.frame = f]
    BY <1>7, <1>70 DEF Collect
  <2> QED BY <1>1, <1>2, <1>7, <2>1, Zenon
<1>9. ASSUME x.state = 2, Len(f) >= HEADER, n > UBX_FRAME_MAX
      PROVE  Fields(Collect(x, b), 0, <<>>, x.expected)
  <2>1. Collect(x, b) = [x EXCEPT !.state = 0, !.frame = <<>>]
    BY <1>71, <1>9
  <2> QED BY <1>1, <1>2, <2>1, Zenon
<1>10. ASSUME x.state = 2, Len(f) >= HEADER, ~(n > UBX_FRAME_MAX)
       PROVE  Fields(Collect(x, b), 3, f, n)
  <2>1. Collect(x, b) = [state |-> 3, frame |-> f, expected |-> n]
    BY <1>71, <1>10
  <2> HIDE DEF f
  <2>2. n \in Nat
    <3>1. f[HEADER] \in Symbol
      BY <1>1, <1>10 DEF HEADER
    <3>2. f[HEADER][1] \in Nat
      BY <3>1 DEF Symbol
    <3> QED BY <3>2 DEF OVERHEAD
  <2> HIDE DEF f, n
  <2>3. 3 \in 0 .. 3
    OBVIOUS
  <2>4. [state |-> 3, frame |-> f, expected |-> n] \in Parser
    BY <1>1, <2>2, <2>3, Zenon DEF Parser
  <2> QED BY <2>1, <2>4 DEF Fields
<1>11. ASSUME x.state = 3
       PROVE  Fields(Collect(x, b), 3, f, x.expected)
  <2>1. Collect(x, b) = [x EXCEPT !.frame = f]
    BY <1>11 DEF Collect
  <2> QED BY <1>1, <1>2, <1>11, <2>1, Zenon
<1> QED BY <1>3, <1>4, <1>5, <1>6, <1>7, <1>9, <1>10, <1>11, Zenon

\* A byte leaves the parser as it should be, or completes a frame it was adding to.
LEMMA CollectFits ==
  ASSUME NEW x \in Parser, ParserFits(x), NEW b \in Symbol, NEW y, y = Collect(x, b)
  PROVE  /\ y \in Parser
         /\ ~Complete(y) => ParserFits(y)
         /\ Complete(y) => /\ x.state = 3 /\ y.state = 3 /\ y.frame = Append(x.frame, b)
                           /\ Len(y.frame) = y.expected /\ Len(y.frame) > HEADER
<1> DEFINE f == Append(x.frame, b)
           n == f[HEADER][1] + OVERHEAD
           Goal == /\ y \in Parser
                   /\ ~Complete(y) => ParserFits(y)
                   /\ Complete(y) => /\ x.state = 3 /\ y.state = 3 /\ y.frame = f
                                     /\ Len(y.frame) = y.expected /\ Len(y.frame) > HEADER
<1>1. /\ x.frame \in Seq(Symbol) /\ Len(x.frame) \in Nat /\ x.expected \in Nat
      /\ f \in Seq(Symbol) /\ Len(f) = Len(x.frame) + 1 /\ x.state \in 0 .. 3
  BY DEF Parser
<1>2. Len(<<b>>) = 1 /\ Len(<<>>) = 0
  OBVIOUS
<1>4. /\ x.state = 0 /\ b[1] = SYNC1 => Fields(y, 1, <<b>>, x.expected)
      /\ x.state = 0 /\ b[1] # SYNC1 => y = x
      /\ x.state = 1 /\ b[1] = SYNC2 => Fields(y, 2, f, x.expected)
      /\ x.state = 1 /\ b[1] # SYNC2 => Fields(y, 0, x.frame, x.expected)
      /\ x.state = 2 /\ Len(f) < HEADER => Fields(y, 2, f, x.expected)
      /\ x.state = 2 /\ Len(f) >= HEADER /\ n > UBX_FRAME_MAX => Fields(y, 0, <<>>, x.expected)
      /\ x.state = 2 /\ Len(f) >= HEADER /\ ~(n > UBX_FRAME_MAX) => Fields(y, 3, f, n)
      /\ x.state = 3 => Fields(y, 3, f, x.expected)
  BY Collected, Zenon
<1> HIDE DEF f, n
<1> SUFFICES Goal
  BY DEF f
<1>5. CASE x.state = 0
  <2>1. CASE b[1] = SYNC1
    <3>1. y \in Parser /\ y.state = 1 /\ y.frame = <<b>>
      BY <1>4, <1>5, <2>1, Zenon DEF Fields
    <3>2. Len(y.frame) = 1
      BY <1>2, <3>1, Zenon
    <3> QED BY <3>1, <3>2 DEF Complete, ParserFits
  <2>2. CASE b[1] # SYNC1
    BY <1>4, <1>5, <2>2 DEF Complete, ParserFits
  <2> QED BY <2>1, <2>2
<1>6. CASE x.state = 1
  <2>1. CASE b[1] = SYNC2
    <3>1. y \in Parser /\ y.state = 2 /\ y.frame = f
      BY <1>4, <1>6, <2>1, Zenon DEF Fields
    <3>2. Len(x.frame) = 1
      BY <1>6 DEF ParserFits
    <3>3. Len(y.frame) = 2
      BY <1>1, <3>1, <3>2
    <3> QED BY <3>1, <3>3 DEF Complete, ParserFits
  <2>2. CASE b[1] # SYNC2
    <3>1. y \in Parser /\ y.state = 0 /\ y.frame = x.frame
      BY <1>4, <1>6, <2>2, Zenon DEF Fields
    <3>2. Len(y.frame) = 1
      BY <1>6, <3>1 DEF ParserFits
    <3> QED BY <3>1, <3>2 DEF Complete, ParserFits
  <2> QED BY <2>1, <2>2
<1>7. CASE x.state = 2
  <2>1. Len(f) >= 3 /\ Len(f) <= 4
    <3>1. Len(x.frame) >= 2 /\ Len(x.frame) <= 3
      BY <1>7 DEF ParserFits
    <3> QED BY <1>1, <3>1
  <2>2. CASE Len(f) < HEADER
    <3>1. y \in Parser /\ y.state = 2 /\ y.frame = f
      BY <1>4, <1>7, <2>2, Zenon DEF Fields
    <3>2. Len(f) = 3
      BY <1>1, <2>1, <2>2 DEF HEADER
    <3> QED BY <3>1, <3>2 DEF Complete, ParserFits
  <2>3. CASE Len(f) >= HEADER /\ n > UBX_FRAME_MAX
    <3>1. y \in Parser /\ y.state = 0 /\ y.frame = <<>>
      BY <1>4, <1>7, <2>3, Zenon DEF Fields
    <3>2. Len(y.frame) = 0
      BY <1>2, <3>1, Zenon
    <3> QED BY <3>1, <3>2 DEF Complete, ParserFits
  <2>4. CASE Len(f) >= HEADER /\ ~(n > UBX_FRAME_MAX)
    <3>2. y \in Parser /\ y.state = 3 /\ y.frame = f /\ y.expected = n
      BY <1>4, <1>7, <2>4 DEF Fields
    <3>3. Len(f) = 4 /\ n > 4 /\ n \in Nat
      <4>1. f[HEADER] \in Symbol
        BY <1>1, <2>4 DEF HEADER
      <4>2. f[HEADER][1] \in Nat
        BY <4>1 DEF Symbol
      <4>3. Len(f) = 4
        BY <1>1, <2>1, <2>4 DEF HEADER
      <4>4. n > 4 /\ n \in Nat
        BY <4>2 DEF OVERHEAD, n
      <4> QED BY <4>3, <4>4
    <3>4. Complete(y) <=> FALSE
      BY <3>2, <3>3 DEF Complete
    <3>5. ParserFits(y)
      BY <2>4, <3>2, <3>3, UbxConstants DEF ParserFits, HEADER
    <3> QED BY <3>2, <3>4, <3>5 DEF f
  <2> QED BY <2>1, <2>2, <2>3, <2>4 DEF HEADER
<1>8. CASE x.state = 3
  <2>1. y \in Parser /\ y.state = 3 /\ y.frame = f /\ y.expected = x.expected
    BY <1>4, <1>8 DEF Fields
  <2>2. x.expected <= UBX_FRAME_MAX /\ Len(x.frame) >= HEADER /\ Len(x.frame) < x.expected
    BY <1>8 DEF ParserFits
  <2> QED BY <1>1, <1>8, <2>1, <2>2 DEF Complete, ParserFits, HEADER, f
<1> QED BY <1>1, <1>5, <1>6, <1>7, <1>8

IsFrame(w) == \/ \E p \in Poll : w = Answer(p)
              \/ \E k \in Nat : k >= 256 /\ w = Reject(k)
\* What the symbols of an answer are.
LEMMA AnswerIs ==
  ASSUME NEW p \in Poll, NEW w, w = Answer(p)
  PROVE  /\ w \in Seq(Symbol) /\ Len(w) = 6
         /\ w[1] = <<SYNC1, p>> /\ w[2] = <<SYNC2, p>> /\ w[3] = <<Key[p], p>>
         /\ w[4] = <<1, p>> /\ w[5] = <<DATA, p>> /\ w[6] = <<CKSUM, p>>
<1>1. Key[p] \in Nat /\ 1 \in Nat /\ SYNC1 \in Nat /\ SYNC2 \in Nat /\ DATA \in Nat /\ CKSUM \in Nat
  BY UbxConstants DEF SYNC1, SYNC2, DATA, CKSUM
<1>2. /\ <<SYNC1, p>> \in Symbol /\ <<SYNC2, p>> \in Symbol /\ <<Key[p], p>> \in Symbol
      /\ <<1, p>> \in Symbol /\ <<DATA, p>> \in Symbol /\ <<CKSUM, p>> \in Symbol
  BY <1>1 DEF Symbol
<1>3. w \in Seq(Symbol) /\ Len(w) = 6
  BY <1>2 DEF Answer
<1> QED BY <1>3 DEF Answer

LEMMA RejectIs ==
  ASSUME NEW k \in Nat, NEW w, w = Reject(k)
  PROVE  /\ w \in Seq(Symbol) /\ Len(w) = 6
         /\ w[1] = <<SYNC1, 0>> /\ w[2] = <<SYNC2, 0>> /\ w[3] = <<NAK, 0>>
         /\ w[4] = <<1, 0>> /\ w[5] = <<k, 0>> /\ w[6] = <<CKSUM, 0>>
<1>1. 0 \in Nat /\ 1 \in Nat /\ SYNC1 \in Nat /\ SYNC2 \in Nat /\ NAK \in Nat /\ CKSUM \in Nat
  BY DEF SYNC1, SYNC2, NAK, CKSUM
<1>2. /\ <<SYNC1, 0>> \in Symbol /\ <<SYNC2, 0>> \in Symbol /\ <<NAK, 0>> \in Symbol
      /\ <<1, 0>> \in Symbol /\ <<k, 0>> \in Symbol /\ <<CKSUM, 0>> \in Symbol
  BY <1>1 DEF Symbol
<1>3. w \in Seq(Symbol) /\ Len(w) = 6
  BY <1>2 DEF Reject
<1> QED BY <1>3 DEF Reject

LEMMA FrameIs ==
  ASSUME NEW w, IsFrame(w)
  PROVE  /\ w \in Seq(Symbol) /\ Len(w) = 6
         /\ w[1][1] = SYNC1 /\ w[2][1] = SYNC2 /\ w[4][1] = 1
         /\ \A i \in 2 .. 6 : w[i][1] # SYNC1
         /\ \A q \in Poll, i \in 1 .. 6 : w[i] = <<CKSUM, q>> => i = 6 /\ w = Answer(q)
<1>1. \A i \in 1 .. 6 : i = 1 \/ i = 2 \/ i = 3 \/ i = 4 \/ i = 5 \/ i = 6
  OBVIOUS
<1>2. ASSUME NEW p \in Poll, w = Answer(p)
      PROVE  /\ w \in Seq(Symbol) /\ Len(w) = 6
             /\ w[1][1] = SYNC1 /\ w[2][1] = SYNC2 /\ w[4][1] = 1
             /\ \A i \in 2 .. 6 : w[i][1] # SYNC1
             /\ \A q \in Poll, i \in 1 .. 6 : w[i] = <<CKSUM, q>> => i = 6 /\ w = Answer(q)
  <2>1. /\ w \in Seq(Symbol) /\ Len(w) = 6
        /\ w[1] = <<SYNC1, p>> /\ w[2] = <<SYNC2, p>> /\ w[3] = <<Key[p], p>>
        /\ w[4] = <<1, p>> /\ w[5] = <<DATA, p>> /\ w[6] = <<CKSUM, p>>
    BY <1>2, AnswerIs
  <2>2. Key[p] >= 256 /\ Key[p] \in Nat
    BY UbxConstants
  <2>3. /\ w[1][1] = SYNC1 /\ w[2][1] = SYNC2 /\ w[3][1] = Key[p] /\ w[4][1] = 1
        /\ w[5][1] = DATA /\ w[6][1] = CKSUM /\ w[6][2] = p
    BY <2>1
  <2>4. ASSUME NEW q \in Poll, NEW i \in 1 .. 6, w[i] = <<CKSUM, q>>
        PROVE  i = 6 /\ w = Answer(q)
    <3>1. w[i][1] = CKSUM /\ w[i][2] = q
      BY <2>4
    <3>2. i = 6
      BY <1>1, <2>2, <2>3, <3>1 DEF SYNC1, SYNC2, DATA, CKSUM
    <3> QED BY <1>2, <2>3, <3>1, <3>2
  <2>5. ASSUME NEW i \in 2 .. 6
        PROVE  w[i][1] # SYNC1
    BY <1>1, <2>2, <2>3 DEF SYNC1, SYNC2, DATA, CKSUM
  <2> QED BY <2>1, <2>3, <2>4, <2>5
<1>3. ASSUME NEW k \in Nat, k >= 256, w = Reject(k)
      PROVE  /\ w \in Seq(Symbol) /\ Len(w) = 6
             /\ w[1][1] = SYNC1 /\ w[2][1] = SYNC2 /\ w[4][1] = 1
             /\ \A i \in 2 .. 6 : w[i][1] # SYNC1
             /\ \A q \in Poll, i \in 1 .. 6 : w[i] = <<CKSUM, q>> => i = 6 /\ w = Answer(q)
  <2>1. /\ w \in Seq(Symbol) /\ Len(w) = 6
        /\ w[1] = <<SYNC1, 0>> /\ w[2] = <<SYNC2, 0>> /\ w[3] = <<NAK, 0>>
        /\ w[4] = <<1, 0>> /\ w[5] = <<k, 0>> /\ w[6] = <<CKSUM, 0>>
    BY <1>3, RejectIs
  <2>2. /\ w[1][1] = SYNC1 /\ w[2][1] = SYNC2 /\ w[3][1] = NAK /\ w[4][1] = 1
        /\ w[5][1] = k /\ w[6][1] = CKSUM
        /\ w[1][2] = 0 /\ w[2][2] = 0 /\ w[3][2] = 0 /\ w[4][2] = 0 /\ w[5][2] = 0 /\ w[6][2] = 0
    BY <2>1
  <2>3. ASSUME NEW q \in Poll, NEW i \in 1 .. 6, w[i] = <<CKSUM, q>>
        PROVE  FALSE
    <3>1. w[i][2] = q /\ q # 0
      BY <2>3, UbxConstants
    <3> QED BY <1>1, <2>2, <3>1
  <2>4. ASSUME NEW i \in 2 .. 6
        PROVE  w[i][1] # SYNC1
    BY <1>1, <1>3, <2>2 DEF SYNC1, SYNC2, NAK, CKSUM
  <2> QED BY <2>1, <2>2, <2>3, <2>4
<1> QED BY <1>2, <1>3 DEF IsFrame
-----------------------------------------------------------------------------
(* Types *)

LEMMA UbxInitTypes == UbxInit => UbxTypes
<1> SUFFICES ASSUME UbxInit PROVE UbxTypes
  OBVIOUS
<1>1. /\ cur \in 1 .. Len(Key) + 1 /\ retry \in 0 .. MAX_RETRY /\ noise \in 0 .. MaxNoise
      /\ pending \in Seq(Poll \cup {0}) /\ line \in Seq(Symbol)
  <2>1. /\ 1 \in 1 .. Len(Key) + 1 /\ 0 \in 0 .. MAX_RETRY /\ 0 \in 0 .. MaxNoise
    BY UbxConstants
  <2>2. <<>> \in Seq(Poll \cup {0}) /\ <<0>> \in Seq(Poll \cup {0}) /\ <<>> \in Seq(Symbol)
    OBVIOUS
  <2> QED BY <2>1, <2>2, Zenon DEF UbxInit
<1>2. parser \in Parser /\ ParserFits(parser)
  BY HuntingFits DEF UbxInit
<1>3. /\ outcome \in [Poll -> {"none", "ok", "nak", "cksum_err"}]
      /\ file \in [Poll -> Poll \cup {0}]
  BY DEF UbxInit
<1> QED BY <1>1, <1>2, <1>3 DEF UbxInit, UbxTypes, UbxTypeOK, Parser

\* What Return leaves, the same whatever it returns.
LEMMA ReturnTypes ==
  ASSUME UbxTypes, waiting, NEW r \in {"none", "ok", "nak", "cksum_err"}, Return(r)
  PROVE  /\ cur' \in 1 .. Len(Key) + 1 /\ retry' \in 0 .. MAX_RETRY
         /\ waiting' = FALSE /\ cksum_err' = FALSE /\ parser' = Hunting
         /\ cur \in Poll /\ cur \in Int /\ (cur' = cur \/ cur' = cur + 1)
         /\ r \in {"ok", "nak"} => cur' = cur + 1
         /\ outcome' = [outcome EXCEPT ![cur] = r]
         /\ outcome' \in [Poll -> {"none", "ok", "nak", "cksum_err"}]
<1>1. cur \in Poll /\ cur \in 1 .. Len(Key) /\ retry \in 0 .. MAX_RETRY
  BY UbxConstants DEF UbxTypes, UbxTypeOK
<1>2. cur' \in 1 .. Len(Key) + 1
  BY <1>1, UbxConstants DEF Return
<1>3. retry' \in 0 .. MAX_RETRY
  BY <1>1, UbxConstants DEF Return
<1>4. outcome' \in [Poll -> {"none", "ok", "nak", "cksum_err"}]
  BY <1>1 DEF Return, UbxTypes, UbxTypeOK
<1> QED BY <1>1, <1>2, <1>3, <1>4 DEF Return

\* What a byte does whatever comes of it.
LEMMA ByteTypes ==
  ASSUME UbxTypes, Byte
  PROVE  \E b \in Symbol, x \in Parser :
           /\ x = Collect(parser, b) /\ Judge(x)
           /\ ~Complete(x) => ParserFits(x)
           /\ Complete(x) => /\ parser.state = 3 /\ x.state = 3 /\ x.frame = Append(parser.frame, b)
                             /\ Len(x.frame) = x.expected /\ Len(x.frame) > HEADER
           /\ \/ b = Head(line) /\ noise' = noise
              \/ b # Head(line) /\ b[2] = 0 /\ noise' = noise + 1 /\ noise < MaxNoise
           /\ Head(line) \in Symbol /\ line \in Seq(Symbol) /\ Len(line) > 0
           /\ waiting /\ cur \in Poll /\ line' = Tail(line)
<1>1. /\ line \in Seq(Symbol) /\ line # <<>> /\ waiting /\ line' = Tail(line) /\ cur \in Poll
      /\ parser \in Parser /\ ParserFits(parser)
  BY DEF Byte, UbxTypes, UbxTypeOK, Parser
<1>2. Head(line) \in Symbol /\ Len(line) > 0
  BY <1>1
<1>3. PICK b \in {Head(line)} \cup (IF noise < MaxNoise THEN Noise \X {0} ELSE {}) :
        /\ noise' = IF b = Head(line) THEN noise ELSE noise + 1
        /\ Judge(Collect(parser, b))
  BY DEF Byte
<1>4. b # Head(line) => noise < MaxNoise /\ b \in Noise \X {0}
  BY <1>3
<1>5. b # Head(line) => b \in Symbol /\ b[2] = 0
  BY <1>4, UbxConstants DEF Symbol
<1>6. b \in Symbol
  BY <1>2, <1>5
<1> DEFINE x == Collect(parser, b)
<1>7. /\ x \in Parser
      /\ ~Complete(x) => ParserFits(x)
      /\ Complete(x) => /\ parser.state = 3 /\ x.state = 3 /\ x.frame = Append(parser.frame, b)
                        /\ Len(x.frame) = x.expected /\ Len(x.frame) > HEADER
  BY <1>1, <1>6, CollectFits
<1>8. Judge(x)
  BY <1>3
<1> HIDE DEF x
<1>9. x = Collect(parser, b)
  BY DEF x
<1> QED BY <1>1, <1>2, <1>3, <1>4, <1>5, <1>6, <1>7, <1>8, <1>9

LEMMA SendPollTypes == UbxTypes /\ SendPoll => UbxTypes'
<1> SUFFICES ASSUME UbxTypes, SendPoll PROVE UbxTypes'
  OBVIOUS
<1>1. line \in Seq(Symbol) /\ pending \in Seq(Poll \cup {0}) /\ cur \in Poll /\ cut \in BOOLEAN
  BY DEF UbxTypes, UbxTypeOK, SendPoll
<1>2. PICK d \in 0 .. Len(line) :
        /\ line' = SubSeq(line, d + 1, Len(line))
        /\ cut' = (cut \/ (d < Len(line) /\ line[d + 1][1] # SYNC1))
  BY DEF SendPoll
<1>3. line' \in Seq(Symbol) /\ pending' \in Seq(Poll \cup {0}) /\ cut' \in BOOLEAN
  <2>1. line' \in Seq(Symbol)
    BY <1>1, <1>2
  <2>2. pending' \in Seq(Poll \cup {0})
    BY <1>1 DEF SendPoll
  <2>3. cut' \in BOOLEAN
    BY <1>1, <1>2, Zenon
  <2> QED BY <2>1, <2>2, <2>3
<1>4. parser' \in Parser /\ ParserFits(parser')
  BY HuntingFits, Zenon DEF SendPoll
<1>5. ParserFits(parser)'
  BY <1>4 DEF ParserFits
<1> QED BY <1>1, <1>3, <1>4, <1>5 DEF SendPoll, UbxTypes, UbxTypeOK, Parser

LEMMA ByteKeepsTypes == UbxTypes /\ Byte => UbxTypes'
<1> SUFFICES ASSUME UbxTypes, Byte PROVE UbxTypes'
  OBVIOUS
<1>1. PICK b \in Symbol, x \in Parser :
           /\ x = Collect(parser, b) /\ Judge(x)
           /\ ~Complete(x) => ParserFits(x)
           /\ Complete(x) => /\ parser.state = 3 /\ x.state = 3 /\ x.frame = Append(parser.frame, b)
                             /\ Len(x.frame) = x.expected /\ Len(x.frame) > HEADER
           /\ \/ b = Head(line) /\ noise' = noise
              \/ b # Head(line) /\ b[2] = 0 /\ noise' = noise + 1 /\ noise < MaxNoise
           /\ Head(line) \in Symbol /\ line \in Seq(Symbol) /\ Len(line) > 0
           /\ waiting /\ cur \in Poll /\ line' = Tail(line)
  BY ByteTypes
<1>2. /\ line' \in Seq(Symbol) /\ pending' \in Seq(Poll \cup {0}) /\ cut' \in BOOLEAN
      /\ late' \subseteq Poll
  <2>1. line' \in Seq(Symbol)
    BY <1>1
  <2>2. pending' = pending /\ cut' = cut /\ late' = late
    BY DEF Byte
  <2> QED BY <2>1, <2>2 DEF UbxTypes, UbxTypeOK
<1>3. noise' \in 0 .. MaxNoise
  <2>1. noise \in 0 .. MaxNoise /\ MaxNoise \in Nat
    BY UbxConstants DEF UbxTypes, UbxTypeOK
  <2>2. noise' = noise \/ (noise' = noise + 1 /\ noise < MaxNoise)
    BY <1>1, Zenon
  <2> QED BY <2>1, <2>2
<1>4. missed \in BOOLEAN /\ cksum_err \in BOOLEAN
  BY DEF UbxTypes, UbxTypeOK
<1> DEFINE Rest == /\ cur' \in 1 .. Len(Key) + 1 /\ retry' \in 0 .. MAX_RETRY
                   /\ waiting' \in BOOLEAN /\ cksum_err' \in BOOLEAN /\ missed' \in BOOLEAN
                   /\ outcome' \in [Poll -> {"none", "ok", "nak", "cksum_err"}]
                   /\ file' \in [Poll -> Poll \cup {0}]
                   /\ parser' \in Parser /\ ParserFits(parser') 
                   /\ (waiting' => cur' \in Poll) /\ (~waiting' => parser' = Hunting)
<1>5. CASE /\ ~Complete(x)
           /\ parser' = x
           /\ missed' = (missed \/ Head(line) = <<CKSUM, cur>>)
           /\ UNCHANGED <<cur, retry, waiting, cksum_err, outcome, file>>
  <2>1. parser' \in Parser /\ ParserFits(parser')
    BY <1>1, <1>5, Zenon
  <2>2. missed' \in BOOLEAN
    BY <1>5, Zenon
  <2>3. Rest
    BY <1>1, <1>4, <1>5, <2>1, <2>2 DEF UbxTypes, UbxTypeOK
  <2> QED BY <1>2, <1>3, <2>3 DEF UbxTypes, UbxTypeOK, Parser, ParserFits
<1>6. CASE /\ Complete(x) /\ Rejects(x.frame, cur)
           /\ Return("nak")
           /\ UNCHANGED <<missed, file>>
  <2>1. /\ cur' \in 1 .. Len(Key) + 1 /\ retry' \in 0 .. MAX_RETRY
        /\ waiting' = FALSE /\ cksum_err' = FALSE /\ parser' = Hunting
        /\ outcome' \in [Poll -> {"none", "ok", "nak", "cksum_err"}]
    BY <1>1, <1>6, ReturnTypes
  <2>2. Rest
    BY <1>4, <1>6, <2>1, HuntingFits DEF UbxTypes, UbxTypeOK
  <2> QED BY <1>2, <1>3, <2>2 DEF UbxTypes, UbxTypeOK, Parser, ParserFits
<1>7. CASE /\ Complete(x) /\ Answers(x.frame, cur)
           /\ Return("ok")
           /\ file' = [file EXCEPT ![cur] = x.frame[Len(x.frame)][2]]
           /\ UNCHANGED missed
  <2>1. /\ cur' \in 1 .. Len(Key) + 1 /\ retry' \in 0 .. MAX_RETRY
        /\ waiting' = FALSE /\ cksum_err' = FALSE /\ parser' = Hunting
        /\ outcome' \in [Poll -> {"none", "ok", "nak", "cksum_err"}]
    BY <1>1, <1>7, ReturnTypes
  <2>2. x.frame[Len(x.frame)] \in Symbol
    BY <1>1, <1>7 DEF Parser, HEADER
  <2>3. x.frame[Len(x.frame)][2] \in Poll \cup {0}
    BY <2>2 DEF Symbol
  <2>4. file' \in [Poll -> Poll \cup {0}]
    BY <1>7, <2>3 DEF UbxTypes, UbxTypeOK
  <2>5. Rest
    BY <1>4, <1>7, <2>1, <2>4, HuntingFits
  <2> QED BY <1>2, <1>3, <2>5 DEF UbxTypes, UbxTypeOK, Parser, ParserFits
<1>8. CASE /\ Complete(x) /\ ~Rejects(x.frame, cur) /\ ~Answers(x.frame, cur)
           /\ parser' = Hunting
           /\ cksum_err' = (cksum_err \/ (~IsNak(x.frame) /\ x.frame[3][1] = Key[cur]))
           /\ missed' = (missed \/ Head(line) = <<CKSUM, cur>>)
           /\ UNCHANGED <<cur, retry, waiting, outcome, file>>
  <2>1. missed' \in BOOLEAN /\ cksum_err' \in BOOLEAN
    BY <1>4, <1>8, Zenon
  <2>2. Rest
    BY <1>1, <1>4, <1>8, <2>1, HuntingFits DEF UbxTypes, UbxTypeOK
  <2> QED BY <1>2, <1>3, <2>2 DEF UbxTypes, UbxTypeOK, Parser, ParserFits
<1> QED BY <1>1, <1>5, <1>6, <1>7, <1>8 DEF Judge

LEMMA GiveUpTypes == UbxTypes /\ GiveUp => UbxTypes'
<1> SUFFICES ASSUME UbxTypes, GiveUp PROVE UbxTypes'
  OBVIOUS
<1>1. PICK r \in {"none", "cksum_err"} : Return(r)
  BY DEF GiveUp
<1>2. /\ cur' \in 1 .. Len(Key) + 1 /\ retry' \in 0 .. MAX_RETRY
      /\ waiting' = FALSE /\ cksum_err' = FALSE /\ parser' = Hunting /\ cur \in Poll
      /\ outcome' \in [Poll -> {"none", "ok", "nak", "cksum_err"}]
  BY <1>1, ReturnTypes DEF GiveUp
<1>3. parser' \in Parser /\ ParserFits(parser')
  BY <1>2, HuntingFits, Zenon
<1>4. ParserFits(parser)'
  BY <1>3 DEF ParserFits
<1> QED BY <1>2, <1>3, <1>4 DEF GiveUp, lineVars, UbxTypes, UbxTypeOK, Parser

\* What the receiver sends is one frame, or nothing.
LEMMA ReceiverSends ==
  ASSUME UbxTypes, Receiver
  PROVE  /\ pending # <<>> /\ Head(pending) \in Poll \cup {0} /\ pending' = Tail(pending)
         /\ \/ line' = line
            \/ \E w : /\ IsFrame(w) /\ line' = line \o w
                      /\ \/ \E k \in Nat : k >= 256 /\ w = Reject(k)
                         \/ Head(pending) \in Poll /\ w = Answer(Head(pending))
<1>1. pending # <<>> /\ Head(pending) \in Poll \cup {0} /\ pending' = Tail(pending)
  BY DEF Receiver, UbxTypes, UbxTypeOK
<1> DEFINE p == Head(pending)
           k == IF p = 0 THEN DebugKey ELSE Key[p]
<1>2. k \in Nat /\ k >= 256
  BY <1>1, UbxConstants
<1>3. \/ line' = line
      \/ line' = line \o Reject(k)
      \/ p # 0 /\ line' = line \o Answer(p)
  BY Zenon DEF Receiver
<1> HIDE DEF k, p
<1>4. p # 0 => p \in Poll
  BY <1>1 DEF p
<1>5. IsFrame(Reject(k))
  BY <1>2, Zenon DEF IsFrame
<1>6. p \in Poll => IsFrame(Answer(p))
  BY Zenon DEF IsFrame
<1>7. CASE line' = line
  BY <1>1, <1>7
<1>8. CASE line' = line \o Reject(k)
  BY <1>1, <1>2, <1>5, <1>8, Zenon
<1>9. CASE p # 0 /\ line' = line \o Answer(p)
  BY <1>1, <1>4, <1>6, <1>9, Zenon DEF p
<1> QED BY <1>3, <1>7, <1>8, <1>9

LEMMA ReceiverTypes == UbxTypes /\ Receiver => UbxTypes'
<1> SUFFICES ASSUME UbxTypes, Receiver PROVE UbxTypes'
  OBVIOUS
<1>1. pending' \in Seq(Poll \cup {0})
  <2>1. pending \in Seq(Poll \cup {0}) /\ pending # <<>> /\ pending' = Tail(pending)
    BY DEF Receiver, UbxTypes, UbxTypeOK
  <2> QED BY <2>1
<1>2. line \in Seq(Symbol)
  BY DEF UbxTypes, UbxTypeOK
<1>3. line' \in Seq(Symbol)
  <2>1. CASE line' = line
    BY <1>2, <2>1
  <2>2. CASE \E w : IsFrame(w) /\ line' = line \o w
    <3>1. PICK w : IsFrame(w) /\ line' = line \o w
      BY <2>2
    <3>2. w \in Seq(Symbol)
      BY <3>1, FrameIs
    <3> QED BY <1>2, <3>1, <3>2
  <2> QED BY <2>1, <2>2, ReceiverSends, Zenon
<1> QED BY <1>1, <1>3 DEF Receiver, pollVars, UbxTypes, UbxTypeOK, ParserFits

LEMMA UbxTypesInductive == UbxTypes /\ [UbxNext]_ubxVars => UbxTypes'
<1>1. UbxTypes /\ UNCHANGED ubxVars => UbxTypes'
  BY DEF ubxVars, pollVars, lineVars, UbxTypes, UbxTypeOK, ParserFits
<1> QED BY <1>1, SendPollTypes, ByteKeepsTypes, GiveUpTypes, ReceiverTypes DEF UbxNext
-----------------------------------------------------------------------------
(* What is owed: FiledExplained *)

In(s, e) == \E i \in 1 .. Len(s) : s[i] = e
Once(s, e) == \A i, j \in 1 .. Len(s) : s[i] = e /\ s[j] = e => i = j
Seal(q) == <<CKSUM, q>>

Asked(q) == In(pending, q)
Sealed(q) == In(line, Seal(q))
OneOwed(q) == Once(pending, q) /\ Once(line, Seal(q)) /\ ~(Asked(q) /\ Sealed(q))

\* An answer to the poll may come when it is no longer awaited, or one that came
\* was not taken for it.
Open(q) == q \in late \/ outcome[q] = "nak" \/ file[q] \notin {0, q}

Owing ==
  /\ \A q \in Poll : Asked(q) \/ Sealed(q) =>
       q <= cur /\ (q < cur => Open(q)) /\ (q = cur => waiting \/ q \in late)
  /\ \A q \in Poll : q = cur /\ q \notin late => OneOwed(q)
  /\ \A p \in Poll : p >= cur => file[p] = 0

LEMMA TailIn ==
  ASSUME NEW S, NEW s \in Seq(S), s # <<>>, NEW t, t = Tail(s), NEW e
  PROVE  /\ In(t, e) => In(s, e)
         /\ Once(s, e) => Once(t, e)
         /\ Once(s, e) /\ Head(s) = e => ~In(t, e)
         /\ In(s, Head(s))
<1>1. /\ Len(s) \in Nat /\ Len(s) >= 1 /\ Len(t) = Len(s) - 1 /\ Head(s) = s[1]
      /\ \A i \in 1 .. Len(t) : t[i] = s[i + 1] /\ i + 1 \in 1 .. Len(s)
  OBVIOUS
<1>2. In(t, e) => In(s, e)
  BY <1>1 DEF In
<1>3. Once(s, e) => Once(t, e)
  BY <1>1 DEF Once
<1>4. Once(s, e) /\ Head(s) = e => ~In(t, e)
  BY <1>1 DEF In, Once
<1>5. In(s, Head(s))
  BY <1>1 DEF In
<1> QED BY <1>2, <1>3, <1>4, <1>5

Suffix(t, s, S) ==
  s \in Seq(S) /\ \E d \in 0 .. Len(s) : t = SubSeq(s, d + 1, Len(s))

LEMMA SuffixIn ==
  ASSUME NEW S, NEW s, NEW t, Suffix(t, s, S), NEW e
  PROVE  /\ In(t, e) => In(s, e)
         /\ Once(s, e) => Once(t, e)
<1>4. PICK d \in 0 .. Len(s) : t = SubSeq(s, d + 1, Len(s))
  BY DEF Suffix
<1>5. s \in Seq(S)
  BY DEF Suffix
<1>1. /\ Len(s) \in Nat /\ Len(t) = Len(s) - d
      /\ \A i \in 1 .. Len(t) : t[i] = s[i + d] /\ i + d \in 1 .. Len(s)
  BY <1>4, <1>5
<1>2. In(t, e) => In(s, e)
  BY <1>1 DEF In
<1>3. ASSUME Once(s, e), NEW i \in 1 .. Len(t), NEW j \in 1 .. Len(t), t[i] = e, t[j] = e
      PROVE  i = j
  <2>1. /\ i + d \in 1 .. Len(s) /\ s[i + d] = e
        /\ j + d \in 1 .. Len(s) /\ s[j + d] = e
    BY <1>1, <1>3
  <2>2. i + d = j + d
    BY <1>3, <2>1, Zenon DEF Once
  <2> QED BY <1>1, <2>2
<1> QED BY <1>2, <1>3 DEF Once

LEMMA AppendIn ==
  ASSUME NEW S, NEW s \in Seq(S), NEW x \in S, NEW t, t = Append(s, x), NEW e
  PROVE  /\ In(t, e) => In(s, e) \/ x = e
         /\ Once(s, e) /\ x # e => Once(t, e)
         /\ ~In(s, e) => Once(t, e)
<1>1. /\ Len(s) \in Nat /\ Len(t) = Len(s) + 1 /\ t[Len(t)] = x
      /\ \A i \in 1 .. Len(t) : i # Len(t) => t[i] = s[i] /\ i \in 1 .. Len(s)
  OBVIOUS
<1>2. In(t, e) => In(s, e) \/ x = e
  BY <1>1 DEF In
<1>3. Once(s, e) /\ x # e => Once(t, e)
  BY <1>1 DEF Once
<1>4. ~In(s, e) => Once(t, e)
  BY <1>1 DEF In, Once
<1> QED BY <1>2, <1>3, <1>4

LEMMA ConcatIn ==
  ASSUME NEW S, NEW s \in Seq(S), NEW w \in Seq(S), NEW t, t = s \o w, NEW e
  PROVE  /\ In(t, e) => In(s, e) \/ In(w, e)
         /\ Once(s, e) /\ ~In(w, e) => Once(t, e)
         /\ ~In(s, e) /\ Once(w, e) => Once(t, e)
<1>1. /\ Len(s) \in Nat /\ Len(w) \in Nat /\ Len(t) = Len(s) + Len(w)
      /\ \A i \in 1 .. Len(t) : \/ i \in 1 .. Len(s) /\ t[i] = s[i]
                                \/ i > Len(s) /\ i - Len(s) \in 1 .. Len(w) /\ t[i] = w[i - Len(s)]
  OBVIOUS
<1>2. In(t, e) => In(s, e) \/ In(w, e)
  BY <1>1 DEF In
<1>3. Once(s, e) /\ ~In(w, e) => Once(t, e)
  BY <1>1 DEF In, Once
<1>4. ASSUME ~In(s, e), Once(w, e), NEW i \in 1 .. Len(t), NEW j \in 1 .. Len(t), t[i] = e, t[j] = e
      PROVE  i = j
  <2>1. /\ i - Len(s) \in 1 .. Len(w) /\ w[i - Len(s)] = e
        /\ j - Len(s) \in 1 .. Len(w) /\ w[j - Len(s)] = e
    BY <1>1, <1>4 DEF In
  <2>2. i - Len(s) = j - Len(s)
    BY <1>4, <2>1, Zenon DEF Once
  <2> QED BY <1>1, <2>2
<1> QED BY <1>2, <1>3, <1>4 DEF Once

LEMMA FrameSeal ==
  ASSUME NEW w, IsFrame(w), NEW q \in Poll
  PROVE  /\ Once(w, Seal(q))
         /\ In(w, Seal(q)) => w = Answer(q)
         /\ \A k \in Nat : k >= 256 /\ w = Reject(k) => ~In(w, Seal(q))
<1>1. Len(w) = 6 /\ \A i \in 1 .. 6 : w[i] = Seal(q) => i = 6 /\ w = Answer(q)
  BY FrameIs, Zenon DEF Seal
<1>2. Once(w, Seal(q)) /\ (In(w, Seal(q)) => w = Answer(q))
  BY <1>1 DEF Once, In
<1>3. ASSUME NEW k \in Nat, w = Reject(k), In(w, Seal(q))
      PROVE  FALSE
  <2>1. w = Answer(q)
    BY <1>2, <1>3
  <2>2. w[6] = <<CKSUM, q>>
    BY <2>1, AnswerIs
  <2>3. w[6] = <<CKSUM, 0>>
    BY <1>3, RejectIs
  <2> QED BY <2>2, <2>3, UbxConstants
<1> QED BY <1>2, <1>3

\* What is left of a frame without its two SYNC symbols.
FromClass(f) == Tail(Tail(f))

\* A right checksum: the bytes from the class on are those of one answer.
LEMMA ChecksumIs ==
  ASSUME NEW f \in Seq(Symbol), Len(f) > HEADER, Checksum(f)
  PROVE  \E q \in Poll : /\ Len(f) = 6 /\ f[3] = <<Key[q], q>> /\ f[6] = Seal(q)
                         /\ f[Len(f)][2] = q
<1>1. PICK q \in Poll : f[Len(f)][2] = q /\ Tail(Tail(f)) = Tail(Tail(Answer(q)))
  BY Zenon DEF Checksum
<1> DEFINE w == Answer(q)
<1>2. w \in Seq(Symbol) /\ Len(w) = 6 /\ w[3] = <<Key[q], q>> /\ w[6] = Seal(q)
  BY AnswerIs DEF Seal
<1> HIDE DEF w
<1>3. ASSUME NEW g \in Seq(Symbol), Len(g) > 2
      PROVE  /\ Len(FromClass(g)) = Len(g) - 2
             /\ \A i \in 1 .. Len(g) - 2 : FromClass(g)[i] = g[i + 2]
  <2> DEFINE t == Tail(g)
  <2>1. t \in Seq(Symbol) /\ Len(t) = Len(g) - 1 /\ \A i \in 1 .. Len(t) : t[i] = g[i + 1]
    BY <1>3
  <2> HIDE DEF t
  <2>2. /\ Len(Tail(t)) = Len(t) - 1 /\ \A i \in 1 .. Len(t) - 1 : Tail(t)[i] = t[i + 1]
    BY <1>3, <2>1
  <2>3. Len(Tail(t)) = Len(g) - 2
    BY <1>3, <2>1, <2>2
  <2>4. ASSUME NEW i \in 1 .. Len(g) - 2
        PROVE  Tail(t)[i] = g[i + 2]
    <3>1. i \in 1 .. Len(t) - 1 /\ i + 1 \in 1 .. Len(t) /\ (i + 1) + 1 = i + 2
      BY <1>3, <2>1
    <3> QED BY <2>1, <2>2, <3>1
  <2> QED BY <2>3, <2>4 DEF t, FromClass
<1>4. Len(f) = 6
  <2>1. FromClass(f) = FromClass(w) /\ Len(f) \in Nat /\ Len(f) > 2
    BY <1>1 DEF w, HEADER, FromClass
  <2>2. Len(w) > 2
    BY <1>2
  <2>3. Len(FromClass(f)) = Len(f) - 2
    BY <1>3, <2>1, Zenon
  <2>4. Len(FromClass(w)) = Len(w) - 2
    BY <1>2, <1>3, <2>2, Zenon
  <2>5. Len(f) - 2 = Len(w) - 2
    BY <2>1, <2>3, <2>4, Zenon
  <2> QED BY <1>2, <2>1, <2>5
<1>5. f[3] = w[3] /\ f[6] = w[6]
  <2>1. FromClass(f) = FromClass(w)
    BY <1>1 DEF w, FromClass
  <2>2. FromClass(f)[1] = f[1 + 2] /\ FromClass(f)[4] = f[4 + 2]
    <3>1. 1 \in 1 .. Len(f) - 2 /\ 4 \in 1 .. Len(f) - 2 /\ Len(f) > 2
      BY <1>4
    <3> QED BY <1>3, <3>1, Zenon
  <2>3. FromClass(w)[1] = w[1 + 2] /\ FromClass(w)[4] = w[4 + 2]
    <3>1. 1 \in 1 .. Len(w) - 2 /\ 4 \in 1 .. Len(w) - 2 /\ Len(w) > 2
      BY <1>2
    <3> QED BY <1>2, <1>3, <3>1, Zenon
  <2>4. 1 + 2 = 3 /\ 4 + 2 = 6
    OBVIOUS
  <2> QED BY <2>1, <2>2, <2>3, <2>4
<1> QED BY <1>1, <1>2, <1>4, <1>5

LEMMA UbxInitOwing == UbxInit => Owing /\ FiledExplained
<1> SUFFICES ASSUME UbxInit PROVE Owing /\ FiledExplained
  OBVIOUS
<1>1. ASSUME NEW q \in Poll
      PROVE  ~Asked(q) /\ ~Sealed(q) /\ OneOwed(q)
  <2>1. q # 0
    BY UbxConstants
  <2>2. line = <<>>
    BY DEF UbxInit
  <2>3. \A i \in 1 .. Len(line) : FALSE
    BY <2>2
  <2>4. \A i \in 1 .. Len(pending) : pending[i] = 0
    BY DEF UbxInit
  <2>5. ~Asked(q)
    BY <2>1, <2>4 DEF Asked, In
  <2>6. ~Sealed(q)
    BY <2>3, Zenon DEF Sealed, In
  <2>7. Once(pending, q)
    BY <2>1, <2>4 DEF Once
  <2>8. Once(line, Seal(q))
    BY <2>3, Zenon DEF Once
  <2> QED BY <2>5, <2>6, <2>7, <2>8, Zenon DEF OneOwed
<1>2. \A p \in Poll : file[p] = 0
  BY DEF UbxInit
<1> QED BY <1>1, <1>2, Zenon DEF Owing, FiledExplained

\* What FiledExplained says of one poll.
FiledHere(p) ==
  file[p] # 0 => Key[file[p]] = Key[p] /\ (file[p] # p => file[p] < p /\ Open(file[p]))

Owes(q) == Asked(q) \/ Sealed(q)

LEMMA FiledAll == /\ FiledExplained <=> \A p \in Poll : FiledHere(p)
                  /\ FiledExplained' <=> \A p \in Poll : FiledHere(p)'
<1>1. FiledExplained <=> \A p \in Poll : FiledHere(p)
  BY Zenon DEF FiledExplained, FiledHere, Open
<1>2. FiledExplained' <=> \A p \in Poll : FiledHere(p)'
  BY Zenon DEF FiledExplained, FiledHere, Open
<1> QED BY <1>1, <1>2

\* A step changes what is known of the poll it is at, and of no earlier one.
LEMMA OpenKept ==
  ASSUME UbxTypes, [UbxNext]_ubxVars, NEW q \in Poll, q # cur, Open(q)
  PROVE  Open(q)'
<1>1. late \subseteq late'
  BY DEF UbxNext, SendPoll, Byte, GiveUp, Receiver, ubxVars
<1>2. outcome' = outcome \/ \E r : outcome' = [outcome EXCEPT ![cur] = r]
  BY Zenon DEF UbxNext, SendPoll, Byte, Judge, GiveUp, Receiver, ubxVars, Return
<1>3. file' = file \/ \E o : file' = [file EXCEPT ![cur] = o]
  BY Zenon DEF UbxNext, SendPoll, Byte, Judge, GiveUp, Receiver, ubxVars
<1>4. outcome'[q] = outcome[q] /\ file'[q] = file[q]
  BY <1>2, <1>3 DEF UbxTypes, UbxTypeOK
<1> QED BY <1>1, <1>4 DEF Open

LEMMA FiledKept ==
  ASSUME UbxTypes, [UbxNext]_ubxVars, Owing, FiledExplained, NEW p \in Poll, file'[p] = file[p]
  PROVE  FiledHere(p)'
<1>1. FiledHere(p)
  BY FiledAll
<1>2. PICK o \in Poll \cup {0} : o = file[p]
  BY DEF UbxTypes, UbxTypeOK
<1>5. /\ cur \in Int /\ p \in Int /\ (o # 0 => p < cur)
  <2>1. cur \in Int /\ p \in Int
    BY UbxConstants DEF UbxTypes, UbxTypeOK
  <2>2. p >= cur => file[p] = 0
    BY DEF Owing
  <2> QED BY <1>2, <2>1, <2>2
<1>3. CASE o = 0 \/ o = p
  BY <1>1, <1>2, <1>3 DEF FiledHere
<1>4. CASE o # 0 /\ o # p
  <2>1. o \in Poll /\ o \in Int /\ o < p /\ Open(o) /\ o # cur /\ Key[o] = Key[p]
    <3>1. o \in Poll /\ o < p /\ Open(o) /\ Key[o] = Key[p]
      BY <1>1, <1>2, <1>4 DEF FiledHere
    <3>2. o \in Int
      BY <3>1, UbxConstants
    <3> QED BY <1>4, <1>5, <3>1, <3>2
  <2>2. Open(o)'
    BY <2>1, OpenKept
  <2>3. file'[p] = o
    BY <1>2
  <2>4. Open(file[p])'
    BY <2>2, <2>3 DEF Open
  <2> QED BY <2>1, <2>3, <2>4 DEF FiledHere
<1> QED BY <1>3, <1>4

\* What Owing says of one poll.
OwingHere(q) ==
  /\ Owes(q) => q <= cur /\ (q < cur => Open(q)) /\ (q = cur => waiting \/ q \in late)
  /\ q = cur /\ q \notin late => OneOwed(q)
  /\ q >= cur => file[q] = 0

LEMMA OwingAll == /\ Owing <=> \A q \in Poll : OwingHere(q)
                  /\ Owing' <=> \A q \in Poll : OwingHere(q)'
<1>1. Owing <=> \A q \in Poll : OwingHere(q)
  BY Zenon DEF Owing, OwingHere, Owes
<1>2. Owing' <=> \A q \in Poll : OwingHere(q)'
  BY Zenon DEF Owing, OwingHere, Owes
<1> QED BY <1>1, <1>2

LEMMA SendPollOwing ==
  ASSUME UbxTypes, Owing, FiledExplained, SendPoll
  PROVE  Owing' /\ FiledExplained'
<1>1. /\ line \in Seq(Symbol) /\ pending \in Seq(Poll \cup {0}) /\ cur \in Poll /\ cur \in Int
      /\ ~waiting /\ waiting' = TRUE /\ cur' = cur /\ late' = late /\ file' = file
      /\ outcome' = outcome /\ pending' = Append(pending, cur)
  BY UbxConstants DEF UbxTypes, UbxTypeOK, SendPoll
<1>2. PICK d \in 0 .. Len(line) : line' = SubSeq(line, d + 1, Len(line))
  BY DEF SendPoll
<1>3. [UbxNext]_ubxVars
  BY DEF UbxNext
<1>4. ASSUME NEW q \in Poll
      PROVE  OwingHere(q)'
  <2>1. OwingHere(q)
    BY OwingAll
  <2>2. (Sealed(q)' => Sealed(q)) /\ (Once(line, Seal(q)) => Once(line', Seal(q)))
    <3>1. ASSUME NEW e
          PROVE  (In(line', e) => In(line, e)) /\ (Once(line, e) => Once(line', e))
      <4>1. Suffix(line', line, Symbol)
        BY <1>1, <1>2 DEF Suffix
      <4>2. In(line', e) => In(line, e)
        BY <4>1, SuffixIn
      <4>3. Once(line, e) => Once(line', e)
        BY <4>1, SuffixIn
      <4> QED BY <4>2, <4>3
    <3> QED BY <3>1 DEF Sealed, In, Seal
  <2>3. /\ Asked(q)' => Asked(q) \/ q = cur
        /\ ~Asked(q) => Once(pending', q)
        /\ Once(pending, q) /\ q # cur => Once(pending', q)
    <3>1. /\ In(pending', q) => In(pending, q) \/ cur = q
          /\ Once(pending, q) /\ cur # q => Once(pending', q)
          /\ ~In(pending, q) => Once(pending', q)
      <4>1. cur \in Poll \cup {0}
        BY <1>1
      <4> QED BY <1>1, <4>1, AppendIn, Zenon
    <3> QED BY <3>1 DEF Asked, In
  <2>4. q < cur => (Open(q) => Open(q)')
    BY <1>1, <1>3, OpenKept, UbxConstants
  <2>5. q \in Int
    BY UbxConstants
  <2>6. Owes(q)' => q <= cur' /\ (q < cur' => Open(q)') /\ (q = cur' => waiting' \/ q \in late')
    BY <1>1, <2>1, <2>2, <2>3, <2>4, <2>5 DEF OwingHere, Owes
  <2>7. q = cur /\ q \notin late => ~Owes(q) /\ OneOwed(q)
    BY <1>1, <2>1 DEF OwingHere
  <2>8. q = cur' /\ q \notin late' => OneOwed(q)'
    <3>1. SUFFICES ASSUME q = cur, q \notin late PROVE OneOwed(q)'
      BY <1>1
    <3>2. ~Sealed(q)'
      BY <2>2, <2>7, <3>1 DEF Owes
    <3>3. Once(pending', q) /\ Once(line', Seal(q))
      BY <2>2, <2>3, <2>7, <3>1 DEF Owes, OneOwed
    <3> QED BY <3>2, <3>3 DEF OneOwed, Once, Seal
  <2> QED BY <1>1, <2>1, <2>6, <2>8 DEF OwingHere
<1>5. \A p \in Poll : FiledHere(p)'
  BY <1>1, <1>3, FiledKept
<1> QED BY <1>4, <1>5, OwingAll, FiledAll

\* Of the line without its first symbol.
LEMMA LineTail ==
  ASSUME line \in Seq(Symbol), line # <<>>, line' = Tail(line), pending' = pending, NEW q
  PROVE  /\ Owes(q)' => Owes(q)
         /\ OneOwed(q) => OneOwed(q)'
         /\ OneOwed(q) /\ Head(line) = Seal(q) => ~Owes(q)'
         /\ Head(line) = Seal(q) => Owes(q)
<1> DEFINE e == Seal(q)
<1>1. ASSUME NEW d
      PROVE  /\ In(line', d) => In(line, d)
             /\ Once(line, d) => Once(line', d)
             /\ Once(line, d) /\ Head(line) = d => ~In(line', d)
             /\ In(line, Head(line))
  BY TailIn
<1>2. /\ In(line', Seal(q)) => In(line, Seal(q))
      /\ Once(line, Seal(q)) => Once(line', Seal(q))
      /\ Once(line, Seal(q)) /\ Head(line) = Seal(q) => ~In(line', Seal(q))
      /\ In(line, Head(line))
  BY <1>1
<1>3. /\ Owes(q) <=> In(pending, q) \/ In(line, Seal(q))
      /\ Owes(q)' <=> In(pending, q) \/ In(line', Seal(q))
  BY DEF Owes, Asked, Sealed, In, Seal
<1>4. /\ OneOwed(q) <=> /\ Once(pending, q) /\ Once(line, Seal(q))
                        /\ ~(In(pending, q) /\ In(line, Seal(q)))
      /\ OneOwed(q)' <=> /\ Once(pending, q) /\ Once(line', Seal(q))
                         /\ ~(In(pending, q) /\ In(line', Seal(q)))
  BY DEF OneOwed, Asked, Sealed, In, Once, Seal
<1>5. OneOwed(q) /\ Head(line) = Seal(q) => ~Owes(q)'
  BY <1>2, <1>3, <1>4, Zenon
<1>6. OneOwed(q) => OneOwed(q)'
  BY <1>2, <1>4, Zenon
<1> QED BY <1>2, <1>3, <1>5, <1>6, Zenon

\* A poll that is over: what it still owes, it owes an open poll.
LEMMA ReturnOwing ==
  ASSUME UbxTypes, [UbxNext]_ubxVars, Owing, NEW c \in Poll, cur = c, cur' = c + 1, pending' = pending,
         \A q \in Poll : Owes(q)' => Owes(q),
         \A q \in Poll : q # c => file'[q] = file[q],
         Owes(c)' => Open(c)'
  PROVE  Owing'
<1> SUFFICES ASSUME NEW q \in Poll PROVE OwingHere(q)'
  BY OwingAll
<1>1. q \in Int /\ cur \in Int
  BY UbxConstants
<1>2. OwingHere(q)
  BY OwingAll
<1>3. Owes(q)' => q <= cur
  BY <1>2 DEF OwingHere
<1>4. q < cur /\ Owes(q)' => Open(q)'
  BY <1>1, <1>2, OpenKept DEF OwingHere
<1>5. q = c /\ Owes(q)' => Open(q)'
  OBVIOUS
<1>6. q = cur' => OneOwed(q)'
  <2>1. SUFFICES ASSUME q = cur' PROVE OneOwed(q)'
    OBVIOUS
  <2>2. ~Owes(q)'
    BY <1>1, <1>3, <2>1
  <2> QED BY <2>2 DEF OneOwed, Owes, Asked, Sealed, In, Once
<1>7. q >= cur' => file'[q] = 0
  BY <1>1, <1>2 DEF OwingHere
<1> QED BY <1>1, <1>3, <1>4, <1>5, <1>6, <1>7 DEF OwingHere

LEMMA GiveUpOwing ==
  ASSUME UbxTypes, Owing, FiledExplained, GiveUp
  PROVE  Owing' /\ FiledExplained'
<1>1. PICK r \in {"none", "cksum_err"} : Return(r)
  BY DEF GiveUp
<1>2. PICK c \in Poll : c = cur /\ (cur' = c \/ cur' = c + 1)
  BY <1>1, ReturnTypes DEF GiveUp
<1>3. /\ [UbxNext]_ubxVars /\ pending' = pending /\ line' = line /\ file' = file
      /\ late' = late \cup {c}
  BY <1>2 DEF UbxNext, GiveUp, lineVars
<1>4. ASSUME NEW q
      PROVE  (Owes(q)' => Owes(q)) /\ (OneOwed(q) => OneOwed(q)')
  BY <1>3 DEF Owes, OneOwed, Asked, Sealed, In, Once, Seal
<1>5. Open(c)'
  BY <1>3 DEF Open
<1>6. ASSUME cur' = c + 1 PROVE Owing'
  BY <1>2, <1>3, <1>4, <1>5, <1>6, ReturnOwing
<1>7. ASSUME cur' = c PROVE Owing'
  <2>1. SUFFICES ASSUME NEW q \in Poll PROVE OwingHere(q)'
    BY OwingAll
  <2>2. OwingHere(q)
    BY OwingAll
  <2>3. q < c /\ Open(q) => Open(q)'
    BY <1>2, <1>3, OpenKept, UbxConstants
  <2>4. q = c => q \in late'
    BY <1>3
  <2> QED BY <1>2, <1>3, <1>4, <1>7, <2>2, <2>3, <2>4 DEF OwingHere
<1>8. Owing'
  BY <1>2, <1>6, <1>7
<1>9. \A p \in Poll : FiledHere(p)'
  BY <1>3, FiledKept
<1> QED BY <1>8, <1>9, FiledAll

LEMMA ByteOwing ==
  ASSUME UbxTypes, Owing, FiledExplained, Byte
  PROVE  Owing' /\ FiledExplained'
<1>1. PICK b \in Symbol, x \in Parser :
           /\ x = Collect(parser, b) /\ Judge(x)
           /\ ~Complete(x) => ParserFits(x)
           /\ Complete(x) => /\ parser.state = 3 /\ x.state = 3 /\ x.frame = Append(parser.frame, b)
                             /\ Len(x.frame) = x.expected /\ Len(x.frame) > HEADER
           /\ \/ b = Head(line) /\ noise' = noise
              \/ b # Head(line) /\ b[2] = 0 /\ noise' = noise + 1 /\ noise < MaxNoise
           /\ Head(line) \in Symbol /\ line \in Seq(Symbol) /\ Len(line) > 0
           /\ waiting /\ cur \in Poll /\ line' = Tail(line)
  BY ByteTypes
<1>2. PICK c \in Poll : c = cur
  BY <1>1
<1>3. [UbxNext]_ubxVars /\ pending' = pending /\ late' = late /\ line # <<>>
  BY DEF UbxNext, Byte
<1>4. ASSUME NEW q
      PROVE  /\ Owes(q)' => Owes(q)
             /\ OneOwed(q) => OneOwed(q)'
             /\ OneOwed(q) /\ Head(line) = Seal(q) => ~Owes(q)'
             /\ Head(line) = Seal(q) => Owes(q)
  BY <1>1, <1>3, LineTail
\* The hunt goes on.
<1>5. ASSUME cur' = cur, waiting' = waiting, outcome' = outcome, file' = file
      PROVE  Owing' /\ FiledExplained'
  <2>1. \A p \in Poll : FiledHere(p)'
    BY <1>3, <1>5, FiledKept
  <2>2. ASSUME NEW q \in Poll
        PROVE  OwingHere(q)'
    <3>1. OwingHere(q)
      BY OwingAll
    <3>2. Open(q) => Open(q)'
      BY <1>3, <1>5 DEF Open
    <3> QED BY <1>3, <1>4, <1>5, <3>1, <3>2 DEF OwingHere
  <2> QED BY <2>1, <2>2, OwingAll, FiledAll
<1>6. CASE /\ ~Complete(x)
           /\ parser' = x
           /\ missed' = (missed \/ Head(line) = <<CKSUM, cur>>)
           /\ UNCHANGED <<cur, retry, waiting, cksum_err, outcome, file>>
  BY <1>5, <1>6
<1>7. CASE /\ Complete(x) /\ Rejects(x.frame, cur)
           /\ Return("nak")
           /\ UNCHANGED <<missed, file>>
  <2>1. cur' = c + 1 /\ outcome' = [outcome EXCEPT ![c] = "nak"]
    BY <1>1, <1>2, <1>7, ReturnTypes
  <2>2. outcome'[c] = "nak"
    BY <2>1 DEF UbxTypes, UbxTypeOK
  <2>3. Open(c)'
    BY <2>2 DEF Open
  <2>4. \A q \in Poll : (Owes(q)' => Owes(q)) /\ file'[q] = file[q]
    BY <1>4, <1>7
  <2>5. Owing'
    BY <1>2, <1>3, <2>1, <2>3, <2>4, ReturnOwing
  <2>6. \A p \in Poll : FiledHere(p)'
    BY <1>3, <2>4, FiledKept
  <2> QED BY <2>5, <2>6, FiledAll
<1>8. CASE /\ Complete(x) /\ Answers(x.frame, cur)
           /\ Return("ok")
           /\ file' = [file EXCEPT ![cur] = x.frame[Len(x.frame)][2]]
           /\ UNCHANGED missed
  <2>1. cur' = c + 1 /\ outcome' = [outcome EXCEPT ![c] = "ok"]
    BY <1>1, <1>2, <1>8, ReturnTypes
  <2>2. x.frame \in Seq(Symbol) /\ Len(x.frame) > HEADER /\ x.frame = Append(parser.frame, b)
    BY <1>1, <1>8 DEF Parser
  <2>3. PICK o \in Poll : /\ Len(x.frame) = 6 /\ x.frame[3] = <<Key[o], o>> /\ x.frame[6] = Seal(o)
                          /\ x.frame[Len(x.frame)][2] = o
    <3>1. Checksum(x.frame)
      BY <1>8 DEF Answers
    <3> QED BY <2>2, <3>1, ChecksumIs
  <2>4. Key[o] = Key[c]
    <3>1. x.frame[3][1] = Key[c]
      BY <1>2, <1>8 DEF Answers
    <3> QED BY <2>3, <3>1
  <2>5. Head(line) = Seal(o)
    <3>1. x.frame[Len(x.frame)] = b
      BY <1>1, <2>2 DEF Parser
    <3>2. b = Seal(o)
      BY <2>3, <3>1
    <3>3. b[2] = o /\ o # 0
      BY <2>3, <3>1, UbxConstants
    <3> QED BY <1>1, <3>2, <3>3
  <2>6. /\ o <= c /\ (o < c => Open(o)) /\ (c \notin late => OneOwed(c)) /\ file[c] = 0
    <3>1. Owes(o)
      BY <1>4, <2>5
    <3>2. OwingHere(o) /\ OwingHere(c) /\ c \in Int
      BY OwingAll, UbxConstants
    <3> QED BY <1>2, <3>1, <3>2 DEF OwingHere
  <2>7. file' = [file EXCEPT ![c] = o]
    BY <1>2, <1>8, <2>3
  <2>8. file'[c] = o /\ \A q \in Poll : q # c => file'[q] = file[q]
    BY <2>7 DEF UbxTypes, UbxTypeOK
  <2>9. Owes(c)' => Open(c)'
    <3>1. SUFFICES ASSUME Owes(c)' PROVE Open(c)'
      OBVIOUS
    <3>2. CASE c \in late
      BY <1>3, <3>2 DEF Open
    <3>3. CASE o # c
      BY <2>8, <3>3, UbxConstants DEF Open
    <3>4. CASE c \notin late /\ o = c
      BY <1>4, <2>5, <2>6, <3>1, <3>4
    <3> QED BY <3>2, <3>3, <3>4
  <2>10. Owing'
    BY <1>2, <1>3, <1>4, <2>1, <2>8, <2>9, ReturnOwing
  <2>11. FiledHere(c)'
    <3>1. o # c => o < c /\ Open(o)'
      BY <1>2, <1>3, <2>6, OpenKept, UbxConstants
    <3> QED BY <2>4, <2>8, <3>1 DEF FiledHere, Open
  <2>12. \A p \in Poll : FiledHere(p)'
    BY <1>3, <2>8, <2>11, FiledKept
  <2> QED BY <2>10, <2>12, FiledAll
<1>9. CASE /\ Complete(x) /\ ~Rejects(x.frame, cur) /\ ~Answers(x.frame, cur)
           /\ parser' = Hunting
           /\ cksum_err' = (cksum_err \/ (~IsNak(x.frame) /\ x.frame[3][1] = Key[cur]))
           /\ missed' = (missed \/ Head(line) = <<CKSUM, cur>>)
           /\ UNCHANGED <<cur, retry, waiting, outcome, file>>
  BY <1>5, <1>9
<1> QED BY <1>1, <1>6, <1>7, <1>8, <1>9 DEF Judge

LEMMA ReceiverOwing ==
  ASSUME UbxTypes, Owing, FiledExplained, Receiver
  PROVE  Owing' /\ FiledExplained'
<1>1. /\ line \in Seq(Symbol) /\ pending \in Seq(Poll \cup {0}) /\ pending # <<>>
      /\ pending' = Tail(pending)
      /\ cur' = cur /\ late' = late /\ file' = file /\ outcome' = outcome /\ waiting' = waiting
  BY DEF UbxTypes, UbxTypeOK, Receiver, pollVars
<1>2. PICK p \in Poll \cup {0} : p = Head(pending)
  BY <1>1
<1>3. [UbxNext]_ubxVars
  BY DEF UbxNext
<1>4. ASSUME NEW q
      PROVE  /\ In(pending', q) => In(pending, q)
             /\ Once(pending, q) => Once(pending', q)
             /\ Once(pending, q) /\ p = q => ~In(pending', q)
             /\ p = q => In(pending, q)
  BY <1>1, <1>2, TailIn
<1>5. ASSUME NEW q \in Poll
      PROVE  \/ line' = line
             \/ /\ In(line', Seal(q)) => In(line, Seal(q)) \/ p = q
                /\ Once(line, Seal(q)) /\ p # q => Once(line', Seal(q))
                /\ ~In(line, Seal(q)) => Once(line', Seal(q))
                /\ Once(line, Seal(q)) /\ ~In(line', Seal(q)) => Once(line', Seal(q))
  <2>1. SUFFICES ASSUME line' # line
                 PROVE  /\ In(line', Seal(q)) => In(line, Seal(q)) \/ p = q
                        /\ Once(line, Seal(q)) /\ p # q => Once(line', Seal(q))
                        /\ ~In(line, Seal(q)) => Once(line', Seal(q))
                        /\ Once(line, Seal(q)) /\ ~In(line', Seal(q)) => Once(line', Seal(q))
    OBVIOUS
  <2>2. PICK w : /\ IsFrame(w) /\ line' = line \o w
                 /\ \/ \E k \in Nat : k >= 256 /\ w = Reject(k)
                    \/ p \in Poll /\ w = Answer(p)
    BY <1>2, <2>1, ReceiverSends
  <2>3. w \in Seq(Symbol)
    BY <2>2, FrameIs
  <2>4. /\ Once(w, Seal(q))
        /\ In(w, Seal(q)) => w = Answer(q)
        /\ \A k \in Nat : k >= 256 /\ w = Reject(k) => ~In(w, Seal(q))
    BY <2>2, FrameSeal
  <2>5. In(w, Seal(q)) => p = q
    <3>1. SUFFICES ASSUME In(w, Seal(q)) PROVE p = q
      OBVIOUS
    <3>2. p \in Poll /\ w = Answer(p) /\ w = Answer(q)
      BY <2>2, <2>4, <3>1
    <3>3. w[6] = <<CKSUM, p>> /\ w[6] = <<CKSUM, q>>
      BY <3>2, AnswerIs
    <3> QED BY <3>3
  <2>6. ASSUME NEW e
        PROVE  /\ In(line', e) => In(line, e) \/ In(w, e)
               /\ Once(line, e) /\ ~In(w, e) => Once(line', e)
               /\ ~In(line, e) /\ Once(w, e) => Once(line', e)
    BY <1>1, <2>2, <2>3, ConcatIn
  <2>7. /\ In(line', Seal(q)) => In(line, Seal(q)) \/ In(w, Seal(q))
        /\ Once(line, Seal(q)) /\ ~In(w, Seal(q)) => Once(line', Seal(q))
        /\ ~In(line, Seal(q)) /\ Once(w, Seal(q)) => Once(line', Seal(q))
    BY <2>6
  <2>8. ~In(line', Seal(q)) => Once(line', Seal(q))
    BY DEF In, Once
  <2> QED BY <2>4, <2>5, <2>7, <2>8, Zenon
<1>6. ASSUME NEW q \in Poll
      PROVE  /\ Owes(q)' => Owes(q)
             /\ OneOwed(q) => OneOwed(q)'
  <2>1. /\ Owes(q) <=> In(pending, q) \/ In(line, Seal(q))
        /\ Owes(q)' <=> In(pending', q) \/ In(line', Seal(q))
    BY DEF Owes, Asked, Sealed, In, Seal
  <2>2. /\ OneOwed(q) <=> /\ Once(pending, q) /\ Once(line, Seal(q))
                          /\ ~(In(pending, q) /\ In(line, Seal(q)))
        /\ OneOwed(q)' <=> /\ Once(pending', q) /\ Once(line', Seal(q))
                           /\ ~(In(pending', q) /\ In(line', Seal(q)))
    BY DEF OneOwed, Asked, Sealed, In, Once, Seal
  <2>3. CASE line' = line
    <3>1. In(line', Seal(q)) <=> In(line, Seal(q))
      BY <2>3
    <3>2. Once(line', Seal(q)) <=> Once(line, Seal(q))
      BY <2>3
    <3> QED BY <1>4, <2>1, <2>2, <3>1, <3>2, Zenon
  <2>4. CASE line' # line
    <3>1. /\ In(line', Seal(q)) => In(line, Seal(q)) \/ p = q
          /\ Once(line, Seal(q)) /\ p # q => Once(line', Seal(q))
          /\ ~In(line, Seal(q)) => Once(line', Seal(q))
      BY <1>5, <2>4
    <3>2. Owes(q)' => Owes(q)
      BY <1>4, <2>1, <3>1, Zenon
    <3>3. OneOwed(q) => OneOwed(q)'
      <4>1. CASE p = q
        BY <1>4, <2>2, <3>1, <4>1, Zenon
      <4>2. CASE p # q
        BY <1>4, <2>2, <3>1, <4>2, Zenon
      <4> QED BY <4>1, <4>2
    <3> QED BY <3>2, <3>3
  <2> QED BY <2>3, <2>4
<1>7. ASSUME NEW q \in Poll
      PROVE  OwingHere(q)'
  <2>1. OwingHere(q)
    BY OwingAll
  <2>2. Open(q) => Open(q)'
    BY <1>1 DEF Open
  <2> QED BY <1>1, <1>6, <2>1, <2>2 DEF OwingHere
<1>8. \A r \in Poll : FiledHere(r)'
  BY <1>1, <1>3, FiledKept
<1> QED BY <1>7, <1>8, OwingAll, FiledAll

LEMMA UbxOwingInductive ==
  UbxTypes /\ Owing /\ FiledExplained /\ [UbxNext]_ubxVars => Owing' /\ FiledExplained'
<1>1. ASSUME UNCHANGED ubxVars, Owing, FiledExplained
      PROVE  Owing' /\ FiledExplained'
  BY <1>1 DEF ubxVars, pollVars, lineVars, Owing, FiledExplained, Asked, Sealed, OneOwed,
             Open, In, Once, Seal
<1> QED BY <1>1, SendPollOwing, ByteOwing, GiveUpOwing, ReceiverOwing DEF UbxNext
-----------------------------------------------------------------------------
(* The stream in step with the hunt: HeardUnlessSpoilt *)

\* The parser holds the first n symbols of the frame w.
Heard(x, w, n) ==
  /\ n = 0 => x.state = 0
  /\ n = 1 => x.state = 1
  /\ n = 2 \/ n = 3 => x.state = 2
  /\ n = 4 \/ n = 5 => x.state = 3 /\ x.expected = 6
  /\ n >= 1 => Len(x.frame) = n /\ \A i \in 1 .. n : x.frame[i] = w[i]

\* Symbol i of the line is symbol ph[i] of the frame h[i]; frames follow one
\* another whole, but that the head of the first may be gone.
Marked(l, h, ph) ==
  /\ \A i \in 1 .. Len(l) : IsFrame(h[i]) /\ ph[i] \in 1 .. 6 /\ l[i] = h[i][ph[i]]
  /\ Len(l) > 0 => ph[Len(l)] = 6
  /\ \A i \in 1 .. Len(l) - 1 : \/ ph[i] = 6 /\ ph[i + 1] = 1
                                \/ ph[i] < 6 /\ ph[i + 1] = ph[i] + 1 /\ h[i + 1] = h[i]

InPhase(h, ph) ==
  /\ Marked(line, h, ph)
  /\ waiting /\ line = <<>> => parser.state = 0
  /\ waiting /\ line # <<>> => Heard(parser, h[1], ph[1] - 1)

InStep == noise = 0 /\ ~cut => \E h, ph : InPhase(h, ph)

\* A byte more of the frame the parser is in.
LEMMA CollectHears ==
  ASSUME NEW x \in Parser, NEW w, IsFrame(w), NEW n \in 0 .. 5, Heard(x, w, n),
         NEW b \in Symbol, b = w[n + 1], NEW y, y = Collect(x, b)
  PROVE  /\ n < 5 => ~Complete(y) /\ Heard(y, w, n + 1)
         /\ n = 5 => /\ Complete(y) /\ y.frame \in Seq(Symbol) /\ Len(y.frame) = 6
                     /\ \A i \in 1 .. 6 : y.frame[i] = w[i]
<1> DEFINE f == Append(x.frame, b)
           m == f[HEADER][1] + OVERHEAD
<1>1. /\ x.frame \in Seq(Symbol) /\ f \in Seq(Symbol) /\ Len(f) = Len(x.frame) + 1
      /\ Len(x.frame) \in Nat /\ f[Len(f)] = b
      /\ \A i \in 1 .. Len(x.frame) : f[i] = x.frame[i]
  BY DEF Parser
<1>2. n >= 1 => Len(f) = n + 1 /\ \A i \in 1 .. n + 1 : f[i] = w[i]
  <2>1. SUFFICES ASSUME n >= 1 PROVE Len(f) = n + 1 /\ \A i \in 1 .. n + 1 : f[i] = w[i]
    OBVIOUS
  <2> HIDE DEF f
  <2>2. Len(x.frame) = n /\ \A i \in 1 .. n : x.frame[i] = w[i]
    BY <2>1 DEF Heard
  <2> QED BY <1>1, <2>2
<1>3. /\ x.state = 0 /\ b[1] = SYNC1 => Fields(y, 1, <<b>>, x.expected)
      /\ x.state = 1 /\ b[1] = SYNC2 => Fields(y, 2, f, x.expected)
      /\ x.state = 2 /\ Len(f) < HEADER => Fields(y, 2, f, x.expected)
      /\ x.state = 2 /\ Len(f) >= HEADER /\ ~(m > UBX_FRAME_MAX) => Fields(y, 3, f, m)
      /\ x.state = 3 => Fields(y, 3, f, x.expected)
  BY Collected, Zenon
<1> HIDE DEF f, m
<1>4. w[1][1] = SYNC1 /\ w[2][1] = SYNC2 /\ w[4][1] = 1
  BY FrameIs
<1>5. CASE n = 0
  <2>1. x.state = 0 /\ b[1] = SYNC1 /\ b = w[1]
    BY <1>4, <1>5 DEF Heard
  <2>2. y.state = 1 /\ y.frame = <<b>>
    BY <1>3, <2>1, Zenon DEF Fields
  <2>3. Len(<<b>>) = 1 /\ <<b>>[1] = b
    OBVIOUS
  <2>4. Len(y.frame) = 1 /\ y.frame[1] = w[1]
    BY <2>1, <2>2, <2>3, Zenon
  <2>5. \A i \in 1 .. 1 : y.frame[i] = w[i]
    BY <2>4
  <2> QED BY <1>5, <2>2, <2>4, <2>5 DEF Complete, Heard
<1>6. CASE n = 1
  <2>1. x.state = 1 /\ b[1] = SYNC2
    BY <1>4, <1>6 DEF Heard
  <2>2. y.state = 2 /\ y.frame = f
    BY <1>3, <2>1, Zenon DEF Fields
  <2> QED BY <1>2, <1>6, <2>2 DEF Complete, Heard
<1>10. ASSUME n >= 1, y.frame = f
       PROVE  Len(y.frame) = n + 1 /\ \A i \in 1 .. n + 1 : y.frame[i] = w[i]
  BY <1>2, <1>10, Zenon
<1>7. CASE n = 2
  <2>1. x.state = 2
    BY <1>7 DEF Heard
  <2>2. Len(f) = 3
    BY <1>2, <1>7
  <2>3. Len(f) < HEADER
    BY <2>2 DEF HEADER
  <2>4. y.state = 2 /\ y.frame = f
    BY <1>3, <2>1, <2>3, Zenon DEF Fields
  <2>5. Len(y.frame) = 3 /\ \A i \in 1 .. 3 : y.frame[i] = w[i]
    BY <1>7, <1>10, <2>4
  <2> QED BY <1>7, <2>4, <2>5 DEF Complete, Heard
<1>8. CASE n = 3
  <2>1. x.state = 2
    BY <1>8 DEF Heard
  <2>2. Len(f) = 4 /\ f[4] = w[4]
    BY <1>2, <1>8
  <2>3. m = 6 /\ Len(f) >= HEADER
    BY <1>4, <2>2 DEF m, OVERHEAD, HEADER
  <2>4. ~(m > UBX_FRAME_MAX)
    BY <2>3, UbxConstants DEF OVERHEAD
  <2>5. y.state = 3 /\ y.frame = f /\ y.expected = m
    BY <1>3, <2>1, <2>3, <2>4, Zenon DEF Fields
  <2>6. Len(y.frame) = 4 /\ \A i \in 1 .. 4 : y.frame[i] = w[i]
    BY <1>8, <1>10, <2>5
  <2>7. ~Complete(y)
    BY <2>3, <2>5, <2>6 DEF Complete
  <2>8. Heard(y, w, 4)
    BY <2>3, <2>5, <2>6 DEF Heard
  <2> QED BY <1>8, <2>7, <2>8
<1>9. CASE n = 4 \/ n = 5
  <2>1. x.state = 3 /\ x.expected = 6
    BY <1>9 DEF Heard
  <2>2. y.state = 3 /\ y.frame = f /\ y.expected = 6
    BY <1>3, <2>1, Zenon DEF Fields
  <2>3. Len(y.frame) = n + 1 /\ \A i \in 1 .. n + 1 : y.frame[i] = w[i]
    BY <1>9, <1>10, <2>2
  <2>4. CASE n = 4
    <3>1. Len(y.frame) = 5 /\ \A i \in 1 .. 5 : y.frame[i] = w[i]
      BY <2>3, <2>4
    <3>2. ~Complete(y)
      BY <2>2, <3>1 DEF Complete
    <3>3. Heard(y, w, 5)
      BY <2>2, <3>1 DEF Heard
    <3> QED BY <2>4, <3>2, <3>3
  <2>5. CASE n = 5
    <3>1. Len(y.frame) = 6 /\ \A i \in 1 .. 6 : y.frame[i] = w[i]
      BY <2>3, <2>5
    <3>2. Complete(y)
      BY <2>2, <3>1 DEF Complete
    <3>3. y.frame \in Seq(Symbol)
      BY <1>1, <2>2
    <3> QED BY <2>5, <3>1, <3>2, <3>3
  <2> QED BY <1>9, <2>4, <2>5
<1> QED BY <1>5, <1>6, <1>7, <1>8, <1>9

\* A frame with the symbols of an answer to the poll awaited answers it.
LEMMA AnswerAnswers ==
  ASSUME NEW p \in Poll, NEW f \in Seq(Symbol), Len(f) = 6, \A i \in 1 .. 6 : f[i] = Answer(p)[i]
  PROVE  Answers(f, p)
<1> DEFINE w == Answer(p)
<1>1. w \in Seq(Symbol) /\ Len(w) = 6 /\ w[3] = <<Key[p], p>> /\ w[6] = <<CKSUM, p>>
  BY AnswerIs
<1> HIDE DEF w
<1>2. f = w
  <2>1. \A i \in 1 .. 6 : f[i] = w[i]
    BY DEF w
  <2> QED BY <1>1, <2>1
<1>3. f[3][1] = Key[p] /\ f[Len(f)][2] = p
  BY <1>1, <1>2
<1>4. Checksum(f)
  BY <1>2, <1>3, Zenon DEF Checksum, w
<1> QED BY <1>3, <1>4, UbxConstants DEF Answers, IsNak

Dropped(t, l, d) == l \in Seq(Symbol) /\ d \in 0 .. Len(l) /\ t = SubSeq(l, d + 1, Len(l))
Joined(t, l, w) == l \in Seq(Symbol) /\ t = l \o w

LEMMA MarkedShift ==
  ASSUME NEW l, NEW h, NEW ph, Marked(l, h, ph), NEW d, NEW t, Dropped(t, l, d)
  PROVE  \E g, pg : /\ Marked(t, g, pg)
                    /\ Len(t) > 0 => d + 1 \in 1 .. Len(l) /\ g[1] = h[d + 1] /\ pg[1] = ph[d + 1]
<1>1. /\ Len(l) \in Nat /\ Len(t) = Len(l) - d /\ d \in Int
      /\ \A i \in 1 .. Len(t) : t[i] = l[i + d] /\ i + d \in 1 .. Len(l)
  BY DEF Dropped
<1> DEFINE g == [i \in 1 .. Len(t) |-> h[i + d]]
           pg == [i \in 1 .. Len(t) |-> ph[i + d]]
<1>2. \A i \in 1 .. Len(t) : g[i] = h[i + d] /\ pg[i] = ph[i + d]
  OBVIOUS
<1> HIDE DEF g, pg
<1>3. \A i \in 1 .. Len(t) : IsFrame(g[i]) /\ pg[i] \in 1 .. 6 /\ t[i] = g[i][pg[i]]
  <2>1. TAKE i \in 1 .. Len(t)
  <2>2. i + d \in 1 .. Len(l) /\ t[i] = l[i + d]
    BY <1>1
  <2>3. IsFrame(h[i + d]) /\ ph[i + d] \in 1 .. 6 /\ l[i + d] = h[i + d][ph[i + d]]
    BY <2>2, Zenon DEF Marked
  <2>4. g[i] = h[i + d] /\ pg[i] = ph[i + d]
    BY <1>2
  <2> QED BY <2>2, <2>3, <2>4, Zenon
<1>4. Len(t) > 0 => pg[Len(t)] = 6
  <2>1. SUFFICES ASSUME Len(t) > 0 PROVE pg[Len(t)] = 6
    OBVIOUS
  <2>2. Len(t) \in 1 .. Len(t) /\ Len(t) + d = Len(l) /\ Len(l) > 0
    BY <1>1, <2>1
  <2>3. pg[Len(t)] = ph[Len(l)]
    BY <1>2, <2>2
  <2> QED BY <2>2, <2>3 DEF Marked
<1>5. ASSUME NEW i \in 1 .. Len(t) - 1
      PROVE  \/ pg[i] = 6 /\ pg[i + 1] = 1
             \/ pg[i] < 6 /\ pg[i + 1] = pg[i] + 1 /\ g[i + 1] = g[i]
  <2> DEFINE j == i + d
  <2>1. /\ i \in 1 .. Len(t) /\ i + 1 \in 1 .. Len(t) /\ j \in 1 .. Len(l) - 1
        /\ (i + 1) + d = j + 1
    BY <1>1
  <2>2. g[i] = h[j] /\ pg[i] = ph[j] /\ g[i + 1] = h[j + 1] /\ pg[i + 1] = ph[j + 1]
    BY <1>2, <2>1
  <2> HIDE DEF j
  <2>3. \/ ph[j] = 6 /\ ph[j + 1] = 1
        \/ ph[j] < 6 /\ ph[j + 1] = ph[j] + 1 /\ h[j + 1] = h[j]
    BY <2>1, Zenon DEF Marked
  <2> QED BY <2>2, <2>3
<1>6. Marked(t, g, pg)
  BY <1>3, <1>4, <1>5 DEF Marked
<1>7. Len(t) > 0 => d + 1 \in 1 .. Len(l) /\ g[1] = h[d + 1] /\ pg[1] = ph[d + 1]
  <2>1. SUFFICES ASSUME Len(t) > 0
                 PROVE  d + 1 \in 1 .. Len(l) /\ g[1] = h[d + 1] /\ pg[1] = ph[d + 1]
    OBVIOUS
  <2>2. 1 \in 1 .. Len(t) /\ 1 + d = d + 1 /\ d + 1 \in 1 .. Len(l)
    BY <1>1, <2>1
  <2> QED BY <1>2, <2>2
<1> QED BY <1>6, <1>7

Longer(l, h, ph, t, g, pg) ==
  /\ Marked(t, g, pg) /\ Len(t) > 0
  /\ Len(l) > 0 => g[1] = h[1] /\ pg[1] = ph[1]
  /\ Len(l) = 0 => pg[1] = 1

LEMMA MarkedConcat ==
  ASSUME NEW l, NEW h, NEW ph, Marked(l, h, ph), NEW w, IsFrame(w), NEW t, Joined(t, l, w)
  PROVE  \E g, pg : Longer(l, h, ph, t, g, pg)
<1>1. w \in Seq(Symbol) /\ Len(w) = 6
  BY FrameIs
<1>2. /\ Len(l) \in Nat /\ Len(t) = Len(l) + 6
      /\ \A i \in 1 .. Len(t) : \/ i \in 1 .. Len(l) /\ t[i] = l[i]
                                \/ i > Len(l) /\ i - Len(l) \in 1 .. Len(w) /\ t[i] = w[i - Len(l)]
  <2>1. /\ Len(l) \in Nat /\ Len(w) \in Nat /\ Len(t) = Len(l) + Len(w)
        /\ \A i \in 1 .. Len(t) : \/ i \in 1 .. Len(l) /\ t[i] = l[i]
                                  \/ i > Len(l) /\ i - Len(l) \in 1 .. Len(w) /\ t[i] = w[i - Len(l)]
    <3>1. w \in Seq(Symbol) /\ l \in Seq(Symbol) /\ t = l \o w
      BY <1>1 DEF Joined
    <3> QED BY <3>1
  <2> QED BY <1>1, <2>1
<1> DEFINE g == [i \in 1 .. Len(t) |-> IF i <= Len(l) THEN h[i] ELSE w]
           pg == [i \in 1 .. Len(t) |-> IF i <= Len(l) THEN ph[i] ELSE i - Len(l)]
<1>3. /\ \A i \in 1 .. Len(l) : g[i] = h[i] /\ pg[i] = ph[i]
      /\ \A i \in 1 .. Len(t) : i > Len(l) => g[i] = w /\ pg[i] = i - Len(l)
  BY <1>2
<1> HIDE DEF g, pg
<1>4. \A i \in 1 .. Len(t) : IsFrame(g[i]) /\ pg[i] \in 1 .. 6 /\ t[i] = g[i][pg[i]]
  <2>1. TAKE i \in 1 .. Len(t)
  <2>2. CASE i <= Len(l)
    <3>1. i \in 1 .. Len(l)
      BY <1>2, <2>2
    <3>2. g[i] = h[i] /\ pg[i] = ph[i] /\ t[i] = l[i]
      BY <1>2, <1>3, <3>1
    <3>3. IsFrame(h[i]) /\ ph[i] \in 1 .. 6 /\ l[i] = h[i][ph[i]]
      BY <3>1, Zenon DEF Marked
    <3> QED BY <3>2, <3>3, Zenon
  <2>3. CASE ~(i <= Len(l))
    <3>1. i > Len(l) /\ i - Len(l) \in 1 .. 6 /\ t[i] = w[i - Len(l)]
      BY <1>1, <1>2, <2>3
    <3>2. g[i] = w /\ pg[i] = i - Len(l)
      BY <1>3, <3>1
    <3> QED BY <3>1, <3>2, Zenon
  <2> QED BY <2>2, <2>3
<1>5. pg[Len(t)] = 6
  <2>1. Len(t) \in 1 .. Len(t) /\ Len(t) > Len(l) /\ Len(t) - Len(l) = 6
    BY <1>2
  <2> QED BY <1>3, <2>1
<1>6. ASSUME NEW i \in 1 .. Len(t) - 1
      PROVE  \/ pg[i] = 6 /\ pg[i + 1] = 1
             \/ pg[i] < 6 /\ pg[i + 1] = pg[i] + 1 /\ g[i + 1] = g[i]
  <2>1. CASE i < Len(l)
    <3>1. i \in 1 .. Len(l) /\ i + 1 \in 1 .. Len(l) /\ i \in 1 .. Len(l) - 1
      BY <1>2, <2>1
    <3>2. g[i] = h[i] /\ pg[i] = ph[i] /\ g[i + 1] = h[i + 1] /\ pg[i + 1] = ph[i + 1]
      BY <1>3, <3>1
    <3>3. \/ ph[i] = 6 /\ ph[i + 1] = 1
          \/ ph[i] < 6 /\ ph[i + 1] = ph[i] + 1 /\ h[i + 1] = h[i]
      BY <3>1, Zenon DEF Marked
    <3> QED BY <3>2, <3>3
  <2>2. CASE i = Len(l)
    <3>1. pg[i] = 6
      <4>1. i \in 1 .. Len(l) /\ Len(l) > 0
        BY <1>2, <2>2
      <4>2. ph[Len(l)] = 6
        BY <4>1 DEF Marked
      <4> QED BY <1>3, <2>2, <4>1, <4>2
    <3>2. pg[i + 1] = 1
      BY <1>2, <1>3, <2>2
    <3> QED BY <3>1, <3>2
  <2>3. CASE i > Len(l)
    <3>1. /\ i \in 1 .. Len(t) /\ i + 1 \in 1 .. Len(t) /\ i + 1 > Len(l) /\ i - Len(l) < 6
          /\ (i + 1) - Len(l) = (i - Len(l)) + 1
      BY <1>2, <2>3
    <3> QED BY <1>3, <2>3, <3>1
  <2> QED BY <1>2, <2>1, <2>2, <2>3
<1>7. Marked(t, g, pg)
  BY <1>4, <1>5, <1>6 DEF Marked
<1>8. Len(t) > 0 /\ (Len(l) > 0 => g[1] = h[1] /\ pg[1] = ph[1]) /\ (Len(l) = 0 => pg[1] = 1)
  BY <1>2, <1>3
<1>9. Longer(l, h, ph, t, g, pg)
  BY <1>7, <1>8 DEF Longer
<1> QED BY <1>9

LEMMA SendPollInStep == UbxTypes /\ InStep /\ SendPoll => InStep'
<1> SUFFICES ASSUME UbxTypes, InStep, SendPoll, noise' = 0, ~cut'
             PROVE  (\E h, ph : InPhase(h, ph))'
  BY DEF InStep
<1>1. PICK d \in 0 .. Len(line) :
        /\ line' = SubSeq(line, d + 1, Len(line))
        /\ cut' = (cut \/ (d < Len(line) /\ line[d + 1][1] # SYNC1))
  BY DEF SendPoll
<1>2. noise = 0 /\ ~cut /\ (d < Len(line) => line[d + 1][1] = SYNC1) /\ line \in Seq(Symbol)
  BY <1>1 DEF SendPoll, UbxTypes, UbxTypeOK
<1>3. PICK h, ph : InPhase(h, ph)
  BY <1>2 DEF InStep
<1>4. Marked(line, h, ph)
  BY <1>3 DEF InPhase
<1>5. PICK g, pg : /\ Marked(line', g, pg)
                   /\ Len(line') > 0 => d + 1 \in 1 .. Len(line) /\ g[1] = h[d + 1] /\ pg[1] = ph[d + 1]
  <2>1. Dropped(line', line, d)
    BY <1>1, <1>2 DEF Dropped
  <2> QED BY <1>4, <2>1, MarkedShift
<1>6. line' # <<>> => Len(line') > 0
  BY <1>1, <1>2
<1>7. ASSUME Len(line') > 0
      PROVE  pg[1] = 1
  <2>1. /\ d + 1 \in 1 .. Len(line) /\ pg[1] = ph[d + 1]
    BY <1>5, <1>7
  <2>2. IsFrame(h[d + 1]) /\ ph[d + 1] \in 1 .. 6 /\ line[d + 1] = h[d + 1][ph[d + 1]]
    BY <1>4, <2>1, Zenon DEF Marked
  <2>3. \A i \in 2 .. 6 : h[d + 1][i][1] # SYNC1
    BY <2>2, FrameIs
  <2>4. d < Len(line)
    BY <1>1, <1>2, <2>1
  <2>5. ph[d + 1] \notin 2 .. 6
    BY <1>2, <2>2, <2>3, <2>4
  <2> QED BY <2>1, <2>2, <2>5
<1>8. waiting' /\ parser' = Hunting
  BY DEF SendPoll
<1>9. line' # <<>> => Heard(parser', g[1], pg[1] - 1)
  BY <1>6, <1>7, <1>8, HuntingFits DEF Heard
<1>10. InPhase(g, pg)'
  BY <1>5, <1>8, <1>9, HuntingFits DEF InPhase, Marked, Heard
<1> QED BY <1>10

LEMMA GiveUpInStep == UbxTypes /\ InStep /\ GiveUp => InStep'
<1> SUFFICES ASSUME UbxTypes, InStep, GiveUp, noise' = 0, ~cut'
             PROVE  (\E h, ph : InPhase(h, ph))'
  BY DEF InStep
<1>1. noise = 0 /\ ~cut /\ line' = line
  BY DEF GiveUp, lineVars
<1>2. PICK h, ph : InPhase(h, ph)
  BY <1>1 DEF InStep
<1>3. ~waiting'
  BY DEF GiveUp, Return
<1>4. InPhase(h, ph)'
  BY <1>1, <1>2, <1>3 DEF InPhase, Marked
<1> QED BY <1>4

LEMMA ReceiverInStep == UbxTypes /\ InStep /\ Receiver => InStep'
<1> SUFFICES ASSUME UbxTypes, InStep, Receiver, noise' = 0, ~cut'
             PROVE  (\E h, ph : InPhase(h, ph))'
  BY DEF InStep
<1>1. /\ noise = 0 /\ ~cut /\ line \in Seq(Symbol) /\ waiting' = waiting /\ parser' = parser
  BY DEF Receiver, pollVars, UbxTypes, UbxTypeOK
<1>2. PICK h, ph : InPhase(h, ph)
  BY <1>1 DEF InStep
<1>3. CASE line' = line
  <2>1. InPhase(h, ph)'
    BY <1>1, <1>2, <1>3 DEF InPhase, Marked, Heard
  <2> QED BY <2>1
<1>4. CASE \E w : IsFrame(w) /\ line' = line \o w
  <2>1. PICK w : IsFrame(w) /\ line' = line \o w
    BY <1>4
  <2>2. Marked(line, h, ph)
    BY <1>2 DEF InPhase
  <2>7. PICK g, pg : Longer(line, h, ph, line', g, pg)
    <3>1. Joined(line', line, w)
      BY <1>1, <2>1 DEF Joined
    <3> QED BY <2>1, <2>2, <3>1, MarkedConcat
  <2>3. /\ Marked(line', g, pg) /\ Len(line') > 0
        /\ Len(line) > 0 => g[1] = h[1] /\ pg[1] = ph[1]
        /\ Len(line) = 0 => pg[1] = 1
    BY <2>7 DEF Longer
  <2>4. line' # <<>>
    BY <2>3
  <2>5. waiting' => Heard(parser', g[1], pg[1] - 1)
    <3>1. CASE line = <<>>
      <4>1. pg[1] - 1 = 0
        BY <2>3, <3>1
      <4>2. waiting' => parser'.state = 0
        BY <1>1, <1>2, <3>1 DEF InPhase
      <4> QED BY <4>1, <4>2 DEF Heard
    <3>2. CASE line # <<>>
      <4>1. Len(line) > 0
        BY <1>1, <3>2
      <4>2. waiting' => Heard(parser, h[1], ph[1] - 1)
        BY <1>1, <1>2, <3>2 DEF InPhase
      <4> QED BY <1>1, <2>3, <4>1, <4>2
    <3> QED BY <3>1, <3>2
  <2>6. InPhase(g, pg)'
    BY <2>3, <2>4, <2>5 DEF InPhase, Marked, Heard
  <2> QED BY <2>6
<1> QED BY <1>3, <1>4, ReceiverSends

LEMMA ByteInStep ==
  ASSUME UbxTypes, InStep, HeardUnlessSpoilt, Byte
  PROVE  InStep' /\ HeardUnlessSpoilt'
<1>1. PICK b \in Symbol, x \in Parser :
           /\ x = Collect(parser, b) /\ Judge(x)
           /\ ~Complete(x) => ParserFits(x)
           /\ Complete(x) => /\ parser.state = 3 /\ x.state = 3 /\ x.frame = Append(parser.frame, b)
                             /\ Len(x.frame) = x.expected /\ Len(x.frame) > HEADER
           /\ \/ b = Head(line) /\ noise' = noise
              \/ b # Head(line) /\ b[2] = 0 /\ noise' = noise + 1 /\ noise < MaxNoise
           /\ Head(line) \in Symbol /\ line \in Seq(Symbol) /\ Len(line) > 0
           /\ waiting /\ cur \in Poll /\ line' = Tail(line)
  BY ByteTypes
<1>2. noise \in Nat /\ cut' = cut /\ line # <<>> /\ parser \in Parser
  BY DEF UbxTypes, UbxTypeOK, Byte, Parser
<1>3. SUFFICES ASSUME noise' = 0, ~cut
               PROVE  (\E h, ph : InPhase(h, ph))' /\ (missed' <=> missed)
  <2>1. noise' = noise \/ noise' = noise + 1
    BY <1>1, Zenon
  <2>2. InStep'
    BY <1>2, Zenon DEF InStep
  <2>3. HeardUnlessSpoilt'
    <3>1. CASE noise' = 0 /\ ~cut
      BY <1>2, <1>3, <2>1, <3>1 DEF HeardUnlessSpoilt
    <3>2. CASE noise' # 0 \/ cut
      BY <1>2, <2>1, <3>2 DEF HeardUnlessSpoilt
    <3> QED BY <3>1, <3>2
  <2> QED BY <2>2, <2>3
<1>4. b = Head(line) /\ noise = 0
  BY <1>1, <1>2, <1>3
<1>5. PICK h, ph : InPhase(h, ph)
  BY <1>3, <1>4 DEF InStep
<1>6. Marked(line, h, ph) /\ Heard(parser, h[1], ph[1] - 1)
  BY <1>1, <1>2, <1>5 DEF InPhase
<1>7. IsFrame(h[1]) /\ ph[1] \in 1 .. 6 /\ b = h[1][ph[1]]
  <2>1. 1 \in 1 .. Len(line) /\ Head(line) = line[1]
    BY <1>1
  <2> QED BY <1>4, <1>6, <2>1, Zenon DEF Marked
<1>8. PICK n \in 0 .. 5 : n = ph[1] - 1 /\ ph[1] = n + 1
  BY <1>7
<1>9. PICK w : w = h[1]
  OBVIOUS
<1>10. IsFrame(w) /\ b = w[n + 1] /\ Heard(parser, w, n)
  BY <1>6, <1>7, <1>8, <1>9
<1>11. /\ n < 5 => ~Complete(x) /\ Heard(x, w, n + 1)
       /\ n = 5 => /\ Complete(x) /\ x.frame \in Seq(Symbol) /\ Len(x.frame) = 6
                   /\ \A i \in 1 .. 6 : x.frame[i] = w[i]
  BY <1>1, <1>2, <1>10, CollectHears
<1>12. Head(line) = <<CKSUM, cur>> => n = 5 /\ w = Answer(cur)
  <2>1. SUFFICES ASSUME Head(line) = <<CKSUM, cur>> PROVE n = 5 /\ w = Answer(cur)
    OBVIOUS
  <2>2. n + 1 \in 1 .. 6 /\ w[n + 1] = <<CKSUM, cur>> /\ cur \in Poll
    BY <1>1, <1>4, <1>10, <2>1
  <2>3. n + 1 = 6 /\ w = Answer(cur)
    BY <1>10, <2>2, FrameIs
  <2> QED BY <2>3
<1>13. /\ 1 \in 0 .. Len(line) /\ line' = SubSeq(line, 1 + 1, Len(line)) /\ line' \in Seq(Symbol)
       /\ Len(line') = Len(line) - 1 /\ Len(line) \in Nat
  BY <1>1
<1>14. PICK g, pg : /\ Marked(line', g, pg)
                    /\ Len(line') > 0 => 1 + 1 \in 1 .. Len(line) /\ g[1] = h[1 + 1] /\ pg[1] = ph[1 + 1]
  <2>1. Dropped(line', line, 1)
    BY <1>1, <1>13 DEF Dropped
  <2> QED BY <1>6, <2>1, MarkedShift
<1>15. line' # <<>> => Len(line') > 0
  BY <1>13
<1>16. Len(line') > 0 => \/ ph[1] = 6 /\ pg[1] = 1
                         \/ ph[1] < 6 /\ pg[1] = ph[1] + 1 /\ g[1] = h[1]
  <2>1. SUFFICES ASSUME Len(line') > 0
                 PROVE  \/ ph[1] = 6 /\ pg[1] = 1
                        \/ ph[1] < 6 /\ pg[1] = ph[1] + 1 /\ g[1] = h[1]
    OBVIOUS
  <2>2. 1 \in 1 .. Len(line) - 1
    BY <1>13, <2>1
  <2>3. \/ ph[1] = 6 /\ ph[1 + 1] = 1
        \/ ph[1] < 6 /\ ph[1 + 1] = ph[1] + 1 /\ h[1 + 1] = h[1]
    BY <1>6, <2>2, Zenon DEF Marked
  <2> QED BY <1>14, <2>1, <2>3
<1>17. CASE n < 5
  <2>1. parser' = x /\ waiting' = waiting /\ missed' = (missed \/ Head(line) = <<CKSUM, cur>>)
    BY <1>1, <1>11, <1>17 DEF Judge
  <2>2. missed' <=> missed
    <3>1. Head(line) # <<CKSUM, cur>>
      BY <1>12, <1>17
    <3> QED BY <2>1, <3>1, Zenon
  <2>3. line' # <<>>
    <3>1. ph[Len(line)] = 6
      BY <1>1, <1>6 DEF Marked
    <3>2. ph[1] # 6
      BY <1>8, <1>17
    <3>4. Len(line) # 1
      BY <3>1, <3>2, Zenon
    <3>3. Len(line') > 0
      BY <1>1, <1>13, <3>4
    <3> QED BY <3>3
  <2>4. g[1] = w /\ pg[1] - 1 = n + 1
    BY <1>8, <1>9, <1>15, <1>16, <1>17, <2>3
  <2>5. Heard(parser', g[1], pg[1] - 1)
    BY <1>11, <1>17, <2>1, <2>4
  <2>6. InPhase(g, pg)'
    BY <1>14, <2>3, <2>5 DEF InPhase, Marked, Heard
  <2> QED BY <2>2, <2>6
<1>18. CASE n = 5
  <2>1. parser' = Hunting
    BY <1>1, <1>11, <1>18 DEF Judge, Return
  <2>2. missed' = missed \/ Head(line) # <<CKSUM, cur>>
    <3>1. SUFFICES ASSUME Head(line) = <<CKSUM, cur>> PROVE missed' = missed
      OBVIOUS
    <3>2. \A i \in 1 .. 6 : x.frame[i] = Answer(cur)[i]
      <4>1. w = Answer(cur)
        BY <1>12, <3>1, Zenon
      <4>2. \A i \in 1 .. 6 : x.frame[i] = w[i]
        BY <1>11, <1>18, Zenon
      <4> QED BY <4>1, <4>2, Zenon
    <3>3. Answers(x.frame, cur)
      BY <1>1, <1>11, <1>18, <3>2, AnswerAnswers
    <3> QED BY <1>1, <1>11, <1>18, <3>3 DEF Judge
  <2>3. missed' <=> missed
    <3>1. \/ missed' <=> missed
          \/ missed' <=> (missed \/ Head(line) = <<CKSUM, cur>>)
      BY <1>1, <1>11, <1>18, Zenon DEF Judge
    <3>2. CASE Head(line) = <<CKSUM, cur>>
      BY <2>2, <3>2
    <3>3. CASE Head(line) # <<CKSUM, cur>>
      BY <3>1, <3>3, Zenon
    <3> QED BY <3>2, <3>3
  <2>4. line' # <<>> => pg[1] - 1 = 0
    BY <1>8, <1>15, <1>16, <1>18
  <2>5. line' # <<>> => Heard(parser', g[1], pg[1] - 1)
    BY <2>1, <2>4, HuntingFits DEF Heard
  <2>6. InPhase(g, pg)'
    BY <1>14, <2>1, <2>5, HuntingFits DEF InPhase, Marked, Heard
  <2> QED BY <2>3, <2>6
<1> QED BY <1>17, <1>18

LEMMA UbxInStepInductive ==
  UbxTypes /\ InStep /\ HeardUnlessSpoilt /\ [UbxNext]_ubxVars => InStep' /\ HeardUnlessSpoilt'
<1>1. ASSUME UNCHANGED ubxVars, InStep, HeardUnlessSpoilt
      PROVE  InStep' /\ HeardUnlessSpoilt'
  BY <1>1 DEF ubxVars, pollVars, lineVars, InStep, InPhase, Marked, Heard, HeardUnlessSpoilt
<1>2. UbxTypes /\ HeardUnlessSpoilt /\ (SendPoll \/ GiveUp \/ Receiver) => HeardUnlessSpoilt'
  BY DEF HeardUnlessSpoilt, SendPoll, GiveUp, Receiver, lineVars
<1> QED BY <1>1, <1>2, SendPollInStep, ByteInStep, GiveUpInStep, ReceiverInStep DEF UbxNext

LEMMA UbxInitInStep == UbxInit => InStep /\ HeardUnlessSpoilt
<1> SUFFICES ASSUME UbxInit PROVE InStep /\ HeardUnlessSpoilt
  OBVIOUS
<1>1. line = <<>> /\ ~waiting /\ ~missed
  BY DEF UbxInit
<1>2. InPhase(0, 0)
  BY <1>1 DEF InPhase, Marked
<1> QED BY <1>1, <1>2 DEF InStep, HeardUnlessSpoilt

-----------------------------------------------------------------------------
UbxInv == UbxTypes /\ Owing /\ FiledExplained /\ InStep /\ HeardUnlessSpoilt

\* Whatever the line does with the receiver's answers (poll_ubx_data), what a poll
\* files is an answer to its class and id, and a poll that got none has a reason.
THEOREM InvariancePoll == UbxSpec => []UbxInv
<1>1. UbxInit => UbxInv
  BY UbxInitTypes, UbxInitOwing, UbxInitInStep DEF UbxInv
<1>2. UbxInv /\ [UbxNext]_ubxVars => UbxInv'
  BY UbxTypesInductive, UbxOwingInductive, UbxInStepInductive DEF UbxInv
<1> QED BY <1>1, <1>2, PTL DEF UbxSpec

\* The invariant says what the runs check of the polls.
LEMMA UbxInvMeans ==
  ASSUME UbxInv
  PROVE  UbxTypeOK /\ PollExplained
<1>1. /\ UbxTypeOK /\ ParserFits(parser) /\ FiledExplained /\ HeardUnlessSpoilt
  BY DEF UbxInv, UbxTypes
<1>2. FrameInBounds
  <2>1. parser \in Parser
    BY <1>1 DEF UbxTypeOK, Parser
  <2>2. Len(parser.frame) \in Nat /\ parser.expected \in Nat /\ parser.state \in 0 .. 3
    BY <2>1 DEF Parser
  <2>3. Len(parser.frame) < UBX_FRAME_MAX
    <3>1. CASE parser.state = 3
      BY <1>1, <2>2, <3>1, UbxConstants DEF ParserFits
    <3>2. CASE parser.state # 3
      <4>1. Len(parser.frame) <= 3
        <5>1. parser.state = 0 \/ parser.state = 1 \/ parser.state = 2
          BY <2>2, <3>2
        <5>2. /\ parser.state = 0 => Len(parser.frame) <= 1
              /\ parser.state = 1 => Len(parser.frame) = 1
              /\ parser.state = 2 => Len(parser.frame) >= 2 /\ Len(parser.frame) <= 3
          BY <1>1, Zenon DEF ParserFits
        <5>3. CASE parser.state = 0
          BY <2>2, <5>2, <5>3
        <5>4. CASE parser.state = 1
          <6>1. Len(parser.frame) = 1
            BY <5>2, <5>4, Zenon
          <6> QED BY <6>1
        <5>5. CASE parser.state = 2
          BY <2>2, <5>2, <5>5
        <5> QED BY <5>1, <5>3, <5>4, <5>5
      <4> QED BY <2>2, <4>1, UbxConstants DEF OVERHEAD
    <3> QED BY <3>1, <3>2
  <2> QED BY <1>1, <2>3 DEF ParserFits, FrameInBounds
<1> QED BY <1>1, <1>2 DEF PollExplained
-----------------------------------------------------------------------------
(* The log directory *)

\* The file of the loop is of the size the loop counts, and no gzip works on it.
LogFileOpen ==
  /\ fsize <= LOG_SIZE
  /\ logging /\ logFile \notin reused => gzip[logFile] = "no" /\ ubx[logFile] = fsize

\* gzip works on files that were full, and on what it has read of them.
Compressing ==
  \A n \in Name :
    /\ gzip[n] # "no" => ubx[n] > LOG_SIZE \/ n \in reused
    /\ gzip[n] \in {"open", "read"} => ubx[n] # Absent /\ (gz[n] # "no" \/ n \in swept)
    /\ gzip[n] = "read" => ubx[n] <= seen[n] \/ n \in reused

\* Names are of seconds that were; the ones being compressed are of seconds past.
NamesPast ==
  /\ logFile <= second
  /\ \A n \in Name : /\ ubx[n] # Absent => n <= second
                     /\ gzip[n] # "no" \/ gz[n] # "no" => n < second \/ n \in reused

Running == {n \in Name : gzip[n] # "no"}

\* What the explanation of the number of files rests on.
Clean == ~overlap /\ ~crashed /\ reused = {} /\ ~left

Tidy ==
  /\ \A n \in Files : n = logFile \/ gzip[n] # "no"
  /\ Cardinality(Zipped \cup Running) <= MAX_FILES - 1
  /\ \A n \in Name :
       /\ gz[n] # "no" /\ ubx[n] # Absent => gzip[n] \in {"open", "read"}
       /\ gz[n] # "no" \/ gzip[n] # "no" =>
            mtime[n] <= second /\ (mtime[n] = second => ubx[second] # Absent)
       /\ gz[n] # "no" /\ gzip[n] = "no" => gzTime[n] = mtime[n]

LogInv ==
  /\ LogTypeOK
  /\ LogFileOpen /\ Compressing /\ NamesPast
  /\ LogLossExplained /\ LogSizeKept
  /\ Clean => Tidy

\* The size of a file when one read more is appended to the open one.
Grown(n) == IF n = logFile /\ ubx[n] # Absent THEN ubx[n] + 1 ELSE ubx[n]

-----------------------------------------------------------------------------
(* The steps of the log thread and of gzip, file by file. *)

SameGzip == gz' = gz /\ gzTime' = gzTime /\ gzip' = gzip /\ seen' = seen

Continues(n) ==
  /\ n \in Name /\ ubx[n] # Absent /\ ubx[n] < LOG_SIZE
  /\ logFile' = n /\ fsize' = ubx[n] /\ logging' = TRUE
  /\ ubx' = ubx /\ mtime' = mtime /\ reused' = reused /\ second' = second /\ SameGzip
  /\ lost' = lost /\ swept' = swept /\ (overlap' <=> overlap) /\ (crashed' <=> crashed)
  /\ left' <=> left \/ Idle(n)

OpensNew ==
  /\ logFile' = second /\ fsize' = 0 /\ logging' = TRUE
  /\ \A n \in Name : ubx'[n] = IF n = second /\ ubx[n] = Absent THEN 0 ELSE ubx[n]
  /\ \A n \in Name : mtime'[n] = IF n = second THEN second ELSE mtime[n]
  /\ reused' = IF ubx[second] # Absent THEN reused \cup {second} ELSE reused
  /\ second' = second /\ SameGzip
  /\ lost' = lost /\ swept' = swept /\ (overlap' <=> overlap) /\ (crashed' <=> crashed)
  /\ left' <=> left \/ Idle(second)

Reads ==
  /\ logging /\ logging' = TRUE
  /\ \A n \in Name : mtime'[n] = IF n = logFile THEN second ELSE mtime[n]
  /\ lost' = IF ubx[logFile] = Absent THEN lost \cup {logFile} ELSE lost
  /\ second' = second /\ seen' = seen /\ gzTime' = gzTime
  /\ (crashed' <=> crashed) /\ (left' <=> left)

Appends ==
  /\ Reads
  /\ fsize + 1 <= LOG_SIZE /\ fsize' = fsize + 1 /\ logFile' = logFile
  /\ \A n \in Name : ubx'[n] = Grown(n)
  /\ gz' = gz /\ gzip' = gzip /\ reused' = reused /\ swept' = swept /\ (overlap' <=> overlap)

Rotates(d) ==
  /\ Reads
  /\ fsize + 1 > LOG_SIZE /\ fsize' = 0 /\ logFile' = second
  /\ \A n \in Name : ubx'[n] = IF n = second /\ Grown(n) = Absent THEN 0 ELSE Grown(n)
  /\ d \in Sweep
  /\ \A n \in Name : gz'[n] = IF n = d THEN "no" ELSE gz[n]
  /\ swept' = IF d # Absent /\ gzip[d] # "no" THEN swept \cup {d} ELSE swept
  /\ \A n \in Name : gzip'[n] = IF n = logFile /\ gzip[n] = "no" THEN "forked" ELSE gzip[n]
  /\ overlap' <=> overlap \/ \E n \in Name : gzip[n] # "no"
  /\ reused' = IF Grown(second) # Absent THEN reused \cup {second} ELSE reused

LEMMA LogBounds ==
  ASSUME LogTypeOK
  PROVE  /\ MaxTime \in Nat /\ LOG_SIZE \in Nat /\ MAX_FILES \in Nat /\ MAX_FILES > 1
         /\ Name \subseteq Nat /\ second \in Name /\ second \in Int /\ logFile \in Name
         /\ logFile \in Int /\ fsize \in Nat /\ Absent \notin Name
         /\ \A n \in Name : /\ ubx[n] \in Int /\ (ubx[n] # Absent => ubx[n] \in Nat)
                            /\ mtime[n] \in Nat /\ gzTime[n] \in Nat /\ seen[n] \in Nat
<1>1. /\ ubx \in [Name -> Nat \cup {Absent}] /\ mtime \in [Name -> Nat]
      /\ gzTime \in [Name -> Nat] /\ seen \in [Name -> Nat] /\ fsize \in Nat
      /\ second \in Name /\ logFile \in Name
  BY DEF LogTypeOK
<1>2. Name \subseteq Nat /\ Absent \notin Name
  BY LogAssumption DEF Name, Absent
<1>3. ASSUME NEW n \in Name
      PROVE  ubx[n] \in Int /\ (ubx[n] # Absent => ubx[n] \in Nat)
  <2>1. ubx[n] \in Nat \cup {Absent}
    BY <1>1, Zenon
  <2> QED BY <2>1 DEF Absent
<1> QED BY <1>1, <1>2, <1>3, LogAssumption

LEMMA StartLogMoves ==
  ASSUME LogTypeOK, StartLog
  PROVE  LogTypeOK' /\ ((\E n \in Name : Continues(n)) \/ OpensNew)
<1>1. /\ starts' = starts + 1 /\ starts < MaxStarts /\ logging' = TRUE
      /\ second' = second /\ SameGzip /\ lost' = lost /\ swept' = swept /\ overlap' = overlap
      /\ crashed' = crashed /\ reads' = reads
  BY DEF StartLog, gzipVars, SameGzip
<1>2. starts' \in 0 .. MaxStarts
  BY <1>1, LogAssumption DEF LogTypeOK
<1>3. ASSUME logFile' \in Name, fsize' \in Nat, ubx' \in [Name -> Nat \cup {Absent}],
             mtime' \in [Name -> Nat], reused' \subseteq Name, left' \in BOOLEAN
      PROVE  LogTypeOK'
  BY <1>1, <1>2, <1>3 DEF LogTypeOK, SameGzip
<1>4. CASE \E n \in Small : /\ logFile' = n /\ fsize' = ubx[n] /\ left' = (left \/ Idle(n))
                            /\ UNCHANGED <<ubx, mtime, reused>>
  <2>1. PICK n \in Small : /\ logFile' = n /\ fsize' = ubx[n] /\ left' = (left \/ Idle(n))
                           /\ UNCHANGED <<ubx, mtime, reused>>
    BY <1>4, Zenon
  <2>2. n \in Name /\ ubx[n] # Absent /\ ubx[n] < LOG_SIZE
    BY DEF Small, Files
  <2>3. ubx[n] \in Nat
    BY <2>2, LogBounds
  <2>4. left' \in BOOLEAN /\ (left' <=> left \/ Idle(n))
    BY <2>1, Zenon
  <2>5. LogTypeOK'
    BY <1>3, <2>1, <2>2, <2>3, <2>4 DEF LogTypeOK
  <2>6. Continues(n)
    BY <1>1, <2>1, <2>2, <2>4, Zenon DEF Continues
  <2> QED BY <2>2, <2>5, <2>6
<1>5. CASE /\ logFile' = second
           /\ fsize' = 0
           /\ ubx' = Opened(second)
           /\ reused' = IF ubx[second] # Absent THEN reused \cup {second} ELSE reused
           /\ mtime' = [mtime EXCEPT ![second] = second]
           /\ left' = (left \/ Idle(second))
  <2>1. ubx \in [Name -> Nat \cup {Absent}] /\ mtime \in [Name -> Nat] /\ second \in Name /\ second \in Nat
    BY LogBounds DEF LogTypeOK
  <2>2. /\ ubx' \in [Name -> Nat \cup {Absent}]
        /\ \A n \in Name : ubx'[n] = IF n = second /\ ubx[n] = Absent THEN 0 ELSE ubx[n]
    BY <1>5, <2>1 DEF Opened
  <2>3. /\ mtime' \in [Name -> Nat]
        /\ \A n \in Name : mtime'[n] = IF n = second THEN second ELSE mtime[n]
    BY <1>5, <2>1
  <2>4. left' \in BOOLEAN /\ (left' <=> left \/ Idle(second))
    BY <1>5, Zenon
  <2>5. LogTypeOK'
    BY <1>3, <1>5, <2>1, <2>2, <2>3, <2>4 DEF LogTypeOK
  <2>6. OpensNew
    BY <1>1, <1>5, <2>2, <2>3, <2>4, Zenon DEF OpensNew
  <2> QED BY <2>5, <2>6
<1> QED BY <1>4, <1>5, Zenon DEF StartLog

LEMMA LogReadMoves ==
  ASSUME LogTypeOK, LogRead
  PROVE  LogTypeOK' /\ (Appends \/ \E d \in Name \cup {Absent} : Rotates(d))
<1> DEFINE grown == [ubx EXCEPT ![logFile] = IF @ = Absent THEN @ ELSE @ + 1]
<1>1. /\ logging /\ logging' = logging /\ reads' = reads + 1 /\ reads < MaxReads
      /\ mtime' = [mtime EXCEPT ![logFile] = second]
      /\ second' = second /\ seen' = seen /\ starts' = starts /\ crashed' = crashed /\ left' = left
  BY DEF LogRead
<1>2. /\ ubx \in [Name -> Nat \cup {Absent}] /\ mtime \in [Name -> Nat] /\ second \in Name
      /\ second \in Nat /\ logFile \in Name /\ fsize \in Nat /\ logging \in BOOLEAN
      /\ gz \in [Name -> {"no", "part", "whole"}] /\ gzip \in [Name -> {"no", "forked", "open", "read"}]
      /\ reused \subseteq Name /\ swept \subseteq Name /\ lost \subseteq Name
  BY LogBounds DEF LogTypeOK
<1>3. /\ mtime' \in [Name -> Nat]
      /\ \A n \in Name : mtime'[n] = IF n = logFile THEN second ELSE mtime[n]
  BY <1>1, <1>2
<1>4. reads' \in 0 .. MaxReads
  BY <1>1, LogAssumption DEF LogTypeOK
<1>5. grown \in [Name -> Nat \cup {Absent}] /\ \A n \in Name : grown[n] = Grown(n)
  <2>1. ubx[logFile] # Absent => ubx[logFile] \in Nat /\ ubx[logFile] + 1 \in Nat
    BY LogBounds
  <2> QED BY <1>2, <2>1 DEF Grown
<1> HIDE DEF grown
<1>6. logging' = TRUE
  BY <1>1, <1>2
<1>7. CASE /\ ~(fsize + 1 > LOG_SIZE)
           /\ fsize' = fsize + 1
           /\ ubx' = grown
           /\ lost' = IF ubx[logFile] = Absent THEN lost \cup {logFile} ELSE lost
           /\ UNCHANGED <<logFile, gz, gzTime, gzip, reused, swept, overlap>>
  <2>1. Reads
    BY <1>1, <1>3, <1>6, <1>7 DEF Reads
  <2>2. Appends
    BY <1>2, <1>5, <1>7, <2>1, LogAssumption DEF Appends
  <2>3. lost' \subseteq Name /\ fsize' \in Nat
    BY <1>2, <1>7
  <2>4. LogTypeOK'
    BY <1>1, <1>2, <1>3, <1>4, <1>5, <1>7, <2>3 DEF LogTypeOK
  <2> QED BY <2>2, <2>4
<1>8. CASE /\ fsize + 1 > LOG_SIZE
           /\ \E d \in Sweep :
                /\ gz' = IF d = Absent THEN gz ELSE [gz EXCEPT ![d] = "no"]
                /\ swept' = IF d # Absent /\ gzip[d] # "no" THEN swept \cup {d} ELSE swept
           /\ gzip' = Forked
           /\ overlap' = (overlap \/ \E n \in Name : gzip[n] # "no")
           /\ logFile' = NextName
           /\ fsize' = 0
           /\ reused' = IF NextName = second /\ grown[second] # Absent THEN reused \cup {NextName} ELSE reused
           /\ ubx' = [grown EXCEPT ![NextName] = IF @ = Absent THEN 0 ELSE @]
           /\ lost' = IF ubx[logFile] = Absent THEN lost \cup {logFile} ELSE lost
           /\ UNCHANGED gzTime
  <2>1. Reads
    BY <1>1, <1>3, <1>6, <1>8 DEF Reads
  <2>2. PICK d \in Sweep :
                /\ gz' = IF d = Absent THEN gz ELSE [gz EXCEPT ![d] = "no"]
                /\ swept' = IF d # Absent /\ gzip[d] # "no" THEN swept \cup {d} ELSE swept
    BY <1>8
  <2>3. d \in Name \cup {Absent} /\ Absent \notin Name
    BY LogBounds DEF Sweep, Oldest, Zipped
  <2>4. /\ gz' \in [Name -> {"no", "part", "whole"}]
        /\ \A n \in Name : gz'[n] = IF n = d THEN "no" ELSE gz[n]
    BY <1>2, <2>2, <2>3
  <2>5. /\ gzip' \in [Name -> {"no", "forked", "open", "read"}]
        /\ \A n \in Name : gzip'[n] = IF n = logFile /\ gzip[n] = "no" THEN "forked" ELSE gzip[n]
    BY <1>2, <1>8 DEF Forked
  <2>6. /\ ubx' \in [Name -> Nat \cup {Absent}]
        /\ \A n \in Name : ubx'[n] = IF n = second /\ Grown(n) = Absent THEN 0 ELSE Grown(n)
    BY <1>2, <1>5, <1>8 DEF NextName
  <2>7. overlap' \in BOOLEAN /\ (overlap' <=> overlap \/ \E n \in Name : gzip[n] # "no")
    BY <1>8, Zenon
  <2>8. reused' = IF Grown(second) # Absent THEN reused \cup {second} ELSE reused
    BY <1>2, <1>5, <1>8 DEF NextName
  <2>9. lost' \subseteq Name /\ fsize' \in Nat /\ reused' \subseteq Name /\ swept' \subseteq Name
    BY <1>2, <1>8, <2>2, <2>3, <2>8
  <2>10. fsize + 1 > LOG_SIZE /\ fsize' = 0 /\ logFile' = second
    BY <1>8 DEF NextName
  <2>11. Rotates(d)
    BY <2>1, <2>2, <2>4, <2>5, <2>6, <2>7, <2>8, <2>10, Zenon DEF Rotates
  <2>12. LogTypeOK'
    BY <1>1, <1>2, <1>3, <1>4, <1>8, <2>4, <2>5, <2>6, <2>7, <2>9, <2>10 DEF LogTypeOK
  <2> QED BY <2>3, <2>11, <2>12
<1> QED BY <1>7, <1>8, Zenon DEF LogRead, grown

LEMMA GzipTypes ==
  ASSUME LogTypeOK, Compressing, NEW n \in Name, GzipOpen(n) \/ GzipRead(n) \/ GzipDone(n)
  PROVE  LogTypeOK'
<1>1. /\ gz \in [Name -> {"no", "part", "whole"}] /\ gzip \in [Name -> {"no", "forked", "open", "read"}]
      /\ gzTime \in [Name -> Nat] /\ seen \in [Name -> Nat] /\ second \in Nat
      /\ ubx \in [Name -> Nat \cup {Absent}] /\ mtime[n] \in Nat /\ lost \subseteq Name
  BY LogBounds DEF LogTypeOK
<1>2. CASE GzipOpen(n)
  <2>1. /\ gz' \in [Name -> {"no", "part", "whole"}] /\ gzTime' \in [Name -> Nat]
        /\ gzip' \in [Name -> {"no", "forked", "open", "read"}]
    BY <1>1, <1>2 DEF GzipOpen
  <2> QED BY <1>2, <2>1 DEF GzipOpen, LogTypeOK, logHistory
<1>3. CASE GzipRead(n)
  <2>1. ubx[n] \in Nat
    BY <1>3, LogBounds DEF Compressing, GzipRead
  <2>2. gzip' \in [Name -> {"no", "forked", "open", "read"}] /\ seen' \in [Name -> Nat]
    BY <1>1, <1>3, <2>1 DEF GzipRead
  <2> QED BY <1>3, <2>2 DEF GzipRead, LogTypeOK, logHistory, dirVars
<1>4. CASE GzipDone(n)
  <2>1. gzip' \in [Name -> {"no", "forked", "open", "read"}] /\ seen' \in [Name -> Nat]
    BY <1>1, <1>4 DEF GzipDone
  <2>2. gz' \in [Name -> {"no", "part", "whole"}] /\ gzTime' \in [Name -> Nat]
    BY <1>1, <1>4 DEF GzipDone
  <2>3. ubx' \in [Name -> Nat \cup {Absent}] /\ lost' \subseteq Name
    BY <1>1, <1>4 DEF GzipDone
  <2> QED BY <1>4, <2>1, <2>2, <2>3 DEF GzipDone, LogTypeOK
<1> QED BY <1>2, <1>3, <1>4

LEMMA OtherLogTypes ==
  ASSUME LogTypeOK, StopLog \/ LogTick \/ Crash
  PROVE  LogTypeOK'
<1>1. CASE StopLog
  BY <1>1 DEF StopLog, LogTypeOK, dirVars, gzipVars, logHistory
<1>2. CASE LogTick
  <2>1. second' \in Name
    BY <1>2, LogAssumption DEF LogTick, LogTypeOK, Name
  <2> QED BY <1>2, <2>1 DEF LogTick, LogTypeOK, dirVars, gzipVars, logHistory
<1>3. CASE Crash
  BY <1>3 DEF Crash, LogTypeOK, dirVars
<1> QED BY <1>1, <1>2, <1>3

\* What holds of the log whatever happens to the directory.
LogKept == LogFileOpen /\ Compressing /\ NamesPast /\ LogLossExplained /\ LogSizeKept

LEMMA ContinuesKeeps ==
  ASSUME LogTypeOK, LogKept, NEW n \in Name, Continues(n)
  PROVE  LogKept'
<1>1. /\ LogFileOpen /\ Compressing /\ NamesPast /\ LogLossExplained /\ LogSizeKept
      /\ ubx[n] \in Int /\ LOG_SIZE \in Nat /\ second \in Int /\ n \in Int
  BY LogBounds DEF LogKept
<1>2. gzip[n] = "no" \/ n \in reused
  BY <1>1, LogBounds DEF Continues, Compressing
<1>3. LogFileOpen'
  BY <1>1, <1>2 DEF LogFileOpen, Continues, SameGzip
<1>4. Compressing' /\ LogLossExplained' /\ LogSizeKept'
  BY <1>1 DEF Compressing, LogLossExplained, LogSizeKept, Continues, SameGzip, Files
<1>5. NamesPast'
  BY <1>1 DEF NamesPast, Continues, SameGzip
<1> QED BY <1>3, <1>4, <1>5 DEF LogKept

LEMMA OpensNewKeeps ==
  ASSUME LogTypeOK, LogKept, OpensNew
  PROVE  LogKept'
<1>1. /\ LogFileOpen /\ Compressing /\ NamesPast /\ LogLossExplained /\ LogSizeKept
      /\ LOG_SIZE \in Nat /\ second \in Int /\ second \in Name
      /\ \A n \in Name : ubx[n] \in Int /\ n \in Int /\ seen[n] \in Nat
  BY LogBounds DEF LogKept
<1>2. /\ logFile' = second /\ fsize' = 0 /\ logging' = TRUE /\ second' = second
      /\ \A n \in Name : ubx'[n] = IF n = second /\ ubx[n] = Absent THEN 0 ELSE ubx[n]
      /\ reused' = IF ubx[second] # Absent THEN reused \cup {second} ELSE reused
      /\ gz' = gz /\ gzip' = gzip /\ seen' = seen /\ lost' = lost /\ swept' = swept
  BY DEF OpensNew, SameGzip
<1>3. gzip[second] = "no" \/ second \in reused'
  BY <1>1, <1>2 DEF Compressing, Absent
<1>4. LogFileOpen'
  BY <1>1, <1>2, <1>3 DEF LogFileOpen
<1>5. Compressing'
  <2> SUFFICES ASSUME NEW n \in Name
               PROVE  /\ gzip[n] # "no" => ubx'[n] > LOG_SIZE \/ n \in reused'
                      /\ gzip[n] \in {"open", "read"} => ubx'[n] # Absent /\ (gz[n] # "no" \/ n \in swept)
                      /\ gzip[n] = "read" => ubx'[n] <= seen[n] \/ n \in reused'
    BY <1>2 DEF Compressing
  <2>1. CASE n = second /\ ubx[n] = Absent
    BY <1>1, <1>2, <1>3, <2>1 DEF Compressing, Absent
  <2>2. CASE ~(n = second /\ ubx[n] = Absent)
    BY <1>1, <1>2, <2>2 DEF Compressing
  <2> QED BY <2>1, <2>2
<1>6. NamesPast'
  BY <1>1, <1>2 DEF NamesPast
<1>7. LogLossExplained'
  BY <1>1, <1>2 DEF LogLossExplained
<1>8. LogSizeKept'
  <2> SUFFICES ASSUME NEW n \in Name, n \notin reused', ubx'[n] # Absent
               PROVE  ubx'[n] <= LOG_SIZE + 1
    BY DEF LogSizeKept, Files
  <2>1. CASE n = second
    BY <1>1, <1>2, <2>1
  <2>2. CASE n # second
    BY <1>1, <1>2, <2>2 DEF LogSizeKept, Files
  <2> QED BY <2>1, <2>2
<1> QED BY <1>4, <1>5, <1>6, <1>7, <1>8 DEF LogKept

LEMMA AppendsKeeps ==
  ASSUME LogTypeOK, LogKept, Appends
  PROVE  LogKept'
<1>1. /\ LogFileOpen /\ Compressing /\ NamesPast /\ LogLossExplained /\ LogSizeKept
      /\ LOG_SIZE \in Nat /\ second \in Int /\ logFile \in Name /\ fsize \in Nat
      /\ \A n \in Name : ubx[n] \in Int /\ n \in Int /\ seen[n] \in Nat
  BY LogBounds DEF LogKept
<1>2. /\ logging /\ logging' = TRUE /\ logFile' = logFile /\ fsize' = fsize + 1
      /\ fsize + 1 <= LOG_SIZE /\ second' = second
      /\ \A n \in Name : ubx'[n] = IF n = logFile /\ ubx[n] # Absent THEN ubx[n] + 1 ELSE ubx[n]
      /\ lost' = IF ubx[logFile] = Absent THEN lost \cup {logFile} ELSE lost
      /\ gz' = gz /\ gzip' = gzip /\ seen' = seen /\ reused' = reused /\ swept' = swept
  BY DEF Appends, Reads, Grown
<1>3. logFile \notin reused => gzip[logFile] = "no" /\ ubx[logFile] = fsize /\ ubx[logFile] # Absent
  BY <1>1, <1>2 DEF LogFileOpen, Absent
<1>4. LogFileOpen'
  BY <1>1, <1>2, <1>3 DEF LogFileOpen
<1>5. Compressing'
  <2> SUFFICES ASSUME NEW n \in Name
               PROVE  /\ gzip[n] # "no" => ubx'[n] > LOG_SIZE \/ n \in reused
                      /\ gzip[n] \in {"open", "read"} => ubx'[n] # Absent /\ (gz[n] # "no" \/ n \in swept)
                      /\ gzip[n] = "read" => ubx'[n] <= seen[n] \/ n \in reused
    BY <1>2 DEF Compressing
  <2>1. CASE n = logFile
    <3>1. n \in reused \/ gzip[n] = "no"
      BY <1>3, <2>1
    <3>2. ubx[n] # Absent => ubx'[n] # Absent
      <4>1. ubx[n] # Absent => ubx[n] \in Nat
        BY LogBounds
      <4> QED BY <1>2, <4>1 DEF Absent
    <3> QED BY <1>1, <3>1, <3>2 DEF Compressing
  <2>2. CASE n # logFile
    BY <1>1, <1>2, <2>2 DEF Compressing
  <2> QED BY <2>1, <2>2
<1>6. NamesPast'
  BY <1>1, <1>2 DEF NamesPast
<1>7. LogLossExplained'
  BY <1>1, <1>2, <1>3 DEF LogLossExplained
<1>8. LogSizeKept'
  <2> SUFFICES ASSUME NEW n \in Name, n \notin reused, ubx'[n] # Absent
               PROVE  ubx'[n] <= LOG_SIZE + 1
    BY <1>2 DEF LogSizeKept, Files
  <2>1. CASE n = logFile
    BY <1>1, <1>2, <1>3, <2>1
  <2>2. CASE n # logFile
    BY <1>1, <1>2, <2>2 DEF LogSizeKept, Files
  <2> QED BY <2>1, <2>2
<1> QED BY <1>4, <1>5, <1>6, <1>7, <1>8 DEF LogKept

LEMMA RotatesKeeps ==
  ASSUME LogTypeOK, LogKept, NEW d \in Name \cup {Absent}, Rotates(d)
  PROVE  LogKept'
<1>1. /\ LogFileOpen /\ Compressing /\ NamesPast /\ LogLossExplained /\ LogSizeKept
      /\ LOG_SIZE \in Nat /\ second \in Int /\ second \in Name /\ logFile \in Name /\ fsize \in Nat
      /\ logFile \in Int /\ Absent \notin Name
      /\ \A n \in Name : ubx[n] \in Int /\ n \in Int /\ seen[n] \in Nat /\ (ubx[n] # Absent => ubx[n] >= 0)
  BY LogBounds DEF LogKept
<1>2. /\ logging /\ logging' = TRUE /\ logFile' = second /\ fsize' = 0
      /\ fsize + 1 > LOG_SIZE /\ second' = second
      /\ lost' = IF ubx[logFile] = Absent THEN lost \cup {logFile} ELSE lost
      /\ seen' = seen
      /\ \A n \in Name : gz'[n] = IF n = d THEN "no" ELSE gz[n]
      /\ swept' = IF d # Absent /\ gzip[d] # "no" THEN swept \cup {d} ELSE swept
      /\ \A n \in Name : gzip'[n] = IF n = logFile /\ gzip[n] = "no" THEN "forked" ELSE gzip[n]
  BY DEF Rotates, Reads
<1>3. logFile \notin reused => gzip[logFile] = "no" /\ ubx[logFile] = fsize /\ ubx[logFile] # Absent
  BY <1>1, <1>2 DEF LogFileOpen, Absent
<1>4. \A n \in Name : /\ Grown(n) \in Int /\ Grown(n) >= ubx[n] /\ (Grown(n) = Absent <=> ubx[n] = Absent)
                      /\ n # logFile => Grown(n) = ubx[n]
                      /\ n = logFile /\ ubx[n] # Absent => Grown(n) = ubx[n] + 1
  BY <1>1 DEF Grown, Absent
<1>5. /\ \A n \in Name : ubx'[n] = IF n = second /\ Grown(n) = Absent THEN 0 ELSE Grown(n)
      /\ reused' = IF Grown(second) # Absent THEN reused \cup {second} ELSE reused
      /\ reused \subseteq reused' /\ swept \subseteq swept'
  BY <1>2 DEF Rotates
\* Under a name not opened twice the second's file is new, and is not the full one.
<1>6. second \notin reused' => /\ ubx[second] = Absent /\ second # logFile /\ ubx'[second] = 0
                               /\ gzip[second] = "no" /\ gzip'[second] = "no"
  <2> SUFFICES ASSUME second \notin reused'
               PROVE  /\ ubx[second] = Absent /\ second # logFile /\ ubx'[second] = 0
                      /\ gzip[second] = "no" /\ gzip'[second] = "no"
    OBVIOUS
  <2>1. ubx[second] = Absent /\ second \notin reused /\ Grown(second) = Absent
    BY <1>1, <1>4, <1>5
  <2>2. second # logFile
    BY <1>3, <2>1
  <2>3. gzip[second] = "no"
    BY <1>1, <2>1 DEF Compressing, Absent
  <2> QED BY <1>1, <1>2, <1>5, <2>1, <2>2, <2>3
<1>7. LogFileOpen'
  BY <1>1, <1>2, <1>6 DEF LogFileOpen
<1>8. Compressing'
  <2> SUFFICES ASSUME NEW n \in Name
               PROVE  /\ gzip'[n] # "no" => ubx'[n] > LOG_SIZE \/ n \in reused'
                      /\ gzip'[n] \in {"open", "read"} => ubx'[n] # Absent /\ (gz'[n] # "no" \/ n \in swept')
                      /\ gzip'[n] = "read" => ubx'[n] <= seen[n] \/ n \in reused'
    BY <1>2 DEF Compressing
  <2>1. gzip'[n] \in {"open", "read"} => gzip[n] = gzip'[n]
    BY <1>2
  <2>2. gzip'[n] \in {"open", "read"} => gz'[n] # "no" \/ n \in swept'
    BY <1>1, <1>2, <1>5, <2>1 DEF Compressing
  <2>3. gzip'[n] \in {"open", "read"} => ubx'[n] # Absent
    BY <1>1, <1>4, <1>5, <2>1 DEF Compressing
  <2>4. CASE n = logFile
    <3>1. CASE n \in reused
      BY <1>5, <2>2, <2>3, <3>1
    <3>2. CASE n \notin reused
      <4>1. gzip[n] = "no" /\ ubx[n] = fsize /\ ubx[n] # Absent
        BY <1>3, <2>4, <3>2
      <4>2. gzip'[n] = "forked"
        BY <1>2, <2>4, <4>1
      <4>3. Grown(n) = fsize + 1 /\ Grown(n) # Absent
        BY <1>4, <2>4, <4>1
      <4>4. ubx'[n] = fsize + 1
        BY <1>5, <4>3
      <4> QED BY <1>2, <4>2, <4>4
    <3> QED BY <3>1, <3>2
  <2>5. CASE n # logFile
    <3>1. gzip'[n] = gzip[n] /\ Grown(n) = ubx[n]
      BY <1>2, <1>4, <2>5
    <3>2. CASE n = second
      BY <1>1, <1>5, <1>6, <2>2, <2>3, <3>1, <3>2 DEF Compressing
    <3>3. CASE n # second
      <4>1. ubx'[n] = ubx[n]
        BY <1>5, <3>1, <3>3
      <4> QED BY <1>1, <1>5, <2>2, <2>3, <3>1, <4>1 DEF Compressing
    <3> QED BY <3>2, <3>3
  <2> QED BY <2>4, <2>5
<1>9. NamesPast'
  <2> SUFFICES ASSUME NEW n \in Name
               PROVE  /\ ubx'[n] # Absent => n <= second
                      /\ gzip'[n] # "no" \/ gz'[n] # "no" => n < second \/ n \in reused'
    BY <1>1, <1>2 DEF NamesPast
  <2>1. ubx'[n] # Absent => n <= second
    BY <1>1, <1>4, <1>5 DEF NamesPast
  <2>2. gz'[n] # "no" => n < second \/ n \in reused'
    BY <1>1, <1>2, <1>5 DEF NamesPast
  <2>3. gzip'[n] # "no" => n < second \/ n \in reused'
    <3>1. CASE n = logFile
      BY <1>1, <1>6, <3>1 DEF NamesPast
    <3>2. CASE n # logFile
      BY <1>1, <1>2, <1>5, <3>2 DEF NamesPast
    <3> QED BY <3>1, <3>2
  <2> QED BY <2>1, <2>2, <2>3
<1>10. LogLossExplained'
  BY <1>1, <1>2, <1>3, <1>5 DEF LogLossExplained
<1>11. LogSizeKept'
  <2> SUFFICES ASSUME NEW n \in Name, n \notin reused', ubx'[n] # Absent
               PROVE  ubx'[n] <= LOG_SIZE + 1
    BY DEF LogSizeKept, Files
  <2>1. CASE n = second
    BY <1>1, <1>6, <2>1
  <2>2. CASE n # second
    <3>1. ubx'[n] = Grown(n) /\ n \notin reused
      BY <1>5, <2>2
    <3>2. CASE n = logFile
      <4>1. Grown(n) = fsize + 1
        BY <1>3, <1>4, <3>1, <3>2
      <4> QED BY <1>1, <3>1, <4>1 DEF LogFileOpen
    <3>3. CASE n # logFile
      BY <1>1, <1>4, <3>1, <3>3 DEF LogSizeKept, Files
    <3> QED BY <3>2, <3>3
  <2> QED BY <2>1, <2>2
<1> QED BY <1>7, <1>8, <1>9, <1>10, <1>11 DEF LogKept

LEMMA GzipKeeps ==
  ASSUME LogTypeOK, LogKept, NEW n \in Name, GzipOpen(n) \/ GzipRead(n) \/ GzipDone(n)
  PROVE  LogKept'
<1>1. /\ LogFileOpen /\ Compressing /\ NamesPast /\ LogLossExplained /\ LogSizeKept
      /\ gz \in [Name -> {"no", "part", "whole"}] /\ gzip \in [Name -> {"no", "forked", "open", "read"}]
      /\ seen \in [Name -> Nat] /\ ubx \in [Name -> Nat \cup {Absent}]
      /\ \A m \in Name : ubx[m] \in Int
  BY LogBounds DEF LogKept, LogTypeOK
<1>2. gzip[n] # "no"
  BY DEF GzipOpen, GzipRead, GzipDone
<1>3. /\ logging' = logging /\ logFile' = logFile /\ fsize' = fsize /\ second' = second
      /\ reused' = reused /\ swept' = swept
      /\ \A m \in Name : m # n => /\ gz'[m] = gz[m] /\ gzip'[m] = gzip[m] /\ seen'[m] = seen[m]
                                  /\ ubx'[m] = ubx[m]
  BY <1>1 DEF GzipOpen, GzipRead, GzipDone, dirVars, logHistory
<1>4. LogFileOpen'
  BY <1>1, <1>2, <1>3 DEF LogFileOpen, LogTypeOK
<1>5. ubx' = ubx \/ (ubx'[n] = Absent /\ gzip'[n] = "no")
  BY <1>1 DEF GzipOpen, GzipRead, GzipDone, dirVars
<1>6. Compressing'
  <2>1. /\ gzip'[n] # "no" => ubx'[n] > LOG_SIZE \/ n \in reused
        /\ gzip'[n] \in {"open", "read"} => ubx'[n] # Absent /\ (gz'[n] # "no" \/ n \in swept)
        /\ gzip'[n] = "read" => ubx'[n] <= seen'[n] \/ n \in reused
    <3>1. CASE GzipOpen(n)
      BY <1>1, <3>1 DEF GzipOpen, Compressing, logHistory
    <3>2. CASE GzipRead(n)
      BY <1>1, <3>2 DEF GzipRead, Compressing, dirVars
    <3>3. CASE GzipDone(n)
      BY <1>1, <3>3 DEF GzipDone
    <3> QED BY <3>1, <3>2, <3>3
  <2> QED BY <1>1, <1>3, <2>1 DEF Compressing
<1>7. NamesPast'
  <2>1. gz'[n] # "no" \/ gzip'[n] # "no" => n < second \/ n \in reused
    BY <1>1, <1>2 DEF NamesPast
  <2>2. ubx'[n] # Absent => n <= second
    BY <1>1, <1>5 DEF NamesPast
  <2> QED BY <1>1, <1>3, <2>1, <2>2 DEF NamesPast
<1>8. LogLossExplained'
  <2>1. lost' = lost \/ (GzipDone(n) /\ lost' = IF ubx[n] > seen[n] \/ gz[n] = "no" THEN lost \cup {n} ELSE lost)
    BY DEF GzipOpen, GzipRead, GzipDone, logHistory
  <2>2. GzipDone(n) /\ (ubx[n] > seen[n] \/ gz[n] = "no") => n \in reused \/ n \in swept
    BY <1>1 DEF GzipDone, Compressing
  <2> QED BY <1>1, <1>3, <2>1, <2>2 DEF LogLossExplained
<1>9. LogSizeKept'
  <2>1. ubx'[n] # Absent => ubx'[n] = ubx[n]
    BY <1>5
  <2> QED BY <1>1, <1>3, <2>1 DEF LogSizeKept, Files
<1> QED BY <1>4, <1>6, <1>7, <1>8, <1>9 DEF LogKept

LEMMA OthersKeep ==
  ASSUME LogTypeOK, LogKept, StopLog \/ LogTick \/ Crash
  PROVE  LogKept'
<1>1. /\ LogFileOpen /\ Compressing /\ NamesPast /\ LogLossExplained /\ LogSizeKept
      /\ second \in Int /\ logFile \in Int /\ \A n \in Name : n \in Int
  BY LogBounds DEF LogKept
<1>2. CASE StopLog
  BY <1>1, <1>2 DEF StopLog, dirVars, gzipVars, logHistory, LogKept, LogFileOpen, Compressing, NamesPast,
     LogLossExplained, LogSizeKept, Files
<1>3. CASE LogTick
  <2>1. NamesPast'
    BY <1>1, <1>3 DEF LogTick, dirVars, gzipVars, logHistory, NamesPast
  <2> QED BY <1>1, <1>3, <2>1 DEF LogTick, dirVars, gzipVars, logHistory, LogKept, LogFileOpen, Compressing,
     LogLossExplained, LogSizeKept, Files
<1>4. CASE Crash
  BY <1>1, <1>4 DEF Crash, dirVars, LogKept, LogFileOpen, Compressing, NamesPast,
     LogLossExplained, LogSizeKept, Files
<1> QED BY <1>2, <1>3, <1>4

-----------------------------------------------------------------------------
(* The number of files: while nothing untoward happened each file of the     *)
(* directory is the open one, being compressed, or compressed.               *)

LEMMA LeastTime ==
  ASSUME NEW T \in SUBSET Nat, T # {}
  PROVE  \E n \in T : \A m \in T : n <= m
<1>1. PICK n \in T : \A m \in T : ~(<<m, n>> \in OpToRel(<, Nat))
  BY NatLessThanWellFounded, WFMin DEF OpToRel
<1>2. \A m \in T : ~(m < n)
  BY <1>1 DEF OpToRel
<1> QED BY <1>2

LEMMA NamesFinite ==
  ASSUME NEW S \in SUBSET Name
  PROVE  IsFiniteSet(S) /\ Cardinality(S) \in Nat
<1>1. IsFiniteSet(Name)
  BY FS_Interval, LogAssumption DEF Name
<1> QED BY <1>1, FS_Subset, FS_CardinalityType

LEMMA FewerNames ==
  ASSUME NEW S \in SUBSET Name, NEW T \in SUBSET S
  PROVE  Cardinality(T) <= Cardinality(S)
BY NamesFinite, FS_Subset

\* What gzip works on or left, and that the open file is no such file.
LEMMA CleanMeans ==
  ASSUME LogTypeOK, LogKept, Clean, Tidy
  PROVE  /\ reused = {}
         /\ \A n \in Name : /\ gz[n] # "no" \/ gzip[n] # "no" => n < second
                            /\ gzip[n] # "no" => ubx[n] > LOG_SIZE /\ ubx[n] # Absent
         /\ logging => gzip[logFile] = "no" /\ ubx[logFile] = fsize /\ ubx[logFile] # Absent
                         /\ gz[logFile] = "no"
<1>1. reused = {} /\ LogFileOpen /\ Compressing /\ NamesPast
  BY DEF Clean, LogKept
<1>2. ASSUME NEW n \in Name
      PROVE  /\ gz[n] # "no" \/ gzip[n] # "no" => n < second
             /\ gzip[n] # "no" => ubx[n] > LOG_SIZE
  BY <1>1 DEF Compressing, NamesPast
<1>3. ASSUME NEW n \in Name, gzip[n] # "no"
      PROVE  ubx[n] # Absent
  BY <1>2, <1>3, LogBounds DEF Absent
<1>4. ASSUME logging
      PROVE  /\ gzip[logFile] = "no" /\ ubx[logFile] = fsize /\ ubx[logFile] # Absent
             /\ gz[logFile] = "no"
  <2>1. gzip[logFile] = "no" /\ ubx[logFile] = fsize /\ ubx[logFile] # Absent
    BY <1>1, <1>4, LogBounds DEF LogFileOpen, Absent
  <2>2. gz[logFile] = "no"
    BY <2>1, LogBounds DEF Tidy
  <2> QED BY <2>1, <2>2
<1> QED BY <1>1, <1>2, <1>3, <1>4

LEMMA ContinuesTidy ==
  ASSUME LogTypeOK, LogKept, Clean => Tidy, NEW n \in Name, Continues(n), Clean'
  PROVE  Tidy'
<1>1. /\ logFile' = n /\ ubx' = ubx /\ mtime' = mtime /\ second' = second
      /\ gz' = gz /\ gzTime' = gzTime /\ gzip' = gzip
      /\ reused' = reused /\ (overlap' <=> overlap) /\ (crashed' <=> crashed)
      /\ (left' <=> left \/ Idle(n))
  BY DEF Continues, SameGzip
<1>2. Clean /\ ~Idle(n)
  BY <1>1, Zenon DEF Clean
<1>3. Tidy
  BY <1>2
<1>4. \A m \in Files : m = n \/ gzip[m] # "no"
  BY <1>2, Zenon DEF Idle
<1>5. Files' = Files /\ Zipped' = Zipped /\ Running' = Running
  BY <1>1 DEF Files, Zipped, Running
<1> QED BY <1>1, <1>3, <1>4, <1>5 DEF Tidy

LEMMA OpensNewTidy ==
  ASSUME LogTypeOK, LogKept, Clean => Tidy, OpensNew, Clean'
  PROVE  Tidy'
<1>1. /\ logFile' = second /\ second' = second
      /\ \A n \in Name : ubx'[n] = IF n = second /\ ubx[n] = Absent THEN 0 ELSE ubx[n]
      /\ \A n \in Name : mtime'[n] = IF n = second THEN second ELSE mtime[n]
      /\ reused' = IF ubx[second] # Absent THEN reused \cup {second} ELSE reused
      /\ gz' = gz /\ gzTime' = gzTime /\ gzip' = gzip
      /\ (overlap' <=> overlap) /\ (crashed' <=> crashed)
      /\ (left' <=> left \/ Idle(second))
      /\ second \in Name /\ second \in Int
  BY LogBounds DEF OpensNew, SameGzip
<1>2. reused' = {}
  BY DEF Clean
<1>3. reused = {} /\ ubx[second] = Absent
  BY <1>1, <1>2
<1>4. Clean /\ ~Idle(second)
  BY <1>1, <1>3, Zenon DEF Clean
<1>5. Tidy
  BY <1>4
<1>6. \A n \in Name : /\ gz[n] # "no" \/ gzip[n] # "no" => n < second /\ n # second
  BY <1>1, <1>4, <1>5, CleanMeans
<1>7. \A n \in Files' : n = second \/ gzip[n] # "no"
  <2> TAKE n \in Files'
  <2>1. n \in Name /\ ubx'[n] # Absent
    BY DEF Files
  <2>2. CASE n # second
    <3>1. n \in Files \ {second}
      BY <1>1, <2>1, <2>2 DEF Files
    <3> QED BY <1>4, <3>1, Zenon DEF Idle
  <2> QED BY <2>2
<1>8. Zipped' = Zipped /\ Running' = Running
  BY <1>1 DEF Zipped, Running
<1>9. ubx'[second] # Absent
  BY <1>1 DEF Absent
<1>10. ASSUME NEW n \in Name, gz[n] # "no" \/ gzip[n] # "no"
       PROVE  n # second /\ ubx'[n] = ubx[n] /\ mtime'[n] = mtime[n]
  BY <1>1, <1>6, <1>10
<1>11. \A n \in Name :
         /\ gz'[n] # "no" /\ ubx'[n] # Absent => gzip'[n] \in {"open", "read"}
         /\ gz'[n] # "no" \/ gzip'[n] # "no" =>
              mtime'[n] <= second /\ (mtime'[n] = second => ubx'[second] # Absent)
         /\ gz'[n] # "no" /\ gzip'[n] = "no" => gzTime'[n] = mtime'[n]
  BY <1>1, <1>5, <1>9, <1>10 DEF Tidy
<1> QED BY <1>1, <1>5, <1>7, <1>8, <1>11 DEF Tidy

LEMMA AppendsTidy ==
  ASSUME LogTypeOK, LogKept, Clean => Tidy, Appends, Clean'
  PROVE  Tidy'
<1>1. /\ logFile' = logFile /\ second' = second /\ logging
      /\ \A n \in Name : ubx'[n] = Grown(n)
      /\ \A n \in Name : mtime'[n] = IF n = logFile THEN second ELSE mtime[n]
      /\ gz' = gz /\ gzTime' = gzTime /\ gzip' = gzip /\ reused' = reused
      /\ (overlap' <=> overlap) /\ (crashed' <=> crashed) /\ (left' <=> left)
      /\ second \in Name
  BY LogBounds DEF Appends, Reads
<1>2. Clean
  BY <1>1, Zenon DEF Clean
<1>3. Tidy /\ gzip[logFile] = "no" /\ gz[logFile] = "no"
  BY <1>1, <1>2, CleanMeans
<1>4. \A n \in Name : (ubx'[n] # Absent <=> ubx[n] # Absent)
  <2>1. \A n \in Name : ubx[n] # Absent => ubx[n] \in Nat
    BY LogBounds
  <2> QED BY <1>1, <2>1 DEF Grown, Absent
<1>5. Files' = Files /\ Zipped' = Zipped /\ Running' = Running
  BY <1>1, <1>4 DEF Files, Zipped, Running
<1>6. \A n \in Name : gz[n] # "no" \/ gzip[n] # "no" => mtime'[n] = mtime[n]
  BY <1>1, <1>3
<1>7. \A n \in Name :
         /\ gz'[n] # "no" /\ ubx'[n] # Absent => gzip'[n] \in {"open", "read"}
         /\ gz'[n] # "no" \/ gzip'[n] # "no" =>
              mtime'[n] <= second /\ (mtime'[n] = second => ubx'[second] # Absent)
         /\ gz'[n] # "no" /\ gzip'[n] = "no" => gzTime'[n] = mtime'[n]
  BY <1>1, <1>3, <1>4, <1>6 DEF Tidy
<1> QED BY <1>1, <1>3, <1>5, <1>7 DEF Tidy

\* A directory that is full of compressed files has one log_rotate may remove.
LEMMA OldestThere ==
  ASSUME LogTypeOK, Clean, Tidy, Running = {}, ubx[second] = Absent, Zipped # {}
  PROVE  Oldest # {}
<1> DEFINE T == {gzTime[n] : n \in Zipped}
<1>1. \A n \in Zipped : n \in Name /\ gz[n] # "no" /\ gzip[n] = "no" /\ gzTime[n] \in Nat
  BY LogBounds DEF Zipped, Running
<1>2. T \in SUBSET Nat /\ T # {}
  BY <1>1
<1>3. PICK t \in T : \A u \in T : t <= u
  <2> HIDE DEF T
  <2> QED BY <1>2, LeastTime
<1>4. PICK n \in Zipped : t = gzTime[n]
  OBVIOUS
<1>5. \A m \in Zipped : gzTime[n] <= gzTime[m]
  BY <1>3, <1>4
<1>6. gzTime[n] = mtime[n] /\ mtime[n] <= second /\ mtime[n] # second
  BY <1>1 DEF Tidy
<1>7. gzTime[n] < second
  BY <1>6, <1>1, LogBounds
<1> QED BY <1>5, <1>7 DEF Oldest

LEMMA RotatesTidy ==
  ASSUME LogTypeOK, LogKept, Clean => Tidy, NEW d \in Name \cup {Absent}, Rotates(d), Clean'
  PROVE  Tidy'
<1>1. /\ logFile' = second /\ second' = second /\ logging
      /\ \A n \in Name : ubx'[n] = IF n = second /\ Grown(n) = Absent THEN 0 ELSE Grown(n)
      /\ \A n \in Name : mtime'[n] = IF n = logFile THEN second ELSE mtime[n]
      /\ d \in Sweep
      /\ \A n \in Name : gz'[n] = IF n = d THEN "no" ELSE gz[n]
      /\ \A n \in Name : gzip'[n] = IF n = logFile /\ gzip[n] = "no" THEN "forked" ELSE gzip[n]
      /\ (overlap' <=> overlap \/ \E n \in Name : gzip[n] # "no")
      /\ reused' = IF Grown(second) # Absent THEN reused \cup {second} ELSE reused
      /\ gzTime' = gzTime /\ (crashed' <=> crashed) /\ (left' <=> left)
      /\ second \in Name /\ second \in Int /\ logFile \in Name /\ MAX_FILES \in Nat /\ MAX_FILES > 1
  BY LogBounds DEF Rotates, Reads
<1>2. reused' = {} /\ ~overlap' /\ ~crashed' /\ ~left'
  BY Zenon DEF Clean
<1>3. reused = {} /\ Grown(second) = Absent
  BY <1>1, <1>2
<1>4. Clean /\ \A n \in Name : gzip[n] = "no"
  BY <1>1, <1>2, <1>3, Zenon DEF Clean
<1>5. /\ Tidy /\ gz[logFile] = "no" /\ ubx[logFile] # Absent
      /\ \A n \in Name : gz[n] # "no" => n # second
  BY <1>1, <1>4, CleanMeans
<1>6. \A n \in Name : /\ ubx[n] # Absent => ubx[n] \in Nat
                      /\ Grown(n) # Absent <=> ubx[n] # Absent
  <2>1. \A n \in Name : ubx[n] # Absent => ubx[n] \in Nat
    BY LogBounds
  <2> QED BY <2>1 DEF Grown, Absent
<1>7. ubx[second] = Absent /\ second # logFile
  BY <1>1, <1>3, <1>5, <1>6
<1>8. \A n \in Name : ubx[n] # Absent => n = logFile
  BY <1>4, <1>5 DEF Tidy, Files
<1>9. \A n \in Files' : n = second \/ gzip'[n] # "no"
  BY <1>1, <1>4, <1>6, <1>8 DEF Files
<1>10. Zipped' \cup Running' = (Zipped \ {d}) \cup {logFile}
  <2>1. Zipped' = Zipped \ {d}
    BY <1>1 DEF Zipped
  <2>2. Running' = {logFile}
    BY <1>1, <1>4 DEF Running
  <2> QED BY <2>1, <2>2
<1>11. Zipped \in SUBSET Name /\ Running = {} /\ Zipped \cup Running = Zipped
  BY <1>4 DEF Zipped, Running
<1>12. IsFiniteSet(Zipped) /\ Cardinality(Zipped) \in Nat /\ Cardinality(Zipped) <= MAX_FILES - 1
  BY <1>5, <1>11, NamesFinite DEF Tidy
<1>13. Cardinality(Zipped \ {d}) \in Nat /\ Cardinality(Zipped \ {d}) <= MAX_FILES - 2
  <2>1. Cardinality(Zipped \ {d}) = IF d \in Zipped THEN Cardinality(Zipped) - 1 ELSE Cardinality(Zipped)
    BY <1>12, FS_RemoveElement
  <2>2. CASE Cardinality(Zipped) >= MAX_FILES - 1
    <3>1. Zipped # {}
      BY <1>1, <2>2, <1>12, FS_EmptySet
    <3>2. Oldest # {}
      BY <1>4, <1>5, <1>7, <1>11, <3>1, OldestThere
    <3>3. d \in Zipped
      BY <1>1, <2>2, <3>2 DEF Sweep, Oldest
    <3>4. Cardinality(Zipped) # 0
      BY <1>1, <2>2, <1>12
    <3> QED BY <1>1, <1>12, <2>1, <3>3, <3>4
  <2>3. CASE ~(Cardinality(Zipped) >= MAX_FILES - 1)
    <3>1. CASE d \in Zipped
      <4>1. Cardinality(Zipped) # 0
        BY <1>12, <3>1, FS_EmptySet
      <4> QED BY <1>1, <1>12, <2>1, <2>3, <3>1, <4>1
    <3>2. CASE d \notin Zipped
      BY <1>1, <1>12, <2>1, <2>3, <3>2
    <3> QED BY <3>1, <3>2
  <2> QED BY <2>2, <2>3
<1>14. Cardinality(Zipped' \cup Running') <= MAX_FILES - 1
  <2> DEFINE Z == Zipped \ {d}
  <2>1. IsFiniteSet(Z)
    BY <1>12, FS_RemoveElement
  <2>2. Cardinality(Z) \in Nat /\ Cardinality(Z) <= MAX_FILES - 2
    BY <1>13
  <2> HIDE DEF Z
  <2>3. Cardinality(Z \cup {logFile}) <= Cardinality(Z) + 1
    <3>1. Cardinality(Z \cup {logFile}) = IF logFile \in Z THEN Cardinality(Z) ELSE Cardinality(Z) + 1
      BY <2>1, FS_AddElement
    <3> QED BY <2>2, <3>1
  <2>4. Cardinality(Z \cup {logFile}) <= MAX_FILES - 1
    <3>1. Cardinality(Z \cup {logFile}) \in Nat
      BY <2>1, FS_AddElement, FS_CardinalityType
    <3> QED BY <1>1, <2>2, <2>3, <3>1
  <2> QED BY <1>10, <2>4 DEF Z
<1>15. ASSUME NEW n \in Name, gz'[n] # "no"
       PROVE  /\ gz[n] # "no" /\ n # second /\ n # logFile /\ ubx'[n] = Absent
              /\ mtime'[n] = mtime[n] /\ mtime[n] <= second /\ gzTime[n] = mtime[n]
  <2>1. gz[n] # "no" /\ n # second /\ n # logFile
    BY <1>1, <1>5, <1>15
  <2>2. ubx'[n] = Absent
    BY <1>1, <1>6, <1>8, <2>1
  <2>3. mtime[n] <= second /\ gzTime[n] = mtime[n]
    BY <1>4, <1>5, <2>1 DEF Tidy
  <2> QED BY <1>1, <2>1, <2>2, <2>3
<1>16. ASSUME NEW n \in Name, gzip'[n] # "no"
       PROVE  mtime'[n] <= second
  BY <1>1, <1>4, <1>16
<1>17. ubx'[second] # Absent
  BY <1>1, <1>3 DEF Absent
<1>18. \A n \in Name :
         /\ gz'[n] # "no" /\ ubx'[n] # Absent => gzip'[n] \in {"open", "read"}
         /\ gz'[n] # "no" \/ gzip'[n] # "no" =>
              mtime'[n] <= second /\ (mtime'[n] = second => ubx'[second] # Absent)
         /\ gz'[n] # "no" /\ gzip'[n] = "no" => gzTime'[n] = mtime'[n]
  BY <1>1, <1>15, <1>16, <1>17
<1> QED BY <1>1, <1>9, <1>14, <1>18 DEF Tidy

LEMMA GzipTidy ==
  ASSUME LogTypeOK, LogKept, Clean => Tidy, NEW n \in Name, GzipOpen(n) \/ GzipRead(n) \/ GzipDone(n),
         Clean'
  PROVE  Tidy'
<1>1. /\ gz \in [Name -> {"no", "part", "whole"}] /\ gzip \in [Name -> {"no", "forked", "open", "read"}]
      /\ gzTime \in [Name -> Nat] /\ ubx \in [Name -> Nat \cup {Absent}]
      /\ second \in Name /\ second \in Int /\ n \in Int /\ MAX_FILES \in Nat
  BY LogBounds DEF LogTypeOK
<1>2. /\ gzip[n] # "no" /\ logFile' = logFile /\ second' = second /\ mtime' = mtime
      /\ reused' = reused /\ overlap' = overlap /\ crashed' = crashed /\ left' = left
  BY DEF GzipOpen, GzipRead, GzipDone, dirVars, logHistory
<1>3. \A m \in Name : m # n => /\ gz'[m] = gz[m] /\ gzip'[m] = gzip[m] /\ gzTime'[m] = gzTime[m]
                               /\ ubx'[m] = ubx[m]
  BY <1>1 DEF GzipOpen, GzipRead, GzipDone, dirVars, logHistory
<1>4. Clean
  BY <1>2, Zenon DEF Clean
<1>5. /\ Tidy
      /\ \A m \in Name : /\ gz[m] # "no" \/ gzip[m] # "no" => m < second
                         /\ gzip[m] # "no" => ubx[m] # Absent
  BY <1>4, CleanMeans
<1>6. n # second /\ mtime[n] <= second /\ (mtime[n] = second => ubx[second] # Absent)
  BY <1>1, <1>2, <1>5 DEF Tidy
\* The .gz file gzip makes is not there yet, so that it does not give up.
<1>7. /\ ubx'[n] # Absent => gzip'[n] \in {"open", "read"}
      /\ gzip'[n] = "no" => gzTime'[n] = mtime[n]
  <2>1. CASE GzipOpen(n)
    <3>1. gzip[n] = "forked" /\ ubx[n] # Absent
      BY <1>2, <1>5, <2>1 DEF GzipOpen
    <3>2. gz[n] = "no"
      BY <3>1, <1>5 DEF Tidy
    <3>3. gzip'[n] = "open"
      BY <1>1, <2>1, <3>1, <3>2 DEF GzipOpen
    <3> QED BY <3>3
  <2>2. CASE GzipRead(n)
    BY <1>1, <2>2 DEF GzipRead
  <2>3. CASE GzipDone(n)
    BY <1>1, <2>3 DEF GzipDone
  <2> QED BY <2>1, <2>2, <2>3
<1>8. ubx'[n] # Absent => ubx[n] # Absent
  BY <1>2, <1>5
<1>9. \A m \in Files' : m = logFile \/ gzip'[m] # "no"
  <2> TAKE m \in Files'
  <2>1. m \in Name /\ ubx'[m] # Absent
    BY DEF Files
  <2>2. CASE m = n
    BY <1>7, <2>1, <2>2
  <2>3. CASE m # n
    BY <1>3, <1>5, <2>1, <2>3 DEF Tidy, Files
  <2> QED BY <2>2, <2>3
<1>10. Cardinality(Zipped' \cup Running') <= MAX_FILES - 1
  <2> DEFINE S == Zipped \cup Running  T == Zipped' \cup Running'
  <2>1. S \in SUBSET Name
    BY DEF Zipped, Running
  <2>2. T \in SUBSET S
    BY <1>2, <1>3 DEF Zipped, Running
  <2>3. Cardinality(S) <= MAX_FILES - 1
    BY <1>5 DEF Tidy
  <2> HIDE DEF S, T
  <2>4. Cardinality(T) <= Cardinality(S) /\ Cardinality(S) \in Nat /\ Cardinality(T) \in Nat
    <3>1. T \in SUBSET Name
      BY <2>1, <2>2
    <3> QED BY <2>1, <2>2, <3>1, FewerNames, NamesFinite
  <2>5. Cardinality(T) <= MAX_FILES - 1
    BY <1>1, <2>3, <2>4
  <2> QED BY <2>5 DEF T
<1>11. ubx'[second] = ubx[second]
  BY <1>1, <1>3, <1>6
<1>12. ASSUME NEW m \in Name
       PROVE  /\ gz'[m] # "no" /\ ubx'[m] # Absent => gzip'[m] \in {"open", "read"}
              /\ gz'[m] # "no" \/ gzip'[m] # "no" =>
                   mtime[m] <= second /\ (mtime[m] = second => ubx'[second] # Absent)
              /\ gz'[m] # "no" /\ gzip'[m] = "no" => gzTime'[m] = mtime[m]
  <2>1. CASE m = n
    BY <1>6, <1>7, <1>11, <2>1
  <2>2. CASE m # n
    BY <1>3, <1>5, <1>11, <2>2 DEF Tidy
  <2> QED BY <2>1, <2>2
<1> QED BY <1>2, <1>9, <1>10, <1>12 DEF Tidy

LEMMA OthersTidy ==
  ASSUME LogTypeOK, Clean => Tidy, StopLog \/ LogTick \/ Crash, Clean'
  PROVE  Tidy'
<1>1. CASE StopLog
  <2>1. UNCHANGED <<logFile, ubx, mtime, gz, gzTime, gzip, second>> /\ (Clean' <=> Clean)
    BY <1>1 DEF StopLog, dirVars, gzipVars, logHistory, Clean
  <2>2. Tidy
    BY <2>1
  <2> QED BY <2>1, <2>2 DEF Tidy, Files, Zipped, Running
<1>2. CASE LogTick
  <2>1. UNCHANGED <<logFile, ubx, mtime, gz, gzTime, gzip>> /\ second' = second + 1 /\ (Clean' <=> Clean)
    BY <1>2 DEF LogTick, dirVars, gzipVars, logHistory, Clean
  <2>2. Tidy /\ second \in Int /\ \A n \in Name : mtime[n] \in Nat
    BY <2>1, LogBounds
  <2>3. Files' = Files /\ Zipped' = Zipped /\ Running' = Running
    BY <2>1 DEF Files, Zipped, Running
  <2>4. \A n \in Name : mtime[n] <= second => mtime[n] <= second + 1 /\ mtime[n] # second + 1
    BY <2>2
  <2>5. \A n \in Name :
          /\ gz'[n] # "no" /\ ubx'[n] # Absent => gzip'[n] \in {"open", "read"}
          /\ gz'[n] # "no" \/ gzip'[n] # "no" =>
               mtime'[n] <= second' /\ (mtime'[n] = second' => ubx'[second'] # Absent)
          /\ gz'[n] # "no" /\ gzip'[n] = "no" => gzTime'[n] = mtime'[n]
    BY <2>1, <2>2, <2>4 DEF Tidy
  <2> QED BY <2>1, <2>2, <2>3, <2>5 DEF Tidy
<1>3. CASE Crash
  BY <1>3 DEF Crash, Clean
<1> QED BY <1>1, <1>2, <1>3

-----------------------------------------------------------------------------
LEMMA LogStarts ==
  ASSUME LogInit
  PROVE  LogInv
<1>1. 0 \in Name /\ MaxReads \in Nat /\ MaxStarts \in Nat
  BY LogAssumption DEF Name
<1>2. LogTypeOK
  <2>1. /\ ubx \in [Name -> Nat \cup {Absent}] /\ mtime \in [Name -> Nat]
        /\ gz \in [Name -> {"no", "part", "whole"}] /\ gzTime \in [Name -> Nat]
    BY DEF LogInit
  <2>2. gzip \in [Name -> {"no", "forked", "open", "read"}] /\ seen \in [Name -> Nat]
    BY DEF LogInit
  <2>3. reads \in 0 .. MaxReads /\ starts \in 0 .. MaxStarts
    BY <1>1 DEF LogInit
  <2> QED BY <1>1, <2>1, <2>2, <2>3 DEF LogInit, LogTypeOK
<1>3. LogFileOpen /\ Compressing /\ LogLossExplained
  BY <1>1, LogAssumption DEF LogInit, LogFileOpen, Compressing, LogLossExplained
<1>4. NamesPast /\ LogSizeKept
  BY <1>1 DEF LogInit, NamesPast, LogSizeKept, Files, Absent
<1>5. Files = {} /\ Zipped = {} /\ Running = {}
  BY DEF LogInit, Files, Zipped, Running, Absent
<1>6. Cardinality(Zipped \cup Running) <= MAX_FILES - 1
  <2>1. Zipped \cup Running = {}
    BY <1>5
  <2>2. Cardinality(Zipped \cup Running) = 0
    BY <2>1, FS_EmptySet
  <2> QED BY <2>2, LogAssumption
<1>7. \A n \in Name : gz[n] = "no" /\ gzip[n] = "no"
  BY DEF LogInit
<1>8. Tidy
  BY <1>5, <1>6, <1>7 DEF Tidy
<1> QED BY <1>2, <1>3, <1>4, <1>8 DEF LogInv

LEMMA LogSteps ==
  ASSUME LogInv, [LogNext]_logVars
  PROVE  LogInv'
<1>1. LogTypeOK /\ LogKept /\ (Clean => Tidy) /\ Compressing
  BY DEF LogInv, LogKept
<1>2. ASSUME LogTypeOK', LogKept', Clean' => Tidy'
      PROVE  LogInv'
  BY <1>2 DEF LogInv, LogKept
<1>3. CASE StartLog
  <2>1. LogTypeOK' /\ ((\E n \in Name : Continues(n)) \/ OpensNew)
    BY <1>1, <1>3, StartLogMoves
  <2>2. CASE \E n \in Name : Continues(n)
    <3>1. PICK n \in Name : Continues(n)
      BY <2>2
    <3>2. LogKept'
      BY <1>1, <3>1, ContinuesKeeps
    <3>3. ASSUME Clean' PROVE Tidy'
      BY <1>1, <3>1, <3>3, ContinuesTidy
    <3> QED BY <1>2, <2>1, <3>2, <3>3
  <2>3. CASE OpensNew
    <3>1. LogKept'
      BY <1>1, <2>3, OpensNewKeeps
    <3>2. ASSUME Clean' PROVE Tidy'
      BY <1>1, <2>3, <3>2, OpensNewTidy
    <3> QED BY <1>2, <2>1, <3>1, <3>2
  <2> QED BY <2>1, <2>2, <2>3
<1>4. CASE LogRead
  <2>1. LogTypeOK' /\ (Appends \/ \E d \in Name \cup {Absent} : Rotates(d))
    BY <1>1, <1>4, LogReadMoves
  <2>2. CASE Appends
    <3>1. LogKept'
      BY <1>1, <2>2, AppendsKeeps
    <3>2. ASSUME Clean' PROVE Tidy'
      BY <1>1, <2>2, <3>2, AppendsTidy
    <3> QED BY <1>2, <2>1, <3>1, <3>2
  <2>3. CASE \E d \in Name \cup {Absent} : Rotates(d)
    <3>1. PICK d \in Name \cup {Absent} : Rotates(d)
      BY <2>3
    <3>2. LogKept'
      BY <1>1, <3>1, RotatesKeeps
    <3>3. ASSUME Clean' PROVE Tidy'
      BY <1>1, <3>1, <3>3, RotatesTidy
    <3> QED BY <1>2, <2>1, <3>2, <3>3
  <2> QED BY <2>1, <2>2, <2>3
<1>5. CASE \E n \in Name : GzipOpen(n) \/ GzipRead(n) \/ GzipDone(n)
  <2>1. PICK n \in Name : GzipOpen(n) \/ GzipRead(n) \/ GzipDone(n)
    BY <1>5
  <2>2. LogTypeOK'
    BY <1>1, <2>1, GzipTypes
  <2>3. LogKept'
    BY <1>1, <2>1, GzipKeeps
  <2>4. ASSUME Clean' PROVE Tidy'
    BY <1>1, <2>1, <2>4, GzipTidy
  <2> QED BY <1>2, <2>2, <2>3, <2>4
<1>6. CASE StopLog \/ LogTick \/ Crash
  <2>1. LogTypeOK'
    BY <1>1, <1>6, OtherLogTypes
  <2>2. LogKept'
    BY <1>1, <1>6, OthersKeep
  <2>3. ASSUME Clean' PROVE Tidy'
    BY <1>1, <1>6, <2>3, OthersTidy
  <2> QED BY <1>2, <2>1, <2>2, <2>3
<1>7. CASE UNCHANGED logVars
  BY <1>7 DEF LogInv, logVars, dirVars, gzipVars, logHistory, LogTypeOK, LogFileOpen, Compressing, NamesPast,
     LogLossExplained, LogSizeKept, Clean, Tidy, Files, Zipped, Running
<1> QED BY <1>3, <1>4, <1>5, <1>6, <1>7 DEF LogNext, LogEnvironment

\* Whatever the order of reads, rotations, gzip processes, ticks, losses of power
\* and starts (gnss_log_record, log_rotate), what is logged of a file is accounted
\* for, and so are its size and, while nothing untoward happened, the directory.
THEOREM InvarianceLog == LogSpec => []LogInv
<1>1. LogInit => LogInv
  BY LogStarts
<1>2. LogInv /\ [LogNext]_logVars => LogInv'
  BY LogSteps
<1> QED BY <1>1, <1>2, PTL DEF LogSpec

\* The invariant says what the runs check of the log.
LEMMA LogInvMeans ==
  ASSUME LogInv
  PROVE  LogTypeOK /\ LogExplained
<1>1. LogTypeOK /\ LogLossExplained /\ LogSizeKept
  BY DEF LogInv
<1>2. ASSUME Clean PROVE LogNumberKept
  <2> DEFINE W == Zipped \cup Running
  <2>1. Tidy
    BY <1>2 DEF LogInv
  <2>2. W \in SUBSET Name /\ Cardinality(W) <= MAX_FILES - 1
    BY <2>1 DEF Tidy, Zipped, Running
  <2>3. Files \cup Zipped \subseteq W \cup {logFile}
    BY <2>1 DEF Tidy, Files, Running
  <2>4. logFile \in Name /\ MAX_FILES \in Nat
    BY <1>1, LogBounds
  <2>5. Files \cup Zipped \in SUBSET (W \cup {logFile})
    BY <2>3
  <2> HIDE DEF W
  <2>6. W \cup {logFile} \in SUBSET Name
    BY <2>2, <2>4
  <2>7. IsFiniteSet(W) /\ Cardinality(W) \in Nat
    BY <2>2, NamesFinite
  <2>8. Cardinality(W \cup {logFile}) = IF logFile \in W THEN Cardinality(W) ELSE Cardinality(W) + 1
    BY <2>7, FS_AddElement
  <2>9. Cardinality(W \cup {logFile}) <= MAX_FILES
    BY <2>2, <2>4, <2>7, <2>8
  <2>10. Cardinality(Files \cup Zipped) <= Cardinality(W \cup {logFile})
    BY <2>5, <2>6, FewerNames
  <2>11. Cardinality(Files \cup Zipped) \in Nat /\ Cardinality(W \cup {logFile}) \in Nat
    <3>1. Files \cup Zipped \in SUBSET Name
      BY <2>5, <2>6
    <3> QED BY <2>6, <3>1, NamesFinite
  <2> QED BY <2>4, <2>9, <2>10, <2>11 DEF LogNumberKept
<1>3. LogNumberExplained
  BY <1>2 DEF LogNumberExplained, Clean
<1> QED BY <1>1, <1>3 DEF LogExplained
-----------------------------------------------------------------------------
(* The character devices *)

Bytes == [1..2 -> SampleByte]
SensorCall == [op : {"none", "read"} \cup AnyChannel,
               pc : {"idle", "fetch", "store", "copy", "answer"},
               at : 1..4, got : [1..2 -> Bytes], out : Seq(Bytes),
               answer : {"none", "data", "error"}, since : Int,
               failed : BOOLEAN, shared : BOOLEAN]

SensorTypes ==
  /\ kind \in {"spi", "regmap", "ap3216c"}
  /\ sample \in 0..MaxSample /\ calls \in 0..MaxCalls /\ failures \in 0..MaxFailures
  /\ field \in [AnyChannel -> Bytes]
  /\ call \in [Caller -> SensorCall]

\* Where a call is in its registers, its fields and its answer.
CallForm(p) ==
  /\ call[p].op \in {"none", "read"} \cup Channel
  /\ call[p].since <= sample
  /\ Busy(p) => call[p].op # "none"
  /\ call[p].pc \in {"store", "copy"} => call[p].at <= 2
  /\ kind # "ap3216c" /\ call[p].pc = "fetch" => call[p].at = 1
  /\ call[p].pc \in {"fetch", "store"} => call[p].out = <<>>
  /\ call[p].pc = "copy" => IF call[p].op = "read" THEN Len(call[p].out) = call[p].at - 1
                                                   ELSE call[p].out = <<>>
  /\ Len(call[p].out) <= 2
  /\ HasData(p) => call[p].pc = "answer" /\ (call[p].op # "read" => Len(call[p].out) = 1)

\* Calls that overlap know it.
KnownShared == \A p, q \in Caller : p # q /\ Busy(p) /\ Busy(q) => call[p].shared

\* No byte is newer than the sensor's sample.
NotNewer ==
  /\ \A c \in AnyChannel, j \in 1..2 : field[c][j] <= sample
  /\ \A p \in Caller :
       /\ \A i, j \in 1..2 : call[p].got[i][j] <= sample
       /\ \A i \in 1..Len(call[p].out), j \in 1..2 : call[p].out[i][j] <= sample

\* One transfer brings both bytes of a value.
Untorn ==
  kind # "ap3216c" =>
    /\ \A c \in AnyChannel : field[c][1] = field[c][2]
    /\ \A p \in Caller :
         /\ \A i \in 1..2 : call[p].got[i][1] = call[p].got[i][2]
         /\ \A i \in 1..Len(call[p].out) : call[p].out[i][1] = call[p].out[i][2]

\* What a call that is alone brings is of one sample all the way.
OneSample(p) ==
  kind # "ap3216c" /\ ~call[p].shared =>
    /\ call[p].pc = "store" /\ call[p].at = 1 => call[p].got[1] = call[p].got[2]
    /\ call[p].pc = "store" /\ call[p].at = 2 => field[Stores[1]] = call[p].got[2]
    /\ call[p].pc = "copy" /\ call[p].op = "read" =>
         /\ field[Stores[1]] = field[Stores[2]]
         /\ call[p].at = 2 => call[p].out[1] = field[Copies[1]]
    /\ HasData(p) => \A i, j \in 1..Len(call[p].out) : call[p].out[i] = call[p].out[j]

\* What a call that is alone brings is no older than the call.
Fresh(p) ==
  ~call[p].failed /\ ~call[p].shared =>
    /\ call[p].pc = "fetch" =>
         \A i, j \in 1..2 : 2 * (i - 1) + j < call[p].at => call[p].got[i][j] >= call[p].since
    /\ call[p].pc = "store" =>
         \A i, j \in 1..2 :
           IF i < call[p].at THEN field[Stores[i]][j] >= call[p].since
                             ELSE call[p].got[i][j] >= call[p].since
    /\ call[p].pc = "copy" => \A i, j \in 1..2 : field[Stores[i]][j] >= call[p].since
    /\ \A i \in 1..Len(call[p].out), j \in 1..2 : call[p].out[i][j] >= call[p].since

SensorInv ==
  /\ SensorTypes
  /\ KnownShared /\ NotNewer /\ Untorn
  /\ \A p \in Caller : CallForm(p) /\ OneSample(p) /\ Fresh(p)

LEMMA CallPut ==
  ASSUME call \in [Caller -> SensorCall], NEW p \in Caller, NEW r \in SensorCall,
         call' = [call EXCEPT ![p] = r]
  PROVE  /\ call' \in [Caller -> SensorCall] /\ call'[p] = r
         /\ \A q \in Caller : q # p => call'[q] = call[q]
OBVIOUS

LEMMA NoValueBytes == NoValue \in Bytes /\ NoValue[1] = NoSample /\ NoValue[2] = NoSample
BY SensorAssumption DEF NoValue, Bytes, SampleByte, NoSample

LEMMA NoCallFields ==
  /\ NoCall \in SensorCall /\ NoCall.op = "none" /\ NoCall.pc = "idle" /\ NoCall.at = 1
  /\ (\A i, j \in 1..2 : NoCall.got[i][j] = NoSample)
  /\ NoCall.out = <<>> /\ NoCall.answer = "none" /\ NoCall.since = 0
  /\ NoCall.failed = FALSE /\ NoCall.shared = FALSE
<1> DEFINE g == <<NoValue, NoValue>>
<1>1. g \in [1..2 -> Bytes] /\ g[1] = NoValue /\ g[2] = NoValue
  BY NoValueBytes
<1>2. \A i, j \in 1..2 : g[i][j] = NoSample
  <2>1. \A i \in 1..2 : i = 1 \/ i = 2
    OBVIOUS
  <2> HIDE DEF g
  <2> QED BY <1>1, <2>1, NoValueBytes, Zenon
<1>3. NoCall = [op |-> "none", pc |-> "idle", at |-> 1, got |-> g,
                out |-> <<>>, answer |-> "none", since |-> 0, failed |-> FALSE, shared |-> FALSE]
  BY Zenon DEF NoCall
<1>4. <<>> \in Seq(Bytes)
  OBVIOUS
<1> HIDE DEF g
<1>5. NoCall \in SensorCall
  BY <1>1, <1>3, <1>4 DEF SensorCall
<1>6. NoCall.got = g /\ NoCall.op = "none" /\ NoCall.pc = "idle" /\ NoCall.at = 1
      /\ NoCall.out = <<>> /\ NoCall.answer = "none" /\ NoCall.since = 0
      /\ NoCall.failed = FALSE /\ NoCall.shared = FALSE
  BY <1>3
<1> QED BY <1>2, <1>5, <1>6, Zenon

LEMMA Channels ==
  ASSUME kind \in {"spi", "regmap", "ap3216c"}
  PROVE  /\ Channel = {Stores[1], Stores[2]} /\ Channel \subseteq AnyChannel
         /\ Stores[1] # Stores[2] /\ Copies[1] \in Channel /\ Copies[2] \in Channel
<1>1. Channel = {Stores[1], Stores[2]}
  <2>1. \A x : x \in Channel <=> \E i \in 1..2 : x = Stores[i]
    BY Zenon DEF Channel
  <2>2. \A x : x \in Channel <=> x = Stores[1] \/ x = Stores[2]
    BY <2>1
  <2> QED BY <2>2, Zenon
<1>2. CASE kind = "ap3216c"
  <2>1. Stores[1] = "ir" /\ Stores[2] = "als" /\ Copies[1] = "ir" /\ Copies[2] = "als"
    BY <1>2 DEF Stores, Copies
  <2> QED BY <1>1, <2>1 DEF AnyChannel
<1>3. CASE kind # "ap3216c"
  <2>1. Stores[1] = "accel" /\ Stores[2] = "gyro" /\ Copies[1] = "gyro" /\ Copies[2] = "accel"
    BY <1>3 DEF Stores, Copies
  <2> QED BY <1>1, <2>1 DEF AnyChannel
<1> QED BY <1>2, <1>3

\* Every field of a call that a step leaves as it is.
Unmoved(r, c) == /\ r.op = c.op /\ r.since = c.since /\ r.shared = c.shared

LEMMA WholeFields ==
  ASSUME NEW c \in SensorCall, sample \in SampleByte
  PROVE  /\ Whole(c) \in SensorCall /\ Unmoved(Whole(c), c)
         /\ \A i, j \in 1..2 : Whole(c).got[i][j] = sample
         /\ Whole(c).got[1] = Whole(c).got[2]
         /\ Whole(c).pc = "store" /\ Whole(c).at = c.at /\ Whole(c).out = c.out
         /\ Whole(c).answer = c.answer /\ Whole(c).failed = c.failed
<1> DEFINE b == <<sample, sample>>
           g == <<b, b>>
<1>1. b \in Bytes /\ b[1] = sample /\ b[2] = sample
  BY DEF Bytes
<1> HIDE DEF b
<1>2. g \in [1..2 -> Bytes] /\ g[1] = b /\ g[2] = b
  BY <1>1
<1> HIDE DEF g
<1>3. \A i, j \in 1..2 : g[i][j] = sample
  <2>1. \A i \in 1..2 : i = 1 \/ i = 2
    OBVIOUS
  <2> QED BY <1>1, <1>2, <2>1, Zenon
<1>4. Whole(c) = [c EXCEPT !.got = g, !.pc = "store"]
  BY Zenon DEF Whole, g, b
<1>5. /\ Whole(c) \in SensorCall /\ Whole(c).op = c.op /\ Whole(c).since = c.since
      /\ Whole(c).shared = c.shared
      /\ Whole(c).got = g /\ Whole(c).pc = "store" /\ Whole(c).at = c.at /\ Whole(c).out = c.out
      /\ Whole(c).answer = c.answer /\ Whole(c).failed = c.failed
  BY <1>2, <1>4 DEF SensorCall
<1> QED BY <1>2, <1>3, <1>5, Zenon DEF Unmoved

LEMMA AfterFailureFields ==
  ASSUME NEW c \in SensorCall
  PROVE  /\ AfterFailure(c) \in SensorCall /\ Unmoved(AfterFailure(c), c)
         /\ AfterFailure(c).got = c.got /\ AfterFailure(c).at = c.at /\ AfterFailure(c).out = c.out
         /\ AfterFailure(c).failed = TRUE
         /\ c.op = "read" => AfterFailure(c).pc = "answer" /\ AfterFailure(c).answer = "error"
         /\ c.op # "read" => AfterFailure(c).pc = "copy" /\ AfterFailure(c).answer = c.answer
<1>1. CASE c.op = "read"
  BY <1>1 DEF AfterFailure, SensorCall, Unmoved
<1>2. CASE c.op # "read"
  BY <1>2 DEF AfterFailure, SensorCall, Unmoved
<1> QED BY <1>1, <1>2

\* One register of the AP3216C received, or one failed transfer.
Received(c, byte) ==
  [c EXCEPT !.got[(c.at + 1) \div 2][2 - (c.at % 2)] = byte,
            !.failed = @ \/ byte = NoSample,
            !.at = IF c.at = 4 THEN 1 ELSE @ + 1,
            !.pc = IF c.at = 4 THEN "store" ELSE "fetch"]

LEMMA ReceivedFields ==
  ASSUME NEW c \in SensorCall, NEW byte \in SampleByte
  PROVE  /\ Received(c, byte) \in SensorCall /\ Unmoved(Received(c, byte), c)
         /\ Received(c, byte).out = c.out /\ Received(c, byte).answer = c.answer
         /\ Received(c, byte).failed <=> c.failed \/ byte = NoSample
         /\ c.at = 4 => Received(c, byte).at = 1 /\ Received(c, byte).pc = "store"
         /\ c.at # 4 => Received(c, byte).at = c.at + 1 /\ Received(c, byte).pc = "fetch"
         /\ \A i, j \in 1..2 : Received(c, byte).got[i][j] =
              IF 2 * (i - 1) + j = c.at THEN byte ELSE c.got[i][j]
<1> DEFINE k == (c.at + 1) \div 2
           h == 2 - (c.at % 2)
           f == c.failed \/ byte = NoSample
           a == IF c.at = 4 THEN 1 ELSE c.at + 1
           s == IF c.at = 4 THEN "store" ELSE "fetch"
           g == [c.got EXCEPT ![k] = [c.got[k] EXCEPT ![h] = byte]]
<1>1. c.at \in 1..4 /\ c.got \in [1..2 -> Bytes] /\ c.failed \in BOOLEAN
  BY DEF SensorCall
<1>2. k \in 1..2 /\ h \in 1..2 /\ \A i, j \in 1..2 : 2 * (i - 1) + j = c.at <=> i = k /\ j = h
  <2>1. c.at = 1 \/ c.at = 2 \/ c.at = 3 \/ c.at = 4
    BY <1>1
  <2> QED BY <2>1
<1>3. f \in BOOLEAN /\ a \in 1..4 /\ s \in {"store", "fetch"}
  BY <1>1
<1>4. g \in [1..2 -> Bytes]
  BY <1>1, <1>2 DEF Bytes
<1>5. \A i, j \in 1..2 : g[i][j] = IF i = k /\ j = h THEN byte ELSE c.got[i][j]
  <2> HIDE DEF k, h
  <2> QED BY <1>1, <1>2 DEF Bytes
<1>6. Received(c, byte) = [c EXCEPT !.got[k][h] = byte, !.failed = f, !.at = a, !.pc = s]
  BY Zenon DEF Received
<1>7. Received(c, byte) = [c EXCEPT !.got = g, !.failed = f, !.at = a, !.pc = s]
  <2> HIDE DEF k, h, f, a, s
  <2> QED BY <1>6
<1>8. /\ c.at = 4 => a = 1 /\ s = "store"
      /\ c.at # 4 => a = c.at + 1 /\ s = "fetch"
  OBVIOUS
<1>9. f <=> c.failed \/ byte = NoSample
  OBVIOUS
<1> HIDE DEF k, h, f, a, s, g
<1>10. /\ Received(c, byte) \in SensorCall /\ Received(c, byte).op = c.op
       /\ Received(c, byte).since = c.since /\ Received(c, byte).shared = c.shared
       /\ Received(c, byte).out = c.out /\ Received(c, byte).answer = c.answer
       /\ Received(c, byte).failed = f /\ Received(c, byte).at = a /\ Received(c, byte).pc = s
       /\ Received(c, byte).got = g
  BY <1>3, <1>4, <1>7 DEF SensorCall
<1>11. \A i, j \in 1..2 : Received(c, byte).got[i][j] =
              IF 2 * (i - 1) + j = c.at THEN byte ELSE c.got[i][j]
  BY <1>2, <1>5, <1>10, Zenon
<1> QED BY <1>8, <1>9, <1>10, <1>11, Zenon DEF Unmoved

\* One field stored.
Stored(c) == [c EXCEPT !.at = IF @ = 2 THEN 1 ELSE 2,
                       !.got[c.at] = NoValue,
                       !.pc = IF c.at = 2 THEN "copy" ELSE "store"]

LEMMA StoredFields ==
  ASSUME NEW c \in SensorCall, c.at <= 2
  PROVE  /\ Stored(c) \in SensorCall /\ Unmoved(Stored(c), c)
         /\ Stored(c).out = c.out /\ Stored(c).answer = c.answer /\ Stored(c).failed = c.failed
         /\ c.at \in 1..2
         /\ c.at = 1 => Stored(c).at = 2 /\ Stored(c).pc = "store"
         /\ c.at = 2 => Stored(c).at = 1 /\ Stored(c).pc = "copy"
         /\ \A i \in 1..2 : Stored(c).got[i] = IF i = c.at THEN NoValue ELSE c.got[i]
<1> DEFINE a == IF c.at = 2 THEN 1 ELSE 2
           s == IF c.at = 2 THEN "copy" ELSE "store"
           g == [c.got EXCEPT ![c.at] = NoValue]
<1>1. c.at \in 1..2 /\ c.got \in [1..2 -> Bytes]
  BY DEF SensorCall
<1>2. g \in [1..2 -> Bytes] /\ \A i \in 1..2 : g[i] = IF i = c.at THEN NoValue ELSE c.got[i]
  BY <1>1, NoValueBytes
<1>3. a \in 1..4 /\ s \in {"store", "copy"} /\ (c.at = 1 => a = 2 /\ s = "store")
      /\ (c.at = 2 => a = 1 /\ s = "copy")
  OBVIOUS
<1>4. Stored(c) = [c EXCEPT !.at = a, !.got = g, !.pc = s]
  <2>1. Stored(c) = [c EXCEPT !.at = a, !.got[c.at] = NoValue, !.pc = s]
    BY Zenon DEF Stored
  <2> HIDE DEF a, s
  <2> QED BY <2>1
<1> HIDE DEF a, s, g
<1>5. /\ Stored(c) \in SensorCall /\ Stored(c).op = c.op /\ Stored(c).since = c.since
      /\ Stored(c).shared = c.shared /\ Stored(c).out = c.out /\ Stored(c).answer = c.answer
      /\ Stored(c).failed = c.failed /\ Stored(c).at = a /\ Stored(c).pc = s /\ Stored(c).got = g
  BY <1>2, <1>3, <1>4 DEF SensorCall
<1> QED BY <1>1, <1>2, <1>3, <1>5, Zenon DEF Unmoved

LEMMA AnsweredFields ==
  ASSUME NEW c \in SensorCall, NEW values \in Seq(Bytes)
  PROVE  /\ Answered(c, values) \in SensorCall /\ Unmoved(Answered(c, values), c)
         /\ Answered(c, values).got = c.got /\ Answered(c, values).at = c.at
         /\ Answered(c, values).failed = c.failed /\ Answered(c, values).out = values
         /\ Answered(c, values).pc = "answer" /\ Answered(c, values).answer = "data"
BY DEF Answered, SensorCall, Unmoved

-----------------------------------------------------------------------------
(* The steps of a call, field by field. *)

Moves(p) ==
  /\ SensorTypes' /\ kind' = kind /\ sample' = sample
  /\ \A q \in Caller : q # p => call'[q] = call[q]
  /\ Unmoved(call'[p], call[p])

FetchesAll(p) ==
  /\ Moves(p) /\ field' = field /\ kind # "ap3216c" /\ call[p].pc = "fetch"
  /\ \A i, j \in 1..2 : call'[p].got[i][j] = sample
  /\ call'[p].got[1] = call'[p].got[2]
  /\ call'[p].pc = "store" /\ call'[p].at = call[p].at /\ call'[p].out = call[p].out
  /\ call'[p].answer = call[p].answer /\ call'[p].failed = call[p].failed

FetchFails(p) ==
  /\ Moves(p) /\ field' = field /\ kind # "ap3216c" /\ call[p].pc = "fetch"
  /\ call'[p].got = call[p].got /\ call'[p].at = call[p].at /\ call'[p].out = call[p].out
  /\ call'[p].failed = TRUE
  /\ call[p].op = "read" => call'[p].pc = "answer" /\ call'[p].answer = "error"
  /\ call[p].op # "read" => call'[p].pc = "copy" /\ call'[p].answer = call[p].answer

FetchesByte(p) ==
  /\ Moves(p) /\ field' = field /\ kind = "ap3216c" /\ call[p].pc = "fetch"
  /\ call'[p].out = call[p].out /\ call'[p].answer = call[p].answer
  /\ call[p].at = 4 => call'[p].at = 1 /\ call'[p].pc = "store"
  /\ call[p].at # 4 => call'[p].at = call[p].at + 1 /\ call'[p].pc = "fetch"
  /\ \E byte \in {sample, NoSample} :
       /\ call'[p].failed <=> call[p].failed \/ byte = NoSample
       /\ \A i, j \in 1..2 : call'[p].got[i][j] =
            IF 2 * (i - 1) + j = call[p].at THEN byte ELSE call[p].got[i][j]

StoresOne(p) ==
  /\ Moves(p) /\ call[p].pc = "store" /\ call[p].at \in 1..2
  /\ field' = [field EXCEPT ![Stores[call[p].at]] = call[p].got[call[p].at]]
  /\ call'[p].out = call[p].out /\ call'[p].answer = call[p].answer
  /\ call'[p].failed = call[p].failed
  /\ call[p].at = 1 => call'[p].at = 2 /\ call'[p].pc = "store"
  /\ call[p].at = 2 => call'[p].at = 1 /\ call'[p].pc = "copy"
  /\ \A i \in 1..2 : call'[p].got[i] = IF i = call[p].at THEN NoValue ELSE call[p].got[i]

\* The n-th value of the answer is copied from channel c, and is the last one.
CopiesOne(p, c, n, last) ==
  /\ Moves(p) /\ field' = field /\ call[p].pc = "copy" /\ c \in Channel
  /\ call'[p].got = call[p].got /\ call'[p].failed = call[p].failed
  /\ Len(call[p].out) = n - 1 /\ Len(call'[p].out) = n /\ call'[p].out[n] = field[c]
  /\ \A i \in 1..(n - 1) : call'[p].out[i] = call[p].out[i]
  /\ IF last THEN call'[p].pc = "answer" /\ call'[p].answer = "data"
     ELSE call'[p].pc = "copy" /\ call'[p].at = 2 /\ call'[p].answer = call[p].answer

Shows(p) == call[p].op # "read" /\ CopiesOne(p, call[p].op, 1, TRUE)
CopiesFirst(p) == call[p].op = "read" /\ call[p].at = 1 /\ CopiesOne(p, Copies[1], 1, FALSE)
CopiesLast(p) == call[p].op = "read" /\ call[p].at = 2 /\ CopiesOne(p, Copies[2], 2, TRUE)

Ends(p) ==
  /\ SensorTypes' /\ kind' = kind /\ sample' = sample /\ field' = field
  /\ \A q \in Caller : q # p => call'[q] = call[q]
  /\ call'[p] = NoCall

Begins(p) ==
  /\ SensorTypes' /\ kind' = kind /\ sample' = sample /\ field' = field
  /\ call[p].pc = "idle"
  /\ call'[p].op \in {"read"} \cup Channel /\ call'[p].pc = "fetch" /\ call'[p].at = 1
  /\ \A i, j \in 1..2 : call'[p].got[i][j] = NoSample
  /\ call'[p].out = <<>> /\ call'[p].answer = "none" /\ call'[p].since = sample
  /\ call'[p].failed = FALSE /\ (call'[p].shared <=> \E q \in Caller : Busy(q))
  /\ \A q \in Caller : q # p =>
       /\ call'[q].op = call[q].op /\ call'[q].pc = call[q].pc /\ call'[q].at = call[q].at
       /\ call'[q].got = call[q].got /\ call'[q].out = call[q].out
       /\ call'[q].answer = call[q].answer /\ call'[q].since = call[q].since
       /\ call'[q].failed = call[q].failed
       /\ IF Busy(q) THEN call'[q].shared = TRUE ELSE call'[q].shared = call[q].shared

LEMMA SensorBounds ==
  ASSUME SensorTypes
  PROVE  /\ sample \in Int /\ sample \in SampleByte /\ NoSample \in SampleByte /\ NoSample < sample
         /\ MaxSample \in Nat /\ MaxCalls \in Nat /\ MaxFailures \in Nat
BY SensorAssumption DEF SensorTypes, SampleByte, NoSample

LEMMA BulkFetchMoves ==
  ASSUME SensorTypes, NEW p \in Caller, kind # "ap3216c", BulkFetch(p)
  PROVE  FetchesAll(p) \/ FetchFails(p)
<1>1. /\ call \in [Caller -> SensorCall] /\ call[p] \in SensorCall /\ call[p].pc = "fetch"
      /\ kind' = kind /\ sample' = sample /\ field' = field /\ calls' = calls
  BY DEF SensorTypes, BulkFetch, Going
<1>2. CASE call' = [call EXCEPT ![p] = Whole(call[p])] /\ UNCHANGED failures
  <2>1. /\ Whole(call[p]) \in SensorCall /\ Unmoved(Whole(call[p]), call[p])
        /\ \A i, j \in 1..2 : Whole(call[p]).got[i][j] = sample
        /\ Whole(call[p]).got[1] = Whole(call[p]).got[2]
        /\ Whole(call[p]).pc = "store" /\ Whole(call[p]).at = call[p].at
        /\ Whole(call[p]).out = call[p].out
        /\ Whole(call[p]).answer = call[p].answer /\ Whole(call[p]).failed = call[p].failed
    BY <1>1, SensorBounds, WholeFields, Zenon
  <2>2. /\ call' \in [Caller -> SensorCall] /\ call'[p] = Whole(call[p])
        /\ \A q \in Caller : q # p => call'[q] = call[q]
    BY <1>1, <1>2, <2>1, CallPut, Zenon
  <2>3. SensorTypes'
    BY <1>1, <1>2, <2>2 DEF SensorTypes
  <2>4. Unmoved(call'[p], call[p])
    BY <2>1, <2>2, Zenon
  <2>5. Moves(p)
    BY <1>1, <2>2, <2>3, <2>4, Zenon DEF Moves
  <2>6. /\ \A i, j \in 1..2 : call'[p].got[i][j] = sample
        /\ call'[p].got[1] = call'[p].got[2]
        /\ call'[p].pc = "store" /\ call'[p].at = call[p].at /\ call'[p].out = call[p].out
        /\ call'[p].answer = call[p].answer /\ call'[p].failed = call[p].failed
    BY <2>1, <2>2
  <2>7. FetchesAll(p)
    BY <1>1, <2>5, <2>6, Zenon DEF FetchesAll
  <2> QED BY <2>7, Zenon
<1>3. CASE /\ failures < MaxFailures /\ failures' = failures + 1
           /\ call' = [call EXCEPT ![p] = AfterFailure(call[p])]
  <2>1. /\ AfterFailure(call[p]) \in SensorCall /\ Unmoved(AfterFailure(call[p]), call[p])
        /\ AfterFailure(call[p]).got = call[p].got /\ AfterFailure(call[p]).at = call[p].at
        /\ AfterFailure(call[p]).out = call[p].out /\ AfterFailure(call[p]).failed = TRUE
        /\ call[p].op = "read" => AfterFailure(call[p]).pc = "answer" /\ AfterFailure(call[p]).answer = "error"
        /\ call[p].op # "read" => /\ AfterFailure(call[p]).pc = "copy"
                                  /\ AfterFailure(call[p]).answer = call[p].answer
    BY <1>1, AfterFailureFields, Zenon
  <2>2. /\ call' \in [Caller -> SensorCall] /\ call'[p] = AfterFailure(call[p])
        /\ \A q \in Caller : q # p => call'[q] = call[q]
    BY <1>1, <1>3, <2>1, CallPut, Zenon
  <2>3. failures' \in 0..MaxFailures
    BY <1>3, SensorAssumption DEF SensorTypes
  <2>4. SensorTypes'
    BY <1>1, <2>2, <2>3 DEF SensorTypes
  <2> QED BY <1>1, <2>1, <2>2, <2>4, Zenon DEF FetchFails, Moves
<1> QED BY <1>2, <1>3, Zenon DEF BulkFetch

LEMMA ApFetchMoves ==
  ASSUME SensorTypes, NEW p \in Caller, ApFetch(p)
  PROVE  FetchesByte(p)
<1>1. /\ call \in [Caller -> SensorCall] /\ call[p] \in SensorCall /\ call[p].pc = "fetch"
      /\ kind' = kind /\ sample' = sample /\ field' = field /\ calls' = calls /\ kind = "ap3216c"
  BY DEF SensorTypes, ApFetch, Going
<1>2. PICK byte \in {sample, NoSample} :
        /\ byte = NoSample => failures < MaxFailures
        /\ failures' = failures + (IF byte = NoSample THEN 1 ELSE 0)
        /\ call' = [call EXCEPT ![p] = Received(call[p], byte)]
  BY Zenon DEF ApFetch, Received
<1>3. byte \in SampleByte
  BY <1>2, SensorBounds
<1>4. /\ Received(call[p], byte) \in SensorCall /\ Unmoved(Received(call[p], byte), call[p])
      /\ Received(call[p], byte).out = call[p].out /\ Received(call[p], byte).answer = call[p].answer
      /\ Received(call[p], byte).failed <=> call[p].failed \/ byte = NoSample
      /\ call[p].at = 4 => Received(call[p], byte).at = 1 /\ Received(call[p], byte).pc = "store"
      /\ call[p].at # 4 => /\ Received(call[p], byte).at = call[p].at + 1
                           /\ Received(call[p], byte).pc = "fetch"
      /\ \A i, j \in 1..2 : Received(call[p], byte).got[i][j] =
            IF 2 * (i - 1) + j = call[p].at THEN byte ELSE call[p].got[i][j]
  BY <1>1, <1>3, ReceivedFields, Zenon
<1>5. /\ call' \in [Caller -> SensorCall] /\ call'[p] = Received(call[p], byte)
      /\ \A q \in Caller : q # p => call'[q] = call[q]
  BY <1>1, <1>2, <1>4, CallPut, Zenon
<1>6. failures' \in 0..MaxFailures
  BY <1>2, SensorAssumption DEF SensorTypes
<1>7. SensorTypes'
  BY <1>1, <1>5, <1>6 DEF SensorTypes
<1>8. /\ call'[p].failed <=> call[p].failed \/ byte = NoSample
      /\ \A i, j \in 1..2 : call'[p].got[i][j] =
            IF 2 * (i - 1) + j = call[p].at THEN byte ELSE call[p].got[i][j]
  <2>1. call'[p].failed <=> call[p].failed \/ byte = NoSample
    BY <1>4, <1>5
  <2>2. call'[p].got = Received(call[p], byte).got
    BY <1>5, Zenon
  <2> QED BY <1>4, <2>1, <2>2
<1>9. Moves(p)
  BY <1>1, <1>4, <1>5, <1>7, Zenon DEF Moves
<1> QED BY <1>1, <1>2, <1>4, <1>5, <1>8, <1>9, Zenon DEF FetchesByte

LEMMA StoreMoves ==
  ASSUME SensorTypes, NEW p \in Caller, CallForm(p), Store(p)
  PROVE  StoresOne(p)
<1>1. /\ call \in [Caller -> SensorCall] /\ call[p] \in SensorCall /\ call[p].pc = "store"
      /\ kind' = kind /\ sample' = sample /\ calls' = calls /\ failures' = failures
      /\ call[p].at <= 2 /\ field \in [AnyChannel -> Bytes]
  BY DEF SensorTypes, Store, Going, CallForm
<1>2. /\ field' = [field EXCEPT ![Stores[call[p].at]] = call[p].got[call[p].at]]
      /\ call' = [call EXCEPT ![p] = Stored(call[p])]
  BY Zenon DEF Store, Stored
<1>3. /\ Stored(call[p]) \in SensorCall /\ Unmoved(Stored(call[p]), call[p])
      /\ Stored(call[p]).out = call[p].out /\ Stored(call[p]).answer = call[p].answer
      /\ Stored(call[p]).failed = call[p].failed
      /\ call[p].at \in 1..2
      /\ call[p].at = 1 => Stored(call[p]).at = 2 /\ Stored(call[p]).pc = "store"
      /\ call[p].at = 2 => Stored(call[p]).at = 1 /\ Stored(call[p]).pc = "copy"
      /\ \A i \in 1..2 : Stored(call[p]).got[i] = IF i = call[p].at THEN NoValue ELSE call[p].got[i]
  BY <1>1, StoredFields, Zenon
<1>4. /\ call' \in [Caller -> SensorCall] /\ call'[p] = Stored(call[p])
      /\ \A q \in Caller : q # p => call'[q] = call[q]
  BY <1>1, <1>2, <1>3, CallPut, Zenon
<1>5. field' \in [AnyChannel -> Bytes]
  <2>1. call[p].got[call[p].at] \in Bytes
    BY <1>1, <1>3 DEF SensorCall
  <2> QED BY <1>1, <1>2, <2>1, Zenon
<1>6. SensorTypes'
  BY <1>1, <1>4, <1>5 DEF SensorTypes
<1>7. Moves(p)
  BY <1>1, <1>3, <1>4, <1>6, Zenon DEF Moves
<1> QED BY <1>1, <1>2, <1>3, <1>4, <1>7, Zenon DEF StoresOne

LEMMA CopyValue ==
  ASSUME SensorTypes, NEW c \in Channel
  PROVE  field[c] \in Bytes /\ <<field[c]>> \in Seq(Bytes)
<1>1. c \in AnyChannel
  BY Channels DEF SensorTypes
<1>2. field[c] \in Bytes
  BY <1>1 DEF SensorTypes
<1> QED BY <1>2

LEMMA ShowMoves ==
  ASSUME SensorTypes, NEW p \in Caller, CallForm(p), Show(p)
  PROVE  Shows(p)
<1>1. /\ call \in [Caller -> SensorCall] /\ call[p] \in SensorCall /\ call[p].pc = "copy"
      /\ kind' = kind /\ sample' = sample /\ calls' = calls /\ failures' = failures
      /\ field' = field /\ call[p].op # "read"
  BY DEF SensorTypes, Show, Going
<1>2. call[p].op \in Channel /\ call[p].out = <<>>
  BY <1>1 DEF CallForm, Busy
<1> DEFINE v == field[call[p].op]
           r == Answered(call[p], <<v>>)
<1>3. v \in Bytes /\ <<v>> \in Seq(Bytes)
  BY <1>2, CopyValue
<1>4. call' = [call EXCEPT ![p] = r]
  BY Zenon DEF Show
<1>5. /\ r \in SensorCall /\ Unmoved(r, call[p]) /\ r.got = call[p].got
      /\ r.failed = call[p].failed /\ r.out = <<v>> /\ r.pc = "answer" /\ r.answer = "data"
  BY <1>1, <1>3, AnsweredFields, Zenon
<1> HIDE DEF r
<1>6. /\ call' \in [Caller -> SensorCall] /\ call'[p] = r
      /\ \A q \in Caller : q # p => call'[q] = call[q]
  BY <1>1, <1>4, <1>5, CallPut, Zenon
<1> HIDE DEF v
<1>7. Len(<<v>>) = 1 /\ <<v>>[1] = v
  OBVIOUS
<1>8. Len(call'[p].out) = 1 /\ call'[p].out[1] = v
  BY <1>5, <1>6, <1>7, Zenon
<1>9. Len(call[p].out) = 0
  BY <1>2
<1>10. SensorTypes'
  BY <1>1, <1>6 DEF SensorTypes
<1>11. Moves(p)
  BY <1>1, <1>5, <1>6, <1>10, Zenon DEF Moves
<1>12. CopiesOne(p, call[p].op, 1, TRUE)
  <2>1. /\ call'[p].got = call[p].got /\ call'[p].failed = call[p].failed
        /\ call'[p].pc = "answer" /\ call'[p].answer = "data"
    BY <1>5, <1>6, Zenon
  <2>2. Len(call[p].out) = 1 - 1 /\ \A i \in 1..(1 - 1) : call'[p].out[i] = call[p].out[i]
    BY <1>9
  <2> QED BY <1>1, <1>2, <1>8, <1>11, <2>1, <2>2, Zenon DEF CopiesOne, v
<1> QED BY <1>1, <1>12 DEF Shows

LEMMA CopyNextMoves ==
  ASSUME SensorTypes, NEW p \in Caller, CallForm(p), CopyNext(p)
  PROVE  CopiesFirst(p) \/ CopiesLast(p)
<1>1. /\ call \in [Caller -> SensorCall] /\ call[p] \in SensorCall /\ call[p].pc = "copy"
      /\ kind' = kind /\ sample' = sample /\ calls' = calls /\ failures' = failures
      /\ field' = field /\ call[p].op = "read"
  BY DEF SensorTypes, CopyNext, Going
<1>2. /\ call[p].at \in 1..2 /\ Len(call[p].out) = call[p].at - 1 /\ call[p].out \in Seq(Bytes)
  BY <1>1 DEF CallForm, SensorCall
<1> DEFINE n == call[p].at
           v == field[Copies[n]]
           o == Append(call[p].out, v)
           r == IF n = 2 THEN Answered(call[p], o) ELSE [call[p] EXCEPT !.out = o, !.at = 2]
<1>3. Copies[n] \in Channel
  <2>1. n = 1 \/ n = 2
    BY <1>2
  <2> QED BY <2>1, Channels DEF SensorTypes
<1>4. v \in Bytes
  BY <1>3, CopyValue
<1>5. call' = [call EXCEPT ![p] = r]
  BY Zenon DEF CopyNext
<1>6. o \in Seq(Bytes) /\ Len(o) = n /\ o[n] = v /\ \A i \in 1..(n - 1) : o[i] = call[p].out[i]
  <2> HIDE DEF v
  <2> QED BY <1>2, <1>4
<1> HIDE DEF o
<1>7. /\ r \in SensorCall /\ Unmoved(r, call[p]) /\ r.got = call[p].got
      /\ r.failed = call[p].failed /\ r.out = o
      /\ n = 2 => r.pc = "answer" /\ r.answer = "data"
      /\ n # 2 => r.pc = "copy" /\ r.at = 2 /\ r.answer = call[p].answer
  <2>1. CASE n = 2
    <3>1. r = Answered(call[p], o)
      BY <2>1
    <3> QED BY <1>1, <1>6, <2>1, <3>1, AnsweredFields, Zenon
  <2>2. CASE n # 2
    <3>1. r = [call[p] EXCEPT !.out = o, !.at = 2]
      BY <2>2
    <3> HIDE DEF r, n
    <3>2. r \in SensorCall
      <4>1. 2 \in 1..4
        OBVIOUS
      <4> QED BY <1>1, <1>6, <3>1, <4>1, Zenon DEF SensorCall
    <3>3. /\ r.op = call[p].op /\ r.since = call[p].since /\ r.shared = call[p].shared
          /\ r.got = call[p].got /\ r.failed = call[p].failed /\ r.out = o
          /\ r.pc = "copy" /\ r.at = 2 /\ r.answer = call[p].answer
      BY <1>1, <3>1 DEF SensorCall
    <3> QED BY <2>2, <3>2, <3>3 DEF Unmoved
  <2> QED BY <2>1, <2>2
<1> HIDE DEF r
<1>8. /\ call' \in [Caller -> SensorCall] /\ call'[p] = r
      /\ \A q \in Caller : q # p => call'[q] = call[q]
  BY <1>1, <1>5, <1>7, CallPut, Zenon
<1>9. SensorTypes'
  BY <1>1, <1>8 DEF SensorTypes
<1>10. Moves(p)
  BY <1>1, <1>7, <1>8, <1>9, Zenon DEF Moves
<1>11. /\ Len(call'[p].out) = n /\ call'[p].out[n] = v
       /\ \A i \in 1..(n - 1) : call'[p].out[i] = call[p].out[i]
       /\ call'[p].got = call[p].got /\ call'[p].failed = call[p].failed
       /\ n = 2 => call'[p].pc = "answer" /\ call'[p].answer = "data"
       /\ n # 2 => call'[p].pc = "copy" /\ call'[p].at = 2 /\ call'[p].answer = call[p].answer
  BY <1>6, <1>7, <1>8, Zenon
<1>12. CASE n = 1
  <2>1. CopiesOne(p, Copies[1], 1, FALSE)
    BY <1>1, <1>2, <1>3, <1>10, <1>11, <1>12 DEF CopiesOne
  <2> QED BY <1>1, <1>12, <2>1 DEF CopiesFirst
<1>13. CASE n = 2
  <2>1. CopiesOne(p, Copies[2], 2, TRUE)
    BY <1>1, <1>2, <1>3, <1>10, <1>11, <1>13 DEF CopiesOne
  <2> QED BY <1>1, <1>13, <2>1 DEF CopiesLast
<1> QED BY <1>2, <1>12, <1>13

LEMMA ReturnsMoves ==
  ASSUME SensorTypes, NEW p \in Caller, Returns(p)
  PROVE  Ends(p)
<1>1. /\ call \in [Caller -> SensorCall] /\ call' = [call EXCEPT ![p] = NoCall]
      /\ kind' = kind /\ sample' = sample /\ calls' = calls /\ failures' = failures
      /\ field' = field
  BY DEF SensorTypes, Returns
<1>2. /\ call' \in [Caller -> SensorCall] /\ call'[p] = NoCall
      /\ \A q \in Caller : q # p => call'[q] = call[q]
  BY <1>1, NoCallFields, CallPut, Zenon
<1>3. SensorTypes'
  BY <1>1, <1>2 DEF SensorTypes
<1> QED BY <1>1, <1>2, <1>3, Zenon DEF Ends

LEMMA BeginMoves ==
  ASSUME SensorTypes, NEW p \in Caller, Begin(p)
  PROVE  Begins(p)
<1>1. /\ call \in [Caller -> SensorCall] /\ calls < MaxCalls /\ calls' = calls + 1
      /\ kind' = kind /\ sample' = sample /\ failures' = failures
      /\ field' = field /\ call[p].pc = "idle"
  BY DEF SensorTypes, Begin, Busy
<1> DEFINE s == \E q \in Caller : Busy(q)
<1>2. s \in BOOLEAN /\ sample \in Int
  BY SensorBounds
<1>3. PICK op \in {"read"} \cup Channel :
        call' = [q \in Caller |->
         IF q = p THEN [NoCall EXCEPT !.op = op, !.pc = "fetch", !.since = sample, !.shared = s]
         ELSE IF Busy(q) THEN [call[q] EXCEPT !.shared = TRUE]
         ELSE call[q]]
  BY Zenon DEF Begin
<1>4. op \in {"none", "read"} \cup AnyChannel
  BY <1>3, Channels DEF SensorTypes
<1> HIDE DEF s
<1> DEFINE r == [NoCall EXCEPT !.op = op, !.pc = "fetch", !.since = sample, !.shared = s]
           t(q) == [call[q] EXCEPT !.shared = TRUE]
<1>5. /\ r \in SensorCall /\ r.op = op /\ r.pc = "fetch" /\ r.at = 1 /\ r.got = NoCall.got
      /\ r.out = <<>> /\ r.answer = "none" /\ r.since = sample /\ r.failed = FALSE /\ r.shared = s
  BY <1>2, <1>4, NoCallFields DEF SensorCall
<1>6. ASSUME NEW q \in Caller
      PROVE  /\ t(q) \in SensorCall /\ t(q).op = call[q].op /\ t(q).pc = call[q].pc
             /\ t(q).at = call[q].at /\ t(q).got = call[q].got /\ t(q).out = call[q].out
             /\ t(q).answer = call[q].answer /\ t(q).since = call[q].since
             /\ t(q).failed = call[q].failed /\ t(q).shared = TRUE
  BY <1>1 DEF SensorCall
<1> HIDE DEF r, t
<1>7. call' = [q \in Caller |-> IF q = p THEN r ELSE IF Busy(q) THEN t(q) ELSE call[q]]
  BY <1>3, Zenon DEF r, t
<1>8. call'[p] = r
  BY <1>7, Zenon
<1>9. ASSUME NEW q \in Caller, q # p
      PROVE  call'[q] = IF Busy(q) THEN t(q) ELSE call[q]
  BY <1>7, <1>9, Zenon
<1>10. call' \in [Caller -> SensorCall]
  <2>1. \A q \in Caller : (IF q = p THEN r ELSE IF Busy(q) THEN t(q) ELSE call[q]) \in SensorCall
    BY <1>1, <1>5, <1>6
  <2> QED BY <1>7, <2>1, Zenon
<1>11. calls' \in 0..MaxCalls
  BY <1>1, SensorBounds DEF SensorTypes
<1>12. SensorTypes'
  BY <1>1, <1>10, <1>11 DEF SensorTypes
<1>13. ASSUME NEW q \in Caller, q # p
       PROVE  /\ call'[q].op = call[q].op /\ call'[q].pc = call[q].pc /\ call'[q].at = call[q].at
              /\ call'[q].got = call[q].got /\ call'[q].out = call[q].out
              /\ call'[q].answer = call[q].answer /\ call'[q].since = call[q].since
              /\ call'[q].failed = call[q].failed
              /\ IF Busy(q) THEN call'[q].shared = TRUE ELSE call'[q].shared = call[q].shared
  <2>1. CASE Busy(q)
    BY <1>6, <1>9, <1>13, <2>1
  <2>2. CASE ~Busy(q)
    BY <1>9, <1>13, <2>2
  <2> QED BY <2>1, <2>2
<1>14. \A i, j \in 1..2 : call'[p].got[i][j] = NoSample
  <2>1. call'[p].got = NoCall.got
    BY <1>5, <1>8, Zenon
  <2> QED BY <2>1, NoCallFields
<1>15. /\ call'[p].op \in {"read"} \cup Channel /\ call'[p].pc = "fetch" /\ call'[p].at = 1
       /\ call'[p].out = <<>> /\ call'[p].answer = "none" /\ call'[p].since = sample
       /\ call'[p].failed = FALSE /\ call'[p].shared = s
  BY <1>3, <1>5, <1>8, Zenon
<1>16. call'[p].shared <=> \E q \in Caller : Busy(q)
  BY <1>15, Zenon DEF s
<1> QED BY <1>1, <1>12, <1>13, <1>14, <1>15, <1>16, Zenon DEF Begins

\* The steps of the readers.
SampleTaken == /\ SensorTypes' /\ kind' = kind /\ sample' = sample + 1 /\ field' = field
               /\ call' = call
Nothing == SensorTypes' /\ kind' = kind /\ sample' = sample /\ field' = field /\ call' = call
CallSteps(p) == \/ Begins(p) \/ FetchesAll(p) \/ FetchFails(p) \/ FetchesByte(p) \/ StoresOne(p)
                \/ Shows(p) \/ CopiesFirst(p) \/ CopiesLast(p) \/ Ends(p)

LEMMA SensorSteps ==
  ASSUME SensorInv, [SensorNext]_sensorVars
  PROVE  Nothing \/ SampleTaken \/ \E p \in Caller : CallSteps(p)
<1>1. SensorTypes /\ \A p \in Caller : CallForm(p)
  BY DEF SensorInv
<1>2. CASE Sample
  <2>1. sample' \in 0..MaxSample
    BY <1>1, <1>2, SensorBounds DEF Sample, SensorTypes
  <2> QED BY <1>1, <1>2, <2>1 DEF Sample, SensorTypes, SampleTaken
<1>3. CASE UNCHANGED sensorVars
  BY <1>1, <1>3 DEF sensorVars, SensorTypes, Nothing
<1>4. ASSUME NEW p \in Caller,
             \/ Begin(p) \/ SpiFetch(p) \/ RegmapFetch(p) \/ ApFetch(p)
             \/ Store(p) \/ SpiShow(p) \/ RegmapShow(p) \/ ApShow(p)
             \/ SpiRead(p) \/ RegmapRead(p) \/ ApRead(p) \/ Returns(p)
      PROVE  CallSteps(p)
  <2>1. CASE Begin(p)
    BY <1>1, <2>1, BeginMoves DEF CallSteps
  <2>2. CASE SpiFetch(p) \/ RegmapFetch(p)
    BY <1>1, <2>2, BulkFetchMoves DEF CallSteps, SpiFetch, RegmapFetch
  <2>3. CASE ApFetch(p)
    BY <1>1, <2>3, ApFetchMoves DEF CallSteps
  <2>4. CASE Store(p)
    BY <1>1, <2>4, StoreMoves DEF CallSteps
  <2>5. CASE SpiShow(p) \/ RegmapShow(p) \/ ApShow(p)
    BY <1>1, <2>5, ShowMoves DEF CallSteps, SpiShow, RegmapShow, ApShow
  <2>6. CASE SpiRead(p) \/ RegmapRead(p) \/ ApRead(p)
    BY <1>1, <2>6, CopyNextMoves DEF CallSteps, SpiRead, RegmapRead, ApRead
  <2>7. CASE Returns(p)
    BY <1>1, <2>7, ReturnsMoves DEF CallSteps
  <2> QED BY <1>4, <2>1, <2>2, <2>3, <2>4, <2>5, <2>6, <2>7
<1> QED BY <1>2, <1>3, <1>4 DEF SensorNext

LEMMA SameChip ==
  ASSUME kind' = kind
  PROVE  Stores' = Stores /\ Copies' = Copies /\ Channel' = Channel
BY DEF Stores, Copies, Channel

LEMMA SensorStart == SensorInit => SensorInv
<1> SUFFICES ASSUME SensorInit PROVE SensorInv
  OBVIOUS
<1> DEFINE z == <<0, 0>>
<1>1. z \in Bytes /\ z[1] = 0 /\ z[2] = 0
  BY SensorAssumption DEF Bytes, SampleByte, NoSample
<1>2. /\ kind \in {"spi", "regmap", "ap3216c"} /\ sample = 0 /\ calls = 0 /\ failures = 0
      /\ field = [c \in AnyChannel |-> z] /\ call = [p \in Caller |-> NoCall]
  BY DEF SensorInit
<1> HIDE DEF z
<1>3. \A p \in Caller : call[p] = NoCall
  BY <1>2
<1>4. \A c \in AnyChannel : field[c][1] = 0 /\ field[c][2] = 0
  BY <1>1, <1>2
<1>5. SensorTypes
  <2>1. call \in [Caller -> SensorCall]
    BY <1>2, NoCallFields
  <2>2. field \in [AnyChannel -> Bytes]
    BY <1>1, <1>2
  <2> QED BY <1>2, <2>1, <2>2, SensorAssumption DEF SensorTypes
<1>6. ASSUME NEW p \in Caller
      PROVE  /\ call[p].op = "none" /\ call[p].pc = "idle" /\ call[p].answer = "none"
             /\ call[p].out = <<>> /\ call[p].since = 0
             /\ \A i, j \in 1..2 : call[p].got[i][j] = NoSample
  <2>1. call[p].got = NoCall.got
    BY <1>3, Zenon
  <2> QED BY <1>3, <2>1, NoCallFields
<1>7. NotNewer
  <2>1. \A j \in 1..2 : j = 1 \/ j = 2
    OBVIOUS
  <2>2. \A c \in AnyChannel, j \in 1..2 : field[c][j] <= sample
    BY <1>2, <1>4, <2>1
  <2>3. \A p \in Caller : \A i, j \in 1..2 : call[p].got[i][j] <= sample
    BY <1>2, <1>6 DEF NoSample
  <2> QED BY <1>6, <2>2, <2>3 DEF NotNewer
<1>8. Untorn
  BY <1>4, <1>6 DEF Untorn
<1>9. KnownShared
  BY <1>6 DEF KnownShared, Busy
<1>10. \A p \in Caller : CallForm(p) /\ OneSample(p) /\ Fresh(p)
  BY <1>2, <1>6 DEF CallForm, OneSample, Fresh, Busy, HasData
<1> QED BY <1>5, <1>7, <1>8, <1>9, <1>10 DEF SensorInv

LEMMA FormKept ==
  ASSUME SensorInv, NEW p \in Caller, CallSteps(p), NEW q \in Caller
  PROVE  CallForm(q)'
<1>1. SensorTypes /\ CallForm(p) /\ CallForm(q) /\ call[p] \in SensorCall /\ sample \in Int
  BY SensorBounds DEF SensorInv, SensorTypes
<1>2. kind' = kind /\ sample' = sample /\ Channel' = Channel
  BY SameChip DEF CallSteps, Begins, FetchesAll, FetchFails, FetchesByte, StoresOne, Shows,
     CopiesFirst, CopiesLast, CopiesOne, Ends, Moves
<1>3. CASE q # p
  <2>1. CASE call'[q] = call[q]
    BY <1>1, <1>2, <2>1 DEF CallForm, Busy, HasData
  <2>2. CASE Begins(p)
    BY <1>1, <1>2, <1>3, <2>2 DEF CallForm, Busy, HasData, Begins
  <2> QED BY <1>3, <2>1, <2>2 DEF CallSteps, FetchesAll, FetchFails, FetchesByte, StoresOne, Shows,
             CopiesFirst, CopiesLast, CopiesOne, Ends, Moves
<1>4. CASE q = p
  <2>1. CASE Begins(p)
    <3>1. call'[p].op \in {"read"} \cup Channel /\ call'[p].op # "none"
      BY <1>1, <2>1, Channels DEF Begins, SensorTypes, AnyChannel
    <3> QED BY <1>1, <1>2, <1>4, <2>1, <3>1 DEF CallForm, Busy, HasData, Begins
  <2>2. CASE FetchesAll(p)
    BY <1>1, <1>2, <1>4, <2>2 DEF CallForm, Busy, HasData, FetchesAll, Moves, Unmoved
  <2>3. CASE FetchFails(p)
    BY <1>1, <1>2, <1>4, <2>3 DEF CallForm, Busy, HasData, FetchFails, Moves, Unmoved
  <2>4. CASE FetchesByte(p)
    BY <1>1, <1>2, <1>4, <2>4 DEF CallForm, Busy, HasData, FetchesByte, Moves, Unmoved
  <2>5. CASE StoresOne(p)
    BY <1>1, <1>2, <1>4, <2>5 DEF CallForm, Busy, HasData, StoresOne, Moves, Unmoved
  <2>6. CASE Shows(p)
    BY <1>1, <1>2, <1>4, <2>6 DEF CallForm, Busy, HasData, Shows, CopiesOne, Moves, Unmoved
  <2>7. CASE CopiesFirst(p)
    BY <1>1, <1>2, <1>4, <2>7 DEF CallForm, Busy, HasData, CopiesFirst, CopiesOne, Moves, Unmoved
  <2>8. CASE CopiesLast(p)
    BY <1>1, <1>2, <1>4, <2>8 DEF CallForm, Busy, HasData, CopiesLast, CopiesOne, Moves, Unmoved
  <2>9. CASE Ends(p)
    <3>1. /\ call'[p].op = "none" /\ call'[p].pc = "idle" /\ call'[p].answer = "none"
          /\ call'[p].out = <<>> /\ call'[p].since = 0
      BY <2>9, NoCallFields, Zenon DEF Ends
    <3>2. 0 <= sample
      BY <1>1 DEF SensorTypes
    <3> QED BY <1>2, <1>4, <3>1, <3>2 DEF CallForm, Busy, HasData
  <2> QED BY <2>1, <2>2, <2>3, <2>4, <2>5, <2>6, <2>7, <2>8, <2>9 DEF CallSteps
<1> QED BY <1>3, <1>4

\* A call that steps was in progress, but for the one that begins.
LEMMA StepsBusy ==
  ASSUME NEW p \in Caller, CallSteps(p)
  PROVE  \/ Begins(p)
         \/ Busy(p) /\ call'[p].shared = call[p].shared /\ \A q \in Caller : q # p => call'[q] = call[q]
         \/ Ends(p)
BY DEF CallSteps, FetchesAll, FetchFails, FetchesByte, StoresOne, Shows, CopiesFirst, CopiesLast,
   CopiesOne, Moves, Unmoved, Busy

LEMMA SharedKept ==
  ASSUME SensorInv, NEW p \in Caller, CallSteps(p)
  PROVE  KnownShared'
<1>1. KnownShared
  BY DEF SensorInv
<1> SUFFICES ASSUME NEW q \in Caller, NEW r \in Caller, q # r, Busy(q)', Busy(r)'
             PROVE  call'[q].shared
  BY DEF KnownShared
<1>2. CASE Begins(p)
  <2>1. CASE q = p
    <3>1. Busy(r)
      BY <1>2, <2>1 DEF Begins, Busy
    <3> QED BY <1>2, <2>1, <3>1 DEF Begins
  <2>2. CASE q # p
    <3>1. Busy(q)
      BY <1>2, <2>2 DEF Begins, Busy
    <3> QED BY <1>2, <2>2, <3>1 DEF Begins
  <2> QED BY <2>1, <2>2
<1>3. CASE Busy(p) /\ call'[p].shared = call[p].shared /\ \A s \in Caller : s # p => call'[s] = call[s]
  <2>1. Busy(q) /\ Busy(r)
    BY <1>3 DEF Busy
  <2>2. call[q].shared
    BY <1>1, <2>1 DEF KnownShared
  <2> QED BY <1>3, <2>2
<1>4. CASE Ends(p)
  <2>1. q # p /\ r # p
    BY <1>4, NoCallFields DEF Ends, Busy
  <2>2. Busy(q) /\ Busy(r) /\ call'[q] = call[q]
    BY <1>4, <2>1 DEF Ends, Busy
  <2> QED BY <1>1, <2>2 DEF KnownShared
<1> QED BY <1>2, <1>3, <1>4, StepsBusy

\* The bytes a step leaves or brings: what field and answer hold afterwards
\* was in the fields, in the call or in the sensor before.
LEMMA FieldFrom ==
  ASSUME SensorInv, NEW p \in Caller, CallSteps(p)
  PROVE  \/ field' = field
         \/ /\ StoresOne(p) /\ \A c \in AnyChannel :
                 field'[c] = field[c] \/ field'[c] = call[p].got[call[p].at]
<1>1. field \in [AnyChannel -> Bytes]
  BY DEF SensorInv, SensorTypes
<1>2. CASE StoresOne(p)
  BY <1>1, <1>2 DEF StoresOne
<1> QED BY <1>2 DEF CallSteps, Begins, FetchesAll, FetchFails, FetchesByte, Shows,
     CopiesFirst, CopiesLast, CopiesOne, Ends

\* The answer grows by a field.
LEMMA OutFrom ==
  ASSUME SensorInv, NEW p \in Caller, CallSteps(p), NEW q \in Caller,
         NEW i \in 1..Len(call'[q].out)
  PROVE  \/ i \in 1..Len(call[q].out) /\ call'[q].out[i] = call[q].out[i]
         \/ \E c \in AnyChannel : call'[q].out[i] = field[c]
<1>1. SensorTypes
  BY DEF SensorInv
<1>2. ASSUME call'[q].out = call[q].out
      PROVE  i \in 1..Len(call[q].out) /\ call'[q].out[i] = call[q].out[i]
  BY <1>2
<1>3. ASSUME call'[q].out = <<>>
      PROVE  FALSE
  BY <1>3
<1>4. ASSUME NEW c \in Channel, NEW n \in 1..2, NEW last, CopiesOne(p, c, n, last), q = p
      PROVE  \/ i \in 1..Len(call[q].out) /\ call'[q].out[i] = call[q].out[i]
             \/ \E d \in AnyChannel : call'[q].out[i] = field[d]
  <2>1. /\ Len(call[q].out) = n - 1 /\ Len(call'[q].out) = n /\ call'[q].out[n] = field[c]
        /\ \A k \in 1..(n - 1) : call'[q].out[k] = call[q].out[k]
    BY <1>4 DEF CopiesOne
  <2>2. i \in 1..n
    BY <2>1
  <2>3. CASE i = n
    BY <1>1, <2>1, <2>3, Channels DEF SensorTypes
  <2>4. CASE i # n
    <3>1. i \in 1..(n - 1)
      BY <2>2, <2>4
    <3> QED BY <2>1, <3>1
  <2> QED BY <2>3, <2>4
<1>5. CASE Begins(p) \/ Ends(p)
  <2>1. call'[q].out = call[q].out \/ call'[q].out = <<>>
    BY <1>5, NoCallFields DEF Begins, Ends
  <2> QED BY <1>2, <1>3, <2>1
<1>6. CASE Shows(p) \/ CopiesFirst(p) \/ CopiesLast(p)
  <2>1. PICK c \in Channel, n \in 1..2, last \in BOOLEAN : CopiesOne(p, c, n, last)
    <3>1. 1 \in 1..2 /\ 2 \in 1..2
      OBVIOUS
    <3>2. CASE Shows(p)
      BY <3>1, <3>2 DEF Shows, CopiesOne
    <3>3. CASE CopiesFirst(p)
      BY <3>1, <3>3 DEF CopiesFirst, CopiesOne
    <3>4. CASE CopiesLast(p)
      BY <3>1, <3>4 DEF CopiesLast, CopiesOne
    <3> QED BY <1>6, <3>2, <3>3, <3>4
  <2>2. CASE q = p
    BY <1>4, <2>1, <2>2
  <2>3. CASE q # p
    <3>1. call'[q] = call[q]
      BY <2>1, <2>3 DEF CopiesOne, Moves
    <3> QED BY <1>2, <3>1
  <2> QED BY <2>2, <2>3
<1>7. CASE FetchesAll(p) \/ FetchFails(p) \/ FetchesByte(p) \/ StoresOne(p)
  <2>1. call'[q].out = call[q].out
    BY <1>7 DEF FetchesAll, FetchFails, FetchesByte, StoresOne, Moves
  <2> QED BY <1>2, <2>1
<1> QED BY <1>5, <1>6, <1>7 DEF CallSteps

\* A fetched value is the one before, or bytes of the sensor's sample or none.
LEMMA GotFrom ==
  ASSUME SensorInv, NEW p \in Caller, CallSteps(p), NEW q \in Caller, NEW i \in 1..2
  PROVE  /\ \A j \in 1..2 : \/ call'[q].got[i][j] = call[q].got[i][j]
                            \/ call'[q].got[i][j] = sample
                            \/ call'[q].got[i][j] = NoSample
         /\ kind # "ap3216c" =>
              \/ call'[q].got[i] = call[q].got[i]
              \/ call'[q].got[i][1] = call'[q].got[i][2]
<1>1. 1 \in 1..2 /\ 2 \in 1..2
  OBVIOUS
<1>2. CASE q # p
  <2>1. call'[q].got = call[q].got
    BY <1>2 DEF CallSteps, Begins, FetchesAll, FetchFails, FetchesByte, StoresOne, Shows,
       CopiesFirst, CopiesLast, CopiesOne, Ends, Moves
  <2> QED BY <2>1
<1>3. CASE q = p
  <2>1. CASE Begins(p) \/ Ends(p)
    <3>1. \A j \in 1..2 : call'[q].got[i][j] = NoSample
      <4>1. CASE Begins(p)
        BY <1>3, <4>1 DEF Begins
      <4>2. CASE Ends(p)
        <5>1. call'[q].got = NoCall.got
          BY <1>3, <4>2, Zenon DEF Ends
        <5> QED BY <5>1, NoCallFields
      <4> QED BY <2>1, <4>1, <4>2
    <3> QED BY <1>1, <3>1
  <2>2. CASE FetchesAll(p)
    <3>1. \A j \in 1..2 : call'[q].got[i][j] = sample
      BY <1>3, <2>2 DEF FetchesAll
    <3> QED BY <1>1, <3>1
  <2>3. CASE FetchesByte(p)
    BY <1>3, <2>3 DEF FetchesByte
  <2>4. CASE StoresOne(p)
    <3>1. call'[q].got[i] = NoValue \/ call'[q].got[i] = call[q].got[i]
      BY <1>3, <2>4 DEF StoresOne
    <3>2. \A j \in 1..2 : NoValue[j] = NoSample
      <4>1. \A j \in 1..2 : j = 1 \/ j = 2
        OBVIOUS
      <4> QED BY <4>1, NoValueBytes
    <3> QED BY <1>1, <3>1, <3>2
  <2>5. CASE FetchFails(p) \/ Shows(p) \/ CopiesFirst(p) \/ CopiesLast(p)
    <3>1. call'[q].got = call[q].got
      BY <1>3, <2>5 DEF FetchFails, Shows, CopiesFirst, CopiesLast, CopiesOne
    <3> QED BY <3>1
  <2> QED BY <2>1, <2>2, <2>3, <2>4, <2>5 DEF CallSteps
<1> QED BY <1>2, <1>3

LEMMA NotNewerKept ==
  ASSUME SensorInv, NEW p \in Caller, CallSteps(p)
  PROVE  NotNewer'
<1>1. NotNewer /\ SensorTypes /\ NoSample < sample /\ sample \in Int
  BY SensorBounds DEF SensorInv
<1>2. sample' = sample /\ SensorTypes'
  BY DEF CallSteps, Begins, FetchesAll, FetchFails, FetchesByte, StoresOne, Shows,
     CopiesFirst, CopiesLast, CopiesOne, Ends, Moves
<1>3. \A c \in AnyChannel, j \in 1..2 : field[c][j] <= sample
  BY <1>1 DEF NotNewer
<1>4. \A c \in AnyChannel, j \in 1..2 : field'[c][j] <= sample
  <2>1. CASE field' = field
    BY <1>3, <2>1
  <2>2. CASE /\ StoresOne(p) /\ \A c \in AnyChannel :
                  field'[c] = field[c] \/ field'[c] = call[p].got[call[p].at]
    <3>1. call[p].at \in 1..2
      BY <2>2 DEF StoresOne
    <3>2. \A j \in 1..2 : call[p].got[call[p].at][j] <= sample
      BY <1>1, <3>1 DEF NotNewer
    <3> QED BY <1>3, <2>2, <3>2
  <2> QED BY <2>1, <2>2, FieldFrom
<1>5. ASSUME NEW q \in Caller, NEW i \in 1..2, NEW j \in 1..2
      PROVE  call'[q].got[i][j] <= sample
  <2>1. \/ call'[q].got[i][j] = call[q].got[i][j] \/ call'[q].got[i][j] = sample
        \/ call'[q].got[i][j] = NoSample
    BY GotFrom
  <2>2. call[q].got[i][j] <= sample
    BY <1>1 DEF NotNewer
  <2> QED BY <1>1, <2>1, <2>2 DEF NoSample
<1>6. ASSUME NEW q \in Caller, NEW i \in 1..Len(call'[q].out), NEW j \in 1..2
      PROVE  call'[q].out[i][j] <= sample
  <2>1. CASE i \in 1..Len(call[q].out) /\ call'[q].out[i] = call[q].out[i]
    BY <1>1, <2>1 DEF NotNewer
  <2>2. CASE \E c \in AnyChannel : call'[q].out[i] = field[c]
    BY <1>3, <2>2
  <2> QED BY <2>1, <2>2, OutFrom
<1> QED BY <1>2, <1>4, <1>5, <1>6 DEF NotNewer

LEMMA UntornKept ==
  ASSUME SensorInv, NEW p \in Caller, CallSteps(p)
  PROVE  Untorn'
<1>1. kind' = kind
  BY DEF CallSteps, Begins, FetchesAll, FetchFails, FetchesByte, StoresOne, Shows,
     CopiesFirst, CopiesLast, CopiesOne, Ends, Moves
<1> SUFFICES ASSUME kind # "ap3216c"
             PROVE  /\ \A c \in AnyChannel : field'[c][1] = field'[c][2]
                    /\ \A q \in Caller :
                         /\ \A i \in 1..2 : call'[q].got[i][1] = call'[q].got[i][2]
                         /\ \A i \in 1..Len(call'[q].out) : call'[q].out[i][1] = call'[q].out[i][2]
  BY <1>1 DEF Untorn
<1>2. /\ \A c \in AnyChannel : field[c][1] = field[c][2]
      /\ \A q \in Caller :
           /\ \A i \in 1..2 : call[q].got[i][1] = call[q].got[i][2]
           /\ \A i \in 1..Len(call[q].out) : call[q].out[i][1] = call[q].out[i][2]
  BY DEF SensorInv, Untorn
<1>3. \A c \in AnyChannel : field'[c][1] = field'[c][2]
  <2>1. StoresOne(p) => call[p].at \in 1..2
    BY DEF StoresOne
  <2> QED BY <1>2, <2>1, FieldFrom
<1>4. ASSUME NEW q \in Caller, NEW i \in 1..2
      PROVE  call'[q].got[i][1] = call'[q].got[i][2]
  <2>1. \/ call'[q].got[i] = call[q].got[i]
        \/ call'[q].got[i][1] = call'[q].got[i][2]
    BY GotFrom
  <2> QED BY <1>2, <2>1
<1>5. ASSUME NEW q \in Caller, NEW i \in 1..Len(call'[q].out)
      PROVE  call'[q].out[i][1] = call'[q].out[i][2]
  <2>1. CASE i \in 1..Len(call[q].out) /\ call'[q].out[i] = call[q].out[i]
    BY <1>2, <2>1
  <2>2. CASE \E c \in AnyChannel : call'[q].out[i] = field[c]
    BY <1>2, <2>2
  <2> QED BY <2>1, <2>2, OutFrom
<1> QED BY <1>3, <1>4, <1>5

\* What becomes of the calls that do not step: they share, rest, or are as they were.
LEMMA Aside ==
  ASSUME SensorInv, NEW p \in Caller, CallSteps(p), NEW q \in Caller, q # p
  PROVE  \/ call'[q].shared
         \/ /\ call'[q].pc = "idle" /\ ~HasData(q)' /\ call'[q].out = call[q].out
            /\ call'[q].since = call[q].since /\ call'[q].failed = call[q].failed
            /\ call'[q].shared = call[q].shared
         \/ call'[q] = call[q] /\ field' = field
<1>1. KnownShared /\ CallForm(q)'
  BY FormKept DEF SensorInv
<1>2. CASE Begins(p)
  <2>1. CASE Busy(q)
    BY <1>2, <2>1 DEF Begins
  <2>2. CASE ~Busy(q)
    BY <1>1, <1>2, <2>2 DEF Begins, Busy, CallForm
  <2> QED BY <2>1, <2>2
<1>3. CASE Busy(p) /\ call'[p].shared = call[p].shared /\ \A s \in Caller : s # p => call'[s] = call[s]
  <2>1. CASE Busy(q)
    BY <1>1, <1>3, <2>1 DEF KnownShared
  <2>2. CASE ~Busy(q)
    BY <1>1, <1>3, <2>2 DEF Busy, CallForm
  <2> QED BY <2>1, <2>2
<1>4. CASE Ends(p)
  BY <1>4 DEF Ends
<1> QED BY <1>2, <1>3, <1>4, StepsBusy

LEMMA OneSampleKept ==
  ASSUME SensorInv, NEW p \in Caller, CallSteps(p), NEW q \in Caller
  PROVE  OneSample(q)'
<1>1. /\ SensorTypes /\ CallForm(p) /\ OneSample(p) /\ OneSample(q) /\ call[p] \in SensorCall
      /\ CallForm(p)'
  BY FormKept DEF SensorInv, SensorTypes
<1>2. kind' = kind
  BY DEF CallSteps, Begins, FetchesAll, FetchFails, FetchesByte, StoresOne, Shows,
     CopiesFirst, CopiesLast, CopiesOne, Ends, Moves
<1>3. Stores' = Stores /\ Copies' = Copies /\ Channel' = Channel
  BY <1>2, SameChip
<1>4. CASE q # p
  <2>1. CASE call'[q] = call[q] /\ field' = field
    BY <1>1, <1>2, <1>3, <2>1 DEF OneSample, HasData
  <2> QED BY <1>4, <2>1, Aside DEF OneSample
<1>5. CASE q = p
  <2>1. CASE Begins(p)
    BY <1>5, <2>1 DEF OneSample, HasData, Begins
  <2>2. CASE FetchesAll(p)
    BY <1>1, <1>5, <2>2 DEF OneSample, HasData, FetchesAll, CallForm
  <2>3. CASE FetchFails(p)
    BY <1>1, <1>5, <2>3 DEF OneSample, HasData, FetchFails, CallForm, Moves, Unmoved
  <2>4. CASE FetchesByte(p)
    BY <1>2, <2>4 DEF OneSample, FetchesByte
  <2>5. CASE StoresOne(p)
    <3>1. /\ call[p].pc = "store" /\ call[p].at \in 1..2 /\ field \in [AnyChannel -> Bytes]
          /\ field' = [field EXCEPT ![Stores[call[p].at]] = call[p].got[call[p].at]]
          /\ Stores[1] \in AnyChannel /\ Stores[2] \in AnyChannel /\ Stores[1] # Stores[2]
          /\ call'[p].shared = call[p].shared /\ ~HasData(p)'
      BY <1>1, <2>5, Channels DEF StoresOne, SensorTypes, Moves, Unmoved, CallForm, HasData
    <3>2. CASE call[p].at = 1
      <4>1. field'[Stores[1]] = call[p].got[1]
        BY <3>1, <3>2
      <4>2. call'[p].at = 2 /\ call'[p].pc = "store" /\ call'[p].got[2] = call[p].got[2]
        BY <2>5, <3>2 DEF StoresOne
      <4> QED BY <1>1, <1>2, <1>3, <1>5, <3>1, <3>2, <4>1, <4>2 DEF OneSample
    <3>3. CASE call[p].at = 2
      <4>1. field'[Stores[2]] = call[p].got[2] /\ field'[Stores[1]] = field[Stores[1]]
        BY <3>1, <3>3
      <4>2. call'[p].at = 1 /\ call'[p].pc = "copy"
        BY <2>5, <3>3 DEF StoresOne
      <4> QED BY <1>1, <1>2, <1>3, <1>5, <3>1, <3>3, <4>1, <4>2 DEF OneSample
    <3> QED BY <3>1, <3>2, <3>3
  <2>6. CASE Shows(p)
    <3>1. Len(call'[p].out) = 1 /\ call'[p].pc = "answer"
      BY <2>6 DEF Shows, CopiesOne
    <3>2. \A i, j \in 1..Len(call'[p].out) : call'[p].out[i] = call'[p].out[j]
      <4>1. \A i \in 1..Len(call'[p].out) : i = 1
        BY <3>1
      <4> QED BY <4>1
    <3> QED BY <1>5, <3>1, <3>2 DEF OneSample
  <2>7. CASE CopiesFirst(p)
    <3>1. /\ call'[p].pc = "copy" /\ call'[p].out[1] = field[Copies[1]] /\ field' = field
          /\ call'[p].op = call[p].op /\ call'[p].shared = call[p].shared /\ ~HasData(p)'
          /\ call[p].pc = "copy" /\ call[p].op = "read"
      BY <1>1, <2>7 DEF CopiesFirst, CopiesOne, Moves, Unmoved, CallForm, HasData
    <3> QED BY <1>1, <1>2, <1>3, <1>5, <3>1 DEF OneSample
  <2>8. CASE CopiesLast(p)
    <3>1. /\ call'[p].pc = "answer" /\ Len(call'[p].out) = 2
          /\ call'[p].out[2] = field[Copies[2]] /\ call'[p].out[1] = call[p].out[1]
          /\ call'[p].shared = call[p].shared
          /\ call[p].pc = "copy" /\ call[p].op = "read" /\ call[p].at = 2
      BY <2>8 DEF CopiesLast, CopiesOne, Moves, Unmoved
    <3>2. ASSUME kind # "ap3216c", ~call[p].shared
          PROVE  call'[p].out[1] = call'[p].out[2]
      <4>1. field[Stores[1]] = field[Stores[2]] /\ call[p].out[1] = field[Copies[1]]
        BY <1>1, <3>1, <3>2 DEF OneSample
      <4>2. Copies[1] \in {Stores[1], Stores[2]} /\ Copies[2] \in {Stores[1], Stores[2]}
        BY <1>1, Channels DEF SensorTypes
      <4> QED BY <3>1, <4>1, <4>2
    <3>3. \A i \in 1..Len(call'[p].out) : i = 1 \/ i = 2
      BY <3>1
    <3>4. ASSUME kind # "ap3216c", ~call[p].shared
          PROVE  \A i, j \in 1..Len(call'[p].out) : call'[p].out[i] = call'[p].out[j]
      BY <3>2, <3>3, <3>4
    <3> QED BY <1>2, <1>5, <3>1, <3>4 DEF OneSample
  <2>9. CASE Ends(p)
    <3>1. call'[p].pc = "idle" /\ ~HasData(p)'
      BY <2>9, NoCallFields DEF Ends, HasData
    <3> QED BY <1>5, <3>1 DEF OneSample
  <2> QED BY <2>1, <2>2, <2>3, <2>4, <2>5, <2>6, <2>7, <2>8, <2>9 DEF CallSteps
<1> QED BY <1>4, <1>5

LEMMA FreshKept ==
  ASSUME SensorInv, NEW p \in Caller, CallSteps(p), NEW q \in Caller
  PROVE  Fresh(q)'
<1>1. /\ SensorTypes /\ CallForm(p) /\ Fresh(p) /\ Fresh(q) /\ call[p] \in SensorCall
      /\ sample \in Int /\ call[p].since \in Int /\ call[p].since <= sample
  BY SensorBounds DEF SensorInv, SensorTypes, CallForm, SensorCall
<1>2. kind' = kind
  BY DEF CallSteps, Begins, FetchesAll, FetchFails, FetchesByte, StoresOne, Shows,
     CopiesFirst, CopiesLast, CopiesOne, Ends, Moves
<1>3. Stores' = Stores
  BY <1>2, SameChip
<1>4. CASE q # p
  <2>1. CASE call'[q] = call[q] /\ field' = field
    BY <1>1, <1>3, <2>1 DEF Fresh
  <2>2. CASE /\ call'[q].pc = "idle" /\ call'[q].out = call[q].out
             /\ call'[q].since = call[q].since /\ call'[q].failed = call[q].failed
             /\ call'[q].shared = call[q].shared
    BY <1>1, <2>2 DEF Fresh
  <2>3. CASE call'[q].shared
    BY <2>3 DEF Fresh
  <2> QED BY <1>4, <2>1, <2>2, <2>3, Aside
<1>5. CASE q = p
  <2> DEFINE OutFresh == \A i \in 1..Len(call'[p].out), j \in 1..2 : call'[p].out[i][j] >= call'[p].since
             Alone == ~call'[p].failed /\ ~call'[p].shared
  <2>1. CASE Begins(p)
    <3>1. /\ call'[p].pc = "fetch" /\ call'[p].at = 1 /\ call'[p].out = <<>>
      BY <2>1 DEF Begins
    <3>2. \A i, j \in 1..2 : ~(2 * (i - 1) + j < 1)
      OBVIOUS
    <3> QED BY <1>5, <3>1, <3>2 DEF Fresh
  <2>2. CASE FetchesAll(p)
    <3>1. /\ call'[p].pc = "store" /\ call'[p].at = 1 /\ call'[p].out = <<>>
          /\ \A i, j \in 1..2 : call'[p].got[i][j] = sample
          /\ call'[p].since = call[p].since
      BY <1>1, <2>2 DEF FetchesAll, CallForm, Moves, Unmoved
    <3>2. \A i, j \in 1..2 : ~(i < 1) /\ call'[p].got[i][j] >= call'[p].since
      BY <1>1, <3>1
    <3> QED BY <1>5, <3>1, <3>2 DEF Fresh
  <2>3. CASE FetchFails(p)
    BY <1>5, <2>3 DEF Fresh, FetchFails
  <2>4. CASE FetchesByte(p)
    <3>1. SUFFICES ASSUME Alone PROVE Fresh(p)'
      BY <1>5 DEF Fresh
    <3>2. PICK byte \in {sample, NoSample} :
            /\ call'[p].failed <=> call[p].failed \/ byte = NoSample
            /\ \A i, j \in 1..2 : call'[p].got[i][j] =
                 IF 2 * (i - 1) + j = call[p].at THEN byte ELSE call[p].got[i][j]
      BY <2>4 DEF FetchesByte
    <3>3. byte = sample /\ ~call[p].failed /\ ~call[p].shared
      BY <2>4, <3>1, <3>2 DEF FetchesByte, Moves, Unmoved
    <3>4. /\ call[p].pc = "fetch" /\ call'[p].out = <<>> /\ call'[p].since = call[p].since
          /\ call[p].at \in 1..4
      BY <1>1, <2>4 DEF FetchesByte, CallForm, Moves, Unmoved, SensorCall
    <3>5. \A i, j \in 1..2 : 2 * (i - 1) + j < call[p].at => call[p].got[i][j] >= call[p].since
      BY <1>1, <3>3, <3>4 DEF Fresh
    <3>6. \A i, j \in 1..2 : 2 * (i - 1) + j <= call[p].at => call'[p].got[i][j] >= call'[p].since
      <4> SUFFICES ASSUME NEW i \in 1..2, NEW j \in 1..2, 2 * (i - 1) + j <= call[p].at
                   PROVE  call'[p].got[i][j] >= call'[p].since
        OBVIOUS
      <4>1. CASE 2 * (i - 1) + j = call[p].at
        BY <1>1, <3>2, <3>3, <3>4, <4>1
      <4>2. CASE 2 * (i - 1) + j # call[p].at
        <5>1. 2 * (i - 1) + j < call[p].at
          BY <3>4, <4>2
        <5> QED BY <3>2, <3>4, <3>5, <4>2, <5>1
      <4> QED BY <4>1, <4>2
    <3>7. CASE call[p].at = 4
      <4>1. call'[p].at = 1 /\ call'[p].pc = "store"
        BY <2>4, <3>7 DEF FetchesByte
      <4>2. \A i, j \in 1..2 : ~(i < 1) /\ 2 * (i - 1) + j <= 4
        OBVIOUS
      <4>3. \A i, j \in 1..2 : call'[p].got[i][j] >= call'[p].since
        BY <3>6, <3>7, <4>2
      <4> QED BY <3>4, <4>1, <4>2, <4>3 DEF Fresh
    <3>8. CASE call[p].at # 4
      <4>1. call'[p].at = call[p].at + 1 /\ call'[p].pc = "fetch"
        BY <2>4, <3>8 DEF FetchesByte
      <4>2. \A i, j \in 1..2 : 2 * (i - 1) + j < call'[p].at => 2 * (i - 1) + j <= call[p].at
        BY <3>4, <4>1
      <4>3. \A i, j \in 1..2 : 2 * (i - 1) + j < call'[p].at => call'[p].got[i][j] >= call'[p].since
        BY <3>6, <4>2
      <4> QED BY <3>4, <4>1, <4>3 DEF Fresh
    <3> QED BY <3>7, <3>8
  <2>5. CASE StoresOne(p)
    <3>1. SUFFICES ASSUME Alone PROVE Fresh(p)'
      BY <1>5 DEF Fresh
    <3>2. /\ call[p].pc = "store" /\ call[p].at \in 1..2 /\ field \in [AnyChannel -> Bytes]
          /\ field' = [field EXCEPT ![Stores[call[p].at]] = call[p].got[call[p].at]]
          /\ Stores[1] \in AnyChannel /\ Stores[2] \in AnyChannel /\ Stores[1] # Stores[2]
          /\ ~call[p].shared /\ ~call[p].failed /\ call'[p].since = call[p].since
          /\ call'[p].out = <<>>
      BY <1>1, <2>5, <3>1, Channels DEF StoresOne, SensorTypes, Moves, Unmoved, CallForm
    <3>3. \A i, j \in 1..2 :
             IF i < call[p].at THEN field[Stores[i]][j] >= call[p].since
                               ELSE call[p].got[i][j] >= call[p].since
      BY <1>1, <3>2 DEF Fresh
    <3>4. CASE call[p].at = 1
      <4>1. field'[Stores[1]] = call[p].got[1]
        BY <3>2, <3>4
      <4>2. call'[p].at = 2 /\ call'[p].pc = "store" /\ call'[p].got[2] = call[p].got[2]
        BY <2>5, <3>4 DEF StoresOne
      <4>3. \A j \in 1..2 : call[p].got[1][j] >= call[p].since /\ call[p].got[2][j] >= call[p].since
        BY <3>3, <3>4
      <4>4. ASSUME NEW i \in 1..2, NEW j \in 1..2
            PROVE  IF i < 2 THEN field'[Stores[i]][j] >= call'[p].since
                            ELSE call'[p].got[i][j] >= call'[p].since
        <5>1. CASE i = 1
          BY <3>2, <4>1, <4>3, <5>1
        <5>2. CASE i = 2
          BY <3>2, <4>2, <4>3, <5>2
        <5> QED BY <5>1, <5>2
      <4> QED BY <1>3, <3>2, <4>2, <4>4 DEF Fresh
    <3>5. CASE call[p].at = 2
      <4>1. field'[Stores[2]] = call[p].got[2] /\ field'[Stores[1]] = field[Stores[1]]
        BY <3>2, <3>5
      <4>2. call'[p].at = 1 /\ call'[p].pc = "copy"
        BY <2>5, <3>5 DEF StoresOne
      <4>3. \A j \in 1..2 : field[Stores[1]][j] >= call[p].since /\ call[p].got[2][j] >= call[p].since
        BY <3>3, <3>5
      <4>4. ASSUME NEW i \in 1..2, NEW j \in 1..2
            PROVE  field'[Stores[i]][j] >= call'[p].since
        <5>1. CASE i = 1
          BY <3>2, <4>1, <4>3, <5>1
        <5>2. CASE i = 2
          BY <3>2, <4>1, <4>3, <5>2
        <5> QED BY <5>1, <5>2
      <4> QED BY <1>3, <3>2, <4>2, <4>4 DEF Fresh
    <3> QED BY <3>2, <3>4, <3>5
  <2>6. CASE Shows(p) \/ CopiesFirst(p) \/ CopiesLast(p)
    <3>1. SUFFICES ASSUME Alone PROVE Fresh(p)'
      BY <1>5 DEF Fresh
    <3>2. /\ field' = field /\ ~call[p].failed /\ ~call[p].shared /\ call'[p].since = call[p].since
          /\ call[p].pc = "copy" /\ call'[p].pc \in {"copy", "answer"}
      BY <2>6, <3>1 DEF Shows, CopiesFirst, CopiesLast, CopiesOne, Moves, Unmoved
    <3>3. \A i, j \in 1..2 : field[Stores[i]][j] >= call[p].since
      BY <1>1, <3>2 DEF Fresh
    <3>4. \A i \in 1..Len(call[p].out), j \in 1..2 : call[p].out[i][j] >= call[p].since
      BY <1>1, <3>2 DEF Fresh
    <3>5. \A c \in Channel, j \in 1..2 : field[c][j] >= call[p].since
      BY <1>1, <3>3, Channels DEF SensorTypes
    <3>6. ASSUME NEW c \in Channel, NEW n \in 1..2, NEW last, CopiesOne(p, c, n, last)
          PROVE  OutFresh
      <4>1. /\ Len(call[p].out) = n - 1 /\ Len(call'[p].out) = n /\ call'[p].out[n] = field[c]
            /\ \A k \in 1..(n - 1) : call'[p].out[k] = call[p].out[k]
        BY <3>6 DEF CopiesOne
      <4> SUFFICES ASSUME NEW i \in 1..n, NEW j \in 1..2
                   PROVE  call'[p].out[i][j] >= call[p].since
        BY <3>2, <4>1
      <4>2. CASE i = n
        BY <3>5, <4>1, <4>2
      <4>3. CASE i # n
        <5>1. i \in 1..(n - 1)
          BY <4>3
        <5> QED BY <3>4, <4>1, <5>1
      <4> QED BY <4>2, <4>3
    <3>7. 1 \in 1..2 /\ 2 \in 1..2
      OBVIOUS
    <3>8. OutFresh
      <4>1. CASE Shows(p)
        BY <3>6, <3>7, <4>1 DEF Shows, CopiesOne
      <4>2. CASE CopiesFirst(p)
        BY <3>6, <3>7, <4>2 DEF CopiesFirst, CopiesOne
      <4>3. CASE CopiesLast(p)
        BY <3>6, <3>7, <4>3 DEF CopiesLast, CopiesOne
      <4> QED BY <2>6, <4>1, <4>2, <4>3
    <3> QED BY <1>3, <3>2, <3>3, <3>8 DEF Fresh
  <2>7. CASE Ends(p)
    <3>1. call'[p].pc = "idle" /\ call'[p].out = <<>>
      BY <2>7, NoCallFields DEF Ends
    <3> QED BY <1>5, <3>1 DEF Fresh
  <2> QED BY <2>1, <2>2, <2>3, <2>4, <2>5, <2>6, <2>7 DEF CallSteps
<1> QED BY <1>4, <1>5

LEMMA SampleKept ==
  ASSUME SensorInv, SampleTaken \/ Nothing
  PROVE  SensorInv'
<1>1. /\ kind' = kind /\ field' = field /\ call' = call /\ sample \in Int /\ SensorTypes'
      /\ sample' \in Int /\ sample' >= sample
  BY SensorBounds DEF SampleTaken, Nothing, SensorInv
<1>2. Stores' = Stores /\ Copies' = Copies /\ Channel' = Channel
  BY <1>1, SameChip
<1>3. /\ SensorTypes /\ KnownShared /\ NotNewer /\ Untorn
      /\ \A p \in Caller : CallForm(p) /\ OneSample(p) /\ Fresh(p)
  BY DEF SensorInv
<1>4. field \in [AnyChannel -> Bytes] /\ \A p \in Caller : call[p] \in SensorCall
  BY <1>3 DEF SensorTypes
<1>5. NotNewer'
  <2>1. ASSUME NEW b \in Bytes, NEW j \in 1..2, b[j] <= sample
        PROVE  b[j] <= sample'
    <3>1. b[j] \in Int
      BY SensorAssumption DEF Bytes, SampleByte, NoSample
    <3> QED BY <1>1, <2>1, <3>1
  <2>2. \A c \in AnyChannel, j \in 1..2 : field'[c][j] <= sample'
    BY <1>1, <1>3, <1>4, <2>1 DEF NotNewer
  <2>3. ASSUME NEW p \in Caller, NEW i \in 1..2, NEW j \in 1..2
        PROVE  call'[p].got[i][j] <= sample'
    <3>1. call[p].got[i] \in Bytes
      BY <1>4 DEF SensorCall
    <3> QED BY <1>1, <1>3, <2>1, <3>1 DEF NotNewer
  <2>4. ASSUME NEW p \in Caller, NEW i \in 1..Len(call[p].out), NEW j \in 1..2
        PROVE  call'[p].out[i][j] <= sample'
    <3>1. call[p].out \in Seq(Bytes)
      BY <1>4 DEF SensorCall
    <3>2. call[p].out[i] \in Bytes
      BY <3>1
    <3> QED BY <1>1, <1>3, <2>1, <3>2 DEF NotNewer
  <2> QED BY <1>1, <2>2, <2>3, <2>4 DEF NotNewer
<1>6. KnownShared' /\ Untorn'
  BY <1>1, <1>3 DEF KnownShared, Untorn, Busy
<1>7. ASSUME NEW p \in Caller
      PROVE  CallForm(p)' /\ OneSample(p)' /\ Fresh(p)'
  <2>1. call[p].since \in Int
    BY <1>4 DEF SensorCall
  <2>2. CallForm(p)'
    BY <1>1, <1>2, <1>3, <2>1 DEF CallForm, Busy, HasData
  <2>3. OneSample(p)'
    BY <1>1, <1>2, <1>3 DEF OneSample, HasData
  <2>4. Fresh(p)'
    BY <1>1, <1>2, <1>3 DEF Fresh
  <2> QED BY <2>2, <2>3, <2>4
<1> QED BY <1>1, <1>5, <1>6, <1>7 DEF SensorInv

\* Whatever calls of read() and show() overlap, and whichever transfers fail, the
\* bytes on their way to a process are of the samples the driver fetched for it.
THEOREM InvarianceSensor == SensorSpec => []SensorInv
<1>1. SensorInv /\ [SensorNext]_sensorVars => SensorInv'
  <2> SUFFICES ASSUME SensorInv, [SensorNext]_sensorVars PROVE SensorInv'
    OBVIOUS
  <2>1. ASSUME NEW p \in Caller, CallSteps(p)
        PROVE  SensorInv'
    <3>1. SensorTypes'
      BY <2>1 DEF CallSteps, Begins, FetchesAll, FetchFails, FetchesByte, StoresOne, Shows,
         CopiesFirst, CopiesLast, CopiesOne, Ends, Moves
    <3>2. KnownShared' /\ NotNewer' /\ Untorn'
      BY <2>1, SharedKept, NotNewerKept, UntornKept
    <3>3. \A q \in Caller : CallForm(q)' /\ OneSample(q)' /\ Fresh(q)'
      BY <2>1, FormKept, OneSampleKept, FreshKept
    <3> QED BY <3>1, <3>2, <3>3 DEF SensorInv
  <2> QED BY <2>1, SensorSteps, SampleKept
<1> QED BY <1>1, SensorStart, PTL DEF SensorSpec

LEMMA SensorInvMeans == SensorInv => SensorTypeOK /\ ReadingsExplained
<1> SUFFICES ASSUME SensorInv PROVE SensorTypeOK /\ ReadingsExplained
  OBVIOUS
<1>1. /\ SensorTypes /\ NotNewer /\ Untorn /\ sample \in Int
      /\ \A p \in Caller : CallForm(p) /\ OneSample(p) /\ Fresh(p)
  BY SensorBounds DEF SensorInv
<1>2. \A p \in Caller : call[p] \in SensorCall
  BY <1>1 DEF SensorTypes
<1>3. SensorTypeOK
  <2>1. \A p \in Caller : /\ call[p].pc \in {"idle", "fetch", "store", "copy", "answer"}
                          /\ call[p].got \in [1..2 -> [1..2 -> SampleByte]]
    BY <1>2 DEF SensorCall, Bytes
  <2> QED BY <1>1, <2>1 DEF SensorTypes, SensorTypeOK, Bytes, CallForm
<1>4. MixedOnlyWhenShared
  <2> SUFFICES ASSUME NEW p \in Caller, kind # "ap3216c", HasData(p), ~call[p].shared
               PROVE  Cardinality(Values(p)) <= 1
    BY DEF MixedOnlyWhenShared
  <2>1. \A i, j \in 1..Len(call[p].out) : call[p].out[i] = call[p].out[j]
    BY <1>1 DEF OneSample
  <2>2. \A x, y \in Values(p) : x = y
    BY <2>1 DEF Values
  <2>3. CASE Values(p) = {}
    BY <2>3, FS_EmptySet
  <2>4. CASE Values(p) # {}
    <3>1. PICK x \in Values(p) : TRUE
      BY <2>4
    <3>2. Values(p) = {x}
      BY <2>2, <3>1
    <3> QED BY <3>2, FS_Singleton
  <2> QED BY <2>3, <2>4
<1>5. StaleExplained
  <2> SUFFICES ASSUME NEW p \in Caller, ~call[p].failed, ~call[p].shared, NEW v \in Values(p)
               PROVE  v[1] >= call[p].since /\ v[2] >= call[p].since
    BY DEF StaleExplained
  <2>1. PICK i \in 1..Len(call[p].out) : v = call[p].out[i]
    BY DEF Values
  <2>2. \A j \in 1..2 : v[j] >= call[p].since
    BY <1>1, <2>1 DEF Fresh
  <2> QED BY <2>2
<1>6. TornExplained
  <2> SUFFICES ASSUME NEW p \in Caller, HasData(p), NEW v \in Values(p), v[1] # v[2]
               PROVE  /\ kind = "ap3216c"
                      /\ \/ call[p].failed \/ call[p].shared
                         \/ sample > call[p].since
    BY DEF TornExplained
  <2>1. PICK i \in 1..Len(call[p].out) : v = call[p].out[i]
    BY DEF Values
  <2>2. kind = "ap3216c"
    BY <1>1, <2>1 DEF Untorn
  <2>3. ASSUME ~call[p].failed, ~call[p].shared
        PROVE  sample > call[p].since
    <3>1. v[1] >= call[p].since /\ v[2] >= call[p].since
      BY <1>5, <2>3 DEF StaleExplained
    <3>2. \A j \in 1..2 : v[j] <= sample
      BY <1>1, <2>1 DEF NotNewer
    <3>3. v \in Bytes /\ call[p].since \in Int
      <4>1. call[p].out \in Seq(Bytes) /\ call[p].since \in Int
        BY <1>2 DEF SensorCall
      <4> QED BY <2>1, <4>1
    <3>4. v[1] \in Int /\ v[2] \in Int
      BY <3>3, SensorAssumption DEF Bytes, SampleByte, NoSample
    <3>5. v[1] <= sample /\ v[2] <= sample
      BY <3>2
    <3> QED BY <1>1, <3>1, <3>3, <3>4, <3>5
  <2> QED BY <2>2, <2>3
<1> QED BY <1>3, <1>4, <1>5, <1>6 DEF ReadingsExplained
-----------------------------------------------------------------------------
(* The IIO device *)

IioOps == {"raw", "read scale", "write scale", "read bias", "write bias", "enable", "disable"}
IioPlaces == {"idle", "claim", "lock", "bus", "release", "done"}
IioAnswers == {NoAnswer, Error, Ok} \cup [bias : Int] \cup [scale : Int, failed : BOOLEAN]
IioJob == [access : Access, pc : IioPlaces, claimed : BOOLEAN, answer : IioAnswers,
           seen : SUBSET Int]

IioTypes ==
  /\ IioTypeOK
  /\ job \in [User -> IioJob]
  /\ acked \in [Type \X ({ScaleKey} \cup Axis) -> Int]

\* The registers hold what was last acknowledged.
Registers ==
  /\ \A t \in Type : /\ acked[<<t, ScaleKey>>] \in 0..3
                     /\ config[t] = ScaleWritten(acked[<<t, ScaleKey>>])
  /\ \A t \in Type, x \in Axis : /\ offset[Address(t, x)] = High(acked[<<t, x>>])
                                 /\ offset[Address(t, x) + 1] = Low(acked[<<t, x>>])

\* Direct mode is held by the access that was granted it, until a stray release.
ModeHeld(u) ==
  Inside(u) => /\ job[u].claimed => mlock = u \/ stray
               /\ Switches(job[u].access) => job[u].claimed
               /\ job[u].claimed /\ ~Switches(job[u].access) => ~buffer \/ stray

\* An access that has not been answered yet has seen what was last acknowledged.
Watching(u) == job[u].pc \in {"claim", "lock", "bus"} => acked[Setting(job[u].access)] \in job[u].seen

AnswerSeen(u) ==
  /\ job[u].access.op = "read bias" /\ job[u].answer \notin {NoAnswer, Error}
       => \E v \in job[u].seen : job[u].answer = [bias |-> Short(High(v), Low(v))]
  /\ job[u].access.op = "read scale" /\ job[u].answer # NoAnswer
       => job[u].answer.failed \/ job[u].answer.scale \in job[u].seen

IioInv ==
  /\ IioTypes
  /\ Registers
  /\ \A u \in User : ModeHeld(u) /\ Watching(u) /\ AnswerSeen(u)

LEMMA AccessFields ==
  ASSUME NEW a \in Access
  PROVE  /\ a \in [op : IioOps, type : Type, axis : Axis, value : Int]
         /\ Setting(a) \in Type \X ({ScaleKey} \cup Axis)
<1>1. Axis \subseteq Int /\ 0 \in Axis /\ Bias \subseteq Int /\ "gyro" \in Type
  BY IioAssumption DEF Type
<1>2. a \in [op : IioOps, type : Type, axis : Axis, value : Int]
  <2> DEFINE R(o, t, x, v) == [op : o, type : t, axis : x, value : v]
  <2>3. \/ a \in R({"raw", "enable", "disable"}, {"gyro"}, {0}, {0})
        \/ a \in R({"read scale"}, Type, {0}, {0})
        \/ a \in R({"write scale"}, Type, {0}, {0, 2, 9})
        \/ a \in R({"read bias"}, Type, Axis, {0})
        \/ a \in R({"write bias"}, Type, Axis, Bias)
    BY Zenon DEF Access
  <2>4. a \in R(IioOps, Type, Axis, Int)
    <3>1. CASE a \in R({"raw", "enable", "disable"}, {"gyro"}, {0}, {0})
      BY <1>1, <3>1 DEF IioOps
    <3>2. CASE a \in R({"read scale"}, Type, {0}, {0})
      BY <1>1, <3>2 DEF IioOps
    <3>3. CASE a \in R({"write scale"}, Type, {0}, {0, 2, 9})
      <4>1. {0, 2, 9} \subseteq Int
        OBVIOUS
      <4>2. ASSUME NEW V, V \subseteq Int, a \in R({"write scale"}, Type, {0}, V)
            PROVE  a \in R(IioOps, Type, Axis, Int)
        BY <1>1, <4>2 DEF IioOps
      <4> HIDE DEF R
      <4> QED BY <3>3, <4>1, <4>2, Zenon
    <3>4. CASE a \in R({"read bias"}, Type, Axis, {0})
      BY <1>1, <3>4 DEF IioOps
    <3>5. CASE a \in R({"write bias"}, Type, Axis, Bias)
      BY <1>1, <3>5 DEF IioOps
    <3> QED BY <2>3, <3>1, <3>2, <3>3, <3>4, <3>5, Zenon
  <2> QED BY <2>4
<1> QED BY <1>2 DEF Setting

LEMMA PlainAccess == Plain \in Access
BY DEF Access, Plain

LEMMA NoIioJob == NoJob \in IioJob
BY PlainAccess DEF NoJob, IioJob, IioPlaces, IioAnswers

\* A byte pair of a written number, most significant byte first.
LEMMA Halves ==
  ASSUME NEW v \in Int
  PROVE  High(v) \in 0..255 /\ Low(v) \in 0..255
BY DEF High, Low

LEMMA Addresses ==
  ASSUME NEW t \in Type, NEW x \in Axis
  PROVE  /\ Address(t, x) \in Int /\ Address(t, x) \in Offsets /\ Address(t, x) + 1 \in Offsets
         /\ \A s \in Type, y \in Axis :
              /\ Address(s, y) # Address(t, x) + 1
              /\ Address(s, y) = Address(t, x) => s = t /\ y = x
<1>1. x \in 0..2 /\ Axis \subseteq 0..2
  BY IioAssumption
<1>2. Address(t, x) \in Int
  BY <1>1 DEF Address, First
<1>3. Address(t, x) \in 0..255 /\ Address(t, x) + 1 \in 0..255
  BY <1>1 DEF Address, First
<1>4. Address(t, x) \in Offsets /\ Address(t, x) + 1 \in Offsets
  BY <1>3 DEF Offsets
<1>5. ASSUME NEW s \in Type, NEW y \in Axis
      PROVE  /\ Address(s, y) # Address(t, x) + 1
             /\ Address(s, y) = Address(t, x) => s = t /\ y = x
  <2>1. y \in 0..2 /\ x \in 0..2
    BY <1>1
  <2> QED BY <2>1 DEF Address, First, Type
<1> QED BY <1>2, <1>4, <1>5

LEMMA IioPut ==
  ASSUME job \in [User -> IioJob], NEW u \in User, NEW r \in IioJob, job' = [job EXCEPT ![u] = r]
  PROVE  /\ job' \in [User -> IioJob] /\ job'[u] = r
         /\ \A w \in User : w # u => job'[w] = job[w]
OBVIOUS

\* What an action makes of the access it carries on.
LEMMA StartPuts ==
  ASSUME IioTypes, NEW u \in User, Start(u)
  PROVE  \E a \in Work :
           /\ a \in Access /\ job' \in [User -> IioJob]
           /\ \A w \in User : w # u => job'[w] = job[w]
           /\ job'[u].access = a /\ job'[u].claimed = FALSE /\ job'[u].answer = NoAnswer
           /\ job'[u].seen = {acked[Setting(a)]} /\ job'[u].pc \in {"claim", "lock"}
           /\ job'[u].pc = "lock" => ~Switches(a)
<1>1. PICK a \in Work :
        job' = [job EXCEPT ![u] =
            [NoJob EXCEPT !.access = a, !.seen = {acked[Setting(a)]},
                         !.pc = IF Claims(a) \/ Switches(a) THEN "claim"
                                ELSE "lock"]]
  BY DEF Start
<1>2. a \in Access
  BY <1>1, WorkAssumption
<1>3. acked[Setting(a)] \in Int
  BY <1>2, AccessFields DEF IioTypes
<1> DEFINE p == IF Claims(a) \/ Switches(a) THEN "claim" ELSE "lock"
<1>4. p \in {"claim", "lock"} /\ (p = "lock" => ~Switches(a))
  OBVIOUS
<1> HIDE DEF p
<1> DEFINE r == [NoJob EXCEPT !.access = a, !.seen = {acked[Setting(a)]}, !.pc = p]
<1>5. /\ r \in IioJob /\ r.access = a /\ r.claimed = FALSE /\ r.answer = NoAnswer
      /\ r.seen = {acked[Setting(a)]} /\ r.pc = p
  BY <1>2, <1>3, <1>4, NoIioJob DEF IioJob, IioPlaces, NoJob
<1>6. job' = [job EXCEPT ![u] = r]
  BY <1>1, Zenon DEF p
<1> HIDE DEF r
<1>7. /\ job' \in [User -> IioJob] /\ job'[u] = r
      /\ \A w \in User : w # u => job'[w] = job[w]
  BY <1>5, <1>6, IioPut, Zenon DEF IioTypes
<1>8. /\ job'[u].access = a /\ job'[u].claimed = FALSE /\ job'[u].answer = NoAnswer
      /\ job'[u].seen = {acked[Setting(a)]} /\ job'[u].pc = p
  BY <1>5, <1>7, Zenon
<1> QED BY <1>1, <1>2, <1>4, <1>7, <1>8

LEMMA ClaimPuts ==
  ASSUME IioTypes, NEW u \in User, Claim(u)
  PROVE  /\ job' \in [User -> IioJob]
         /\ \A w \in User : w # u => job'[w] = job[w]
         /\ job'[u].access = job[u].access /\ job'[u].answer = job[u].answer
         /\ job'[u].seen = job[u].seen /\ job'[u].pc = "lock"
         /\ job'[u].claimed <=> Grants(u)
<1> DEFINE g == Grants(u)
<1>1. g \in BOOLEAN
  BY DEF Grants
<1>2. job' = [job EXCEPT ![u].pc = "lock", ![u].claimed = g]
  BY DEF Claim
<1> HIDE DEF g
<1>3. job \in [User -> IioJob] /\ job[u] \in IioJob
  BY DEF IioTypes
<1> DEFINE r == [[job[u] EXCEPT !.pc = "lock"] EXCEPT !.claimed = g]
<1>4. /\ r \in IioJob /\ r.access = job[u].access /\ r.answer = job[u].answer
      /\ r.seen = job[u].seen /\ r.pc = "lock" /\ r.claimed = g
  BY <1>1, <1>3 DEF IioJob, IioPlaces
<1>5. job' = [job EXCEPT ![u] = r]
  BY <1>2, <1>3, Zenon
<1> HIDE DEF r
<1>6. /\ job' \in [User -> IioJob] /\ job'[u] = r
      /\ \A w \in User : w # u => job'[w] = job[w]
  BY <1>3, <1>4, <1>5, IioPut, Zenon
<1>7. /\ job'[u].access = job[u].access /\ job'[u].answer = job[u].answer
      /\ job'[u].seen = job[u].seen /\ job'[u].pc = "lock" /\ job'[u].claimed = g
  BY <1>4, <1>6, Zenon
<1> QED BY <1>6, <1>7 DEF g

\* Only the place of the access changes.
LEMMA PlacePuts ==
  ASSUME IioTypes, NEW u \in User, NEW p \in IioPlaces, job' = [job EXCEPT ![u].pc = p]
  PROVE  /\ job' \in [User -> IioJob]
         /\ \A w \in User : w # u => job'[w] = job[w]
         /\ job'[u].access = job[u].access /\ job'[u].answer = job[u].answer
         /\ job'[u].seen = job[u].seen /\ job'[u].pc = p
         /\ job'[u].claimed = job[u].claimed
<1>3. job \in [User -> IioJob] /\ job[u] \in IioJob
  BY DEF IioTypes
<1> DEFINE r == [job[u] EXCEPT !.pc = p]
<1>4. /\ r \in IioJob /\ r.access = job[u].access /\ r.answer = job[u].answer
      /\ r.seen = job[u].seen /\ r.pc = p /\ r.claimed = job[u].claimed
  BY <1>3 DEF IioJob
<1>5. job' = [job EXCEPT ![u] = r]
  BY <1>3, Zenon
<1> HIDE DEF r
<1>6. /\ job' \in [User -> IioJob] /\ job'[u] = r
      /\ \A w \in User : w # u => job'[w] = job[w]
  BY <1>3, <1>4, <1>5, IioPut, Zenon
<1> QED BY <1>4, <1>6, Zenon

LEMMA UnlockedFields ==
  ASSUME IioTypes, NEW u \in User, NEW answer \in IioAnswers
  PROVE  /\ Unlocked(u, answer) \in IioJob
         /\ Unlocked(u, answer).access = job[u].access /\ Unlocked(u, answer).answer = answer
         /\ Unlocked(u, answer).seen = job[u].seen
         /\ Unlocked(u, answer).pc \in {"release", "done"}
         /\ Unlocked(u, answer).claimed = job[u].claimed
<1>1. job[u] \in IioJob
  BY DEF IioTypes
<1> DEFINE p == IF Claims(job[u].access) \/ Switches(job[u].access) THEN "release" ELSE "done"
<1>2. p \in {"release", "done"}
  OBVIOUS
<1>3. Unlocked(u, answer) = [job[u] EXCEPT !.answer = answer, !.pc = p]
  BY Zenon DEF Unlocked
<1> HIDE DEF p
<1> DEFINE r == [job[u] EXCEPT !.answer = answer, !.pc = p]
<1>4. /\ r \in IioJob /\ r.access = job[u].access /\ r.answer = answer
      /\ r.seen = job[u].seen /\ r.pc = p /\ r.claimed = job[u].claimed
  BY <1>1, <1>2 DEF IioJob, IioPlaces
<1> HIDE DEF r
<1>5. Unlocked(u, answer) = r
  BY <1>3, Zenon DEF r
<1> QED BY <1>2, <1>4, <1>5, Zenon

LEMMA UnlocksPuts ==
  ASSUME IioTypes, NEW u \in User, NEW answer \in IioAnswers, Unlocks(u, answer)
  PROVE  /\ job' \in [User -> IioJob]
         /\ \A w \in User : w # u => job'[w] = job[w]
         /\ job'[u].access = job[u].access /\ job'[u].answer = answer
         /\ job'[u].seen = job[u].seen /\ job'[u].pc \in {"release", "done"}
         /\ job'[u].claimed = job[u].claimed
<1> DEFINE r == Unlocked(u, answer)
<1>1. job' = [job EXCEPT ![u] = r]
  BY Zenon DEF Unlocks
<1>2. /\ r \in IioJob /\ r.access = job[u].access /\ r.answer = answer
      /\ r.seen = job[u].seen /\ r.pc \in {"release", "done"} /\ r.claimed = job[u].claimed
  BY UnlockedFields, Zenon
<1> HIDE DEF r
<1>3. /\ job' \in [User -> IioJob] /\ job'[u] = r
      /\ \A w \in User : w # u => job'[w] = job[w]
  BY <1>1, <1>2, IioPut, Zenon DEF IioTypes
<1> QED BY <1>2, <1>3, Zenon

LEMMA AcknowledgesPuts ==
  ASSUME IioTypes, NEW u \in User, Acknowledges(u)
  PROVE  /\ job' \in [User -> IioJob]
         /\ \A w \in User : w # u =>
              /\ job'[w].access = job[w].access /\ job'[w].answer = job[w].answer
              /\ job[w].seen \subseteq job'[w].seen /\ job'[w].pc = job[w].pc
              /\ job'[w].claimed = job[w].claimed
              /\ Setting(job[w].access) = Setting(job[u].access)
                   => job[u].access.value \in job'[w].seen
         /\ job'[u].access = job[u].access /\ job'[u].answer = Ok
         /\ job'[u].seen = job[u].seen /\ job'[u].pc \in {"release", "done"}
         /\ job'[u].claimed = job[u].claimed
<1>1. job \in [User -> IioJob]
  BY DEF IioTypes
<1> DEFINE v == job[u].access.value
           r == Unlocked(u, Ok)
           s(w) == [job[w] EXCEPT !.seen = @ \cup {v}]
<1>2. v \in Int
  <2>1. job[u].access \in Access
    BY <1>1 DEF IioJob
  <2> QED BY <2>1, AccessFields
<1>3. /\ r \in IioJob /\ r.access = job[u].access /\ r.answer = Ok
      /\ r.seen = job[u].seen /\ r.pc \in {"release", "done"} /\ r.claimed = job[u].claimed
  <2>1. Ok \in IioAnswers
    BY DEF IioAnswers
  <2> QED BY <2>1, UnlockedFields, Zenon
<1>4. job' = [w \in User |-> IF w = u THEN r
                             ELSE IF Setting(job[w].access) = Setting(job[u].access)
                               THEN s(w) ELSE job[w]]
  BY Zenon DEF Acknowledges
<1> HIDE DEF r, v
<1>5. ASSUME NEW w \in User
      PROVE  /\ s(w) \in IioJob /\ s(w).access = job[w].access /\ s(w).answer = job[w].answer
             /\ job[w].seen \subseteq s(w).seen /\ s(w).pc = job[w].pc
             /\ s(w).claimed = job[w].claimed /\ v \in s(w).seen
  BY <1>1, <1>2 DEF IioJob
<1> HIDE DEF s
<1>6. job'[u] = r
  BY <1>4, Zenon
<1>7. ASSUME NEW w \in User, w # u
      PROVE  \/ Setting(job[w].access) = Setting(job[u].access) /\ job'[w] = s(w)
             \/ Setting(job[w].access) # Setting(job[u].access) /\ job'[w] = job[w]
  BY <1>4, <1>7, Zenon
<1>8. job' \in [User -> IioJob]
  <2>1. \A w \in User : (IF w = u THEN r
                         ELSE IF Setting(job[w].access) = Setting(job[u].access)
                           THEN s(w) ELSE job[w]) \in IioJob
    BY <1>1, <1>3, <1>5
  <2> QED BY <1>4, <2>1, Zenon
<1>9. ASSUME NEW w \in User, w # u
      PROVE  /\ job'[w].access = job[w].access /\ job'[w].answer = job[w].answer
             /\ job[w].seen \subseteq job'[w].seen /\ job'[w].pc = job[w].pc
             /\ job'[w].claimed = job[w].claimed
             /\ Setting(job[w].access) = Setting(job[u].access) => v \in job'[w].seen
  BY <1>5, <1>7, <1>9
<1> QED BY <1>3, <1>6, <1>8, <1>9 DEF v

LEMMA IioJobTypes ==
  ASSUME NEW j \in [User -> IioJob]
  PROVE  \A u \in User : /\ j[u].pc \in {"idle", "claim", "lock", "bus", "release", "done"}
                         /\ j[u].access \in Access
BY DEF IioJob, IioPlaces

LEMMA IioStart == IioInit => IioInv
<1> SUFFICES ASSUME IioInit PROVE IioInv
  OBVIOUS
<1>1. job \in [User -> IioJob] /\ \A u \in User : job[u] = NoJob
  BY NoIioJob DEF IioInit
<1>2. \A u \in User : /\ job[u].pc = "idle" /\ job[u].answer = NoAnswer
                      /\ job[u].access.op = "raw"
  BY <1>1 DEF NoJob, Plain
<1>3. acked \in [Type \X ({ScaleKey} \cup Axis) -> Int]
  BY DEF IioInit
<1>4. /\ \A t \in Type : acked[<<t, ScaleKey>>] = 3
      /\ \A t \in Type, x \in Axis : acked[<<t, x>>] = 0
  <2>1. \A x \in Axis : x # ScaleKey
    BY IioAssumption DEF ScaleKey
  <2> QED BY <2>1 DEF IioInit
<1>5. Registers
  <2>1. \A t \in Type : config[t] = 24
    BY DEF IioInit
  <2>2. \A t \in Type, x \in Axis : offset[Address(t, x)] = 0 /\ offset[Address(t, x) + 1] = 0
    BY Addresses DEF IioInit
  <2>3. High(0) = 0 /\ Low(0) = 0 /\ ScaleWritten(3) = 24
    BY DEF High, Low, ScaleWritten
  <2> QED BY <1>4, <2>1, <2>2, <2>3 DEF Registers
<1>6. IioTypeOK
  <2>1. /\ config \in [Type -> 0..255] /\ offset \in [Offsets -> 0..255]
        /\ jobs \in 0..MaxJobs /\ irqs \in 0..MaxIrqs
    BY IioAssumption DEF IioInit
  <2> QED BY <1>1, <2>1, IioJobTypes DEF IioInit, IioTypeOK
<1>7. \A u \in User : ModeHeld(u) /\ Watching(u) /\ AnswerSeen(u)
  BY <1>2 DEF ModeHeld, Watching, AnswerSeen, Inside
<1> QED BY <1>1, <1>3, <1>5, <1>6, <1>7 DEF IioInv, IioTypes

\* A write that is acknowledged is of a number, to a register of its own.
LEMMA AckedTypes ==
  ASSUME IioTypes, NEW u \in User, acked' = [acked EXCEPT ![Setting(job[u].access)] = job[u].access.value]
  PROVE  acked' \in [Type \X ({ScaleKey} \cup Axis) -> Int]
<1>1. job[u].access \in Access
  BY DEF IioTypes, IioJob
<1>2. job[u].access.value \in Int /\ Setting(job[u].access) \in Type \X ({ScaleKey} \cup Axis)
  BY <1>1, AccessFields
<1> QED BY <1>2, Zenon DEF IioTypes

LEMMA BiasAnswer ==
  ASSUME IioTypes, NEW u \in User
  PROVE  [bias |-> Short(offset[Address(job[u].access.type, job[u].access.axis)],
                         offset[Address(job[u].access.type, job[u].access.axis) + 1])] \in IioAnswers
<1> DEFINE at == Address(job[u].access.type, job[u].access.axis)
           b == Short(offset[at], offset[at + 1])
<1>1. job[u].access \in Access /\ offset \in [Offsets -> 0..255]
  BY DEF IioTypes, IioTypeOK, IioJob
<1>2. job[u].access.type \in Type /\ job[u].access.axis \in Axis
  BY <1>1, AccessFields
<1>3. offset[at] \in 0..255 /\ offset[at + 1] \in 0..255
  BY <1>1, <1>2, Addresses
<1>4. \A hi \in 0..255, lo \in 0..255 : Short(hi, lo) \in Int
  BY DEF Short
<1>5. b \in Int
  BY <1>3, <1>4, Zenon
<1> HIDE DEF b
<1>6. [bias |-> b] \in IioAnswers
  BY <1>5 DEF IioAnswers
<1> QED BY <1>6 DEF b

LEMMA IioTypesInductive == IioTypes /\ [IioNext]_iioVars => IioTypes'
<1> SUFFICES ASSUME IioTypes, [IioNext]_iioVars PROVE IioTypes'
  OBVIOUS
<1> DEFINE Rest == /\ config \in [Type -> 0..255] /\ offset \in [Offsets -> 0..255]
                   /\ buffer \in BOOLEAN /\ intEnable \in BOOLEAN /\ stray \in BOOLEAN
                   /\ lock \in User \cup {Free, "handler"} /\ mlock \in User \cup {Free}
                   /\ session \in {"idle", "polled", "reading"}
                   /\ jobs \in 0..MaxJobs /\ irqs \in 0..MaxIrqs
           Kept2 == acked' \in [Type \X ({ScaleKey} \cup Axis) -> Int]
           Jobs == job' \in [User -> IioJob]
<1>1. Rest /\ acked \in [Type \X ({ScaleKey} \cup Axis) -> Int] /\ job \in [User -> IioJob]
  BY DEF IioTypes, IioTypeOK
<1>2. SUFFICES Rest' /\ Kept2 /\ Jobs
  BY <1>2, IioJobTypes DEF IioTypes, IioTypeOK
<1>3. MaxJobs \in Nat /\ MaxIrqs \in Nat /\ jobs \in Int /\ irqs \in Int
  BY <1>1, IioAssumption
<1>4. NoAnswer \in IioAnswers /\ Ok \in IioAnswers /\ Error \in IioAnswers
  BY DEF IioAnswers
<1>5. ASSUME NEW u \in User
      PROVE  job[u] \in IioJob /\ job[u].access \in Access
  BY <1>1 DEF IioJob
<1>6. ASSUME NEW u \in User, Start(u)
      PROVE  Rest' /\ Kept2 /\ Jobs
  <2>1. Jobs
    BY <1>6, StartPuts
  <2>2. jobs' \in 0..MaxJobs
    BY <1>1, <1>3, <1>6 DEF Start
  <2> QED BY <1>1, <1>6, <2>1, <2>2 DEF Start
<1>7. ASSUME NEW u \in User, Claim(u)
      PROVE  Rest' /\ Kept2 /\ Jobs
  <2>1. Jobs
    BY <1>7, ClaimPuts
  <2> QED BY <1>1, <1>7, <2>1 DEF Claim
<1>8. ASSUME NEW u \in User, Lock(u)
      PROVE  Rest' /\ Kept2 /\ Jobs
  <2>1. Jobs
    BY <1>8, PlacePuts DEF Lock, IioPlaces
  <2> QED BY <1>1, <1>8, <2>1 DEF Lock
<1>9. ASSUME NEW u \in User, ReleaseMode(u)
      PROVE  Rest' /\ Kept2 /\ Jobs
  <2>1. Jobs
    BY <1>9, PlacePuts DEF ReleaseMode, IioPlaces
  <2>2. stray' \in BOOLEAN
    BY <1>9, Zenon DEF ReleaseMode
  <2> QED BY <1>1, <1>9, <2>1, <2>2 DEF ReleaseMode
<1>10. ASSUME NEW u \in User, Done(u)
       PROVE  Rest' /\ Kept2 /\ Jobs
  <2>1. Jobs
    BY <1>1, <1>10, NoIioJob, IioPut DEF Done
  <2> QED BY <1>1, <1>10, <2>1 DEF Done
<1>11. ASSUME NEW u \in User, ReadRaw(u)
       PROVE  Rest' /\ Kept2 /\ Jobs
  <2>1. PICK answer \in {Ok, Error} : Unlocks(u, answer)
    BY <1>11 DEF ReadRaw
  <2>2. Jobs /\ lock' = Free
    BY <1>4, <2>1, UnlocksPuts DEF Unlocks
  <2> QED BY <1>1, <1>11, <2>2 DEF ReadRaw
<1>12. ASSUME NEW u \in User, ReadScale(u)
       PROVE  Rest' /\ Kept2 /\ Jobs
  <2>1. PICK i \in 0..3, failed \in BOOLEAN : Unlocks(u, [scale |-> i, failed |-> failed])
    BY <1>12 DEF ReadScale
  <2>2. [scale |-> i, failed |-> failed] \in IioAnswers
    BY DEF IioAnswers
  <2>3. Jobs
    BY <2>1, <2>2, UnlocksPuts, Zenon
  <2>4. lock' = Free
    BY <2>1, Zenon DEF Unlocks
  <2> QED BY <1>1, <1>12, <2>3, <2>4 DEF ReadScale
<1>13. ASSUME NEW u \in User, WriteScale(u)
       PROVE  Rest' /\ Kept2 /\ Jobs
  <2>1. CASE /\ job[u].access.value \in 0..3
             /\ config' = [config EXCEPT ![job[u].access.type] = ScaleWritten(job[u].access.value)]
             /\ Acknowledges(u)
    <3>1. Jobs /\ Kept2 /\ lock' = Free
      BY <1>5, <2>1, AcknowledgesPuts, AckedTypes DEF Acknowledges
    <3>2. ScaleWritten(job[u].access.value) \in 0..255
      BY <2>1 DEF ScaleWritten
    <3>3. config' \in [Type -> 0..255]
      BY <1>1, <2>1, <3>2
    <3> QED BY <1>1, <1>13, <3>1, <3>3 DEF WriteScale
  <2>2. CASE Unlocks(u, Error) /\ UNCHANGED <<config, acked>>
    <3>1. Jobs /\ lock' = Free
      BY <1>4, <2>2, UnlocksPuts DEF Unlocks
    <3> QED BY <1>1, <1>13, <2>2, <3>1 DEF WriteScale
  <2> QED BY <1>13, <2>1, <2>2 DEF WriteScale
<1>14. ASSUME NEW u \in User, ReadBias(u)
       PROVE  Rest' /\ Kept2 /\ Jobs
  <2>1. \/ Unlocks(u, Error)
        \/ Unlocks(u, [bias |-> Short(offset[Address(job[u].access.type, job[u].access.axis)],
                                      offset[Address(job[u].access.type, job[u].access.axis) + 1])])
    BY <1>14, Zenon DEF ReadBias
  <2>2. Jobs
    BY <1>4, <2>1, BiasAnswer, UnlocksPuts, Zenon
  <2>3. lock' = Free
    BY <2>1, Zenon DEF Unlocks
  <2> QED BY <1>1, <1>14, <2>2, <2>3 DEF ReadBias
<1>15. ASSUME NEW u \in User, WriteBias(u)
       PROVE  Rest' /\ Kept2 /\ Jobs
  <2> DEFINE v == job[u].access.value
             at == Address(job[u].access.type, job[u].access.axis)
  <2>1. CASE /\ offset' = [offset EXCEPT ![at] = High(v), ![at + 1] = Low(v)]
             /\ Acknowledges(u)
    <3>1. Jobs /\ Kept2 /\ lock' = Free
      BY <1>5, <2>1, AcknowledgesPuts, AckedTypes DEF Acknowledges
    <3>2. High(v) \in 0..255 /\ Low(v) \in 0..255
      BY <1>5, AccessFields, Halves
    <3>3. offset' \in [Offsets -> 0..255]
      BY <1>1, <2>1, <3>2, Zenon
    <3> QED BY <1>1, <1>15, <3>1, <3>3 DEF WriteBias
  <2>2. CASE Unlocks(u, Error) /\ UNCHANGED <<offset, acked>>
    <3>1. Jobs /\ lock' = Free
      BY <1>4, <2>2, UnlocksPuts DEF Unlocks
    <3> QED BY <1>1, <1>15, <2>2, <3>1 DEF WriteBias
  <2> QED BY <1>15, <2>1, <2>2, Zenon DEF WriteBias
<1>16. ASSUME NEW u \in User, SetState(u)
       PROVE  Rest' /\ Kept2 /\ Jobs
  <2>1. \E answer \in {Ok, Error} : Unlocks(u, answer)
    BY <1>16 DEF SetState
  <2>2. Jobs /\ lock' = Free
    BY <1>4, <2>1, UnlocksPuts DEF Unlocks
  <2>3. intEnable' \in BOOLEAN /\ buffer' \in BOOLEAN
    BY <1>1, <1>16, Zenon DEF SetState
  <2> QED BY <1>1, <1>16, <2>2, <2>3 DEF SetState
<1>17. CASE DataReady
  BY <1>1, <1>3, <1>17 DEF DataReady
<1>18. CASE BeginSession
  BY <1>1, <1>18 DEF BeginSession
<1>19. CASE EndSession
  BY <1>1, <1>19 DEF EndSession
<1>20. CASE UNCHANGED iioVars
  BY <1>1, <1>20 DEF iioVars
<1> QED BY <1>6, <1>7, <1>8, <1>9, <1>10, <1>11, <1>12, <1>13, <1>14, <1>15, <1>16, <1>17, <1>18,
           <1>19, <1>20 DEF IioNext

LEMMA RegistersInductive == IioInv /\ [IioNext]_iioVars => Registers'
<1> SUFFICES ASSUME IioInv, [IioNext]_iioVars PROVE Registers'
  OBVIOUS
<1>1. /\ IioTypes /\ Registers /\ config \in [Type -> 0..255] /\ offset \in [Offsets -> 0..255]
      /\ acked \in [Type \X ({ScaleKey} \cup Axis) -> Int]
  BY DEF IioInv, IioTypes, IioTypeOK
<1>2. \A u \in User : job[u].access \in Access
  BY <1>1 DEF IioTypes, IioJob
<1>3. Axis \subseteq 0..2 /\ \A x \in Axis : x # ScaleKey
  BY IioAssumption DEF ScaleKey
<1>4. ASSUME UNCHANGED <<config, offset, acked>>
      PROVE  Registers'
  BY <1>1, <1>4 DEF Registers
<1>5. ASSUME NEW u \in User, WriteScale(u)
      PROVE  Registers'
  <2> DEFINE v == job[u].access.value
             s == job[u].access.type
  <2>1. CASE /\ v \in 0..3
             /\ config' = [config EXCEPT ![s] = ScaleWritten(v)]
             /\ Acknowledges(u)
    <3>1. Setting(job[u].access) = <<s, ScaleKey>> /\ s \in Type
      BY <1>2, <1>5, AccessFields DEF WriteScale, OnBus, Setting
    <3>2. acked' = [acked EXCEPT ![<<s, ScaleKey>>] = v]
      BY <2>1, <3>1 DEF Acknowledges
    <3>3. acked'[<<s, ScaleKey>>] = v /\ config'[s] = ScaleWritten(v) /\ offset' = offset
      BY <1>1, <1>5, <2>1, <3>1, <3>2 DEF WriteScale
    <3>4. ASSUME NEW t \in Type, t # s
          PROVE  acked'[<<t, ScaleKey>>] = acked[<<t, ScaleKey>>] /\ config'[t] = config[t]
      BY <1>1, <2>1, <3>2, <3>4
    <3>5. ASSUME NEW t \in Type, NEW x \in Axis
          PROVE  acked'[<<t, x>>] = acked[<<t, x>>]
      BY <1>1, <1>3, <3>2
    <3> HIDE DEF s, v
    <3>6. ASSUME NEW t \in Type
          PROVE  acked'[<<t, ScaleKey>>] \in 0..3 /\ config'[t] = ScaleWritten(acked'[<<t, ScaleKey>>])
      BY <1>1, <2>1, <3>3, <3>4 DEF Registers
    <3>7. ASSUME NEW t \in Type, NEW x \in Axis
          PROVE  /\ offset'[Address(t, x)] = High(acked'[<<t, x>>])
                 /\ offset'[Address(t, x) + 1] = Low(acked'[<<t, x>>])
      BY <1>1, <3>3, <3>5 DEF Registers
    <3> QED BY <3>6, <3>7 DEF Registers
  <2>2. CASE Unlocks(u, Error) /\ UNCHANGED <<config, acked>>
    BY <1>4, <1>5, <2>2 DEF WriteScale
  <2> QED BY <1>5, <2>1, <2>2 DEF WriteScale
<1>6. ASSUME NEW u \in User, WriteBias(u)
      PROVE  Registers'
  <2> DEFINE v == job[u].access.value
             s == job[u].access.type
             y == job[u].access.axis
             at == Address(s, y)
  <2>1. CASE /\ offset' = [offset EXCEPT ![at] = High(v), ![at + 1] = Low(v)]
             /\ Acknowledges(u)
    <3>1. Setting(job[u].access) = <<s, y>> /\ s \in Type /\ y \in Axis
      BY <1>2, <1>6, AccessFields DEF WriteBias, OnBus, Setting
    <3>2. acked' = [acked EXCEPT ![<<s, y>>] = v]
      BY <2>1, <3>1 DEF Acknowledges
    <3>3. config' = config
      BY <1>6 DEF WriteBias
    <3> HIDE DEF s, y, v
    <3>4. /\ at \in Offsets /\ at + 1 \in Offsets /\ at \in Int
          /\ \A t \in Type, x \in Axis :
               /\ Address(t, x) \in Offsets /\ Address(t, x) + 1 \in Offsets /\ Address(t, x) \in Int
               /\ Address(t, x) # at + 1 /\ at # Address(t, x) + 1
               /\ Address(t, x) = at => t = s /\ x = y
      BY <3>1, Addresses
    <3>5. offset'[at] = High(v) /\ offset'[at + 1] = Low(v)
      BY <1>1, <2>1, <3>4
    <3>6. acked'[<<s, y>>] = v
      BY <1>1, <3>1, <3>2
    <3>7. ASSUME NEW t \in Type, NEW x \in Axis, ~(t = s /\ x = y)
          PROVE  /\ offset'[Address(t, x)] = offset[Address(t, x)]
                 /\ offset'[Address(t, x) + 1] = offset[Address(t, x) + 1]
      <4> DEFINE b == Address(t, x)
      <4>1. b \in Offsets /\ b + 1 \in Offsets /\ b \in Int /\ b # at + 1 /\ at # b + 1 /\ b # at
        BY <3>4, <3>7
      <4> HIDE DEF b, at
      <4>2. b + 1 # at + 1
        BY <3>4, <4>1
      <4>3. offset'[b] = offset[b] /\ offset'[b + 1] = offset[b + 1]
        BY <1>1, <2>1, <3>4, <4>1, <4>2, Zenon
      <4> QED BY <4>3 DEF b
    <3>8. ASSUME NEW t \in Type, NEW x \in Axis, ~(t = s /\ x = y)
          PROVE  acked'[<<t, x>>] = acked[<<t, x>>]
      BY <1>1, <3>2, <3>8
    <3>9. ASSUME NEW t \in Type
          PROVE  acked'[<<t, ScaleKey>>] = acked[<<t, ScaleKey>>]
      BY <1>1, <1>3, <3>1, <3>2
    <3>10. ASSUME NEW t \in Type
           PROVE  acked'[<<t, ScaleKey>>] \in 0..3 /\ config'[t] = ScaleWritten(acked'[<<t, ScaleKey>>])
      BY <1>1, <3>3, <3>9 DEF Registers
    <3>11. ASSUME NEW t \in Type, NEW x \in Axis
           PROVE  /\ offset'[Address(t, x)] = High(acked'[<<t, x>>])
                  /\ offset'[Address(t, x) + 1] = Low(acked'[<<t, x>>])
      <4>1. CASE t = s /\ x = y
        BY <3>5, <3>6, <4>1
      <4>2. CASE ~(t = s /\ x = y)
        BY <1>1, <3>7, <3>8, <4>2 DEF Registers
      <4> QED BY <4>1, <4>2
    <3> QED BY <3>10, <3>11 DEF Registers
  <2>2. CASE Unlocks(u, Error) /\ UNCHANGED <<offset, acked>>
    BY <1>4, <1>6, <2>2 DEF WriteBias
  <2> QED BY <1>6, <2>1, <2>2, Zenon DEF WriteBias
<1> QED BY <1>4, <1>5, <1>6 DEF IioNext, DataReady, BeginSession, EndSession, Start, Claim, Lock,
             ReleaseMode, Done, ReadRaw, ReadScale, ReadBias, SetState, iioVars

\* What two steps make of one user's access as far as direct mode goes.
SameMode(w) == /\ job'[w].pc = job[w].pc /\ job'[w].access = job[w].access
               /\ job'[w].claimed = job[w].claimed

LEMMA ModeInductive ==
  ASSUME IioInv, [IioNext]_iioVars, NEW w \in User
  PROVE  ModeHeld(w)'
<1>1. /\ IioTypes /\ (\A u \in User : ModeHeld(u)) /\ Free \notin User
      /\ buffer \in BOOLEAN /\ stray \in BOOLEAN
  BY IioAssumption DEF IioInv, IioTypes, IioTypeOK
<1>2. ASSUME SameMode(w), mlock' = mlock, stray' = stray, buffer' = buffer
      PROVE  ModeHeld(w)'
  BY <1>1, <1>2 DEF ModeHeld, SameMode, Inside
<1>3. ASSUME UNCHANGED <<job, mlock, stray, buffer>>
      PROVE  ModeHeld(w)'
  BY <1>2, <1>3 DEF SameMode
<1>4. ASSUME job'[w].pc \in {"idle", "claim", "done"}
      PROVE  ModeHeld(w)'
  BY <1>4 DEF ModeHeld, Inside
\* An access that leaves the bus keeps what it holds.
<1>5. ASSUME NEW u \in User, NEW answer \in IioAnswers, Unlocks(u, answer), job[u].pc = "bus",
             mlock' = mlock, stray' = stray, buffer' = buffer
      PROVE  ModeHeld(w)'
  <2>1. CASE w # u
    <3>1. SameMode(w)
      BY <1>1, <1>5, <2>1, UnlocksPuts, Zenon DEF SameMode
    <3> QED BY <1>2, <1>5, <3>1
  <2>2. CASE w = u
    <3>1. /\ job'[w].access = job[w].access /\ job'[w].pc \in {"release", "done"}
          /\ job'[w].claimed = job[w].claimed
      BY <1>1, <1>5, <2>2, UnlocksPuts, Zenon
    <3> QED BY <1>1, <1>5, <2>2, <3>1 DEF ModeHeld, Inside
  <2> QED BY <2>1, <2>2
<1>6. ASSUME NEW u \in User, Acknowledges(u), job[u].pc = "bus", mlock' = mlock, stray' = stray,
             buffer' = buffer
      PROVE  ModeHeld(w)'
  <2>1. CASE w # u
    <3>1. SameMode(w)
      BY <1>1, <1>6, <2>1, AcknowledgesPuts, Zenon DEF SameMode
    <3> QED BY <1>2, <1>6, <3>1
  <2>2. CASE w = u
    <3>1. /\ job'[w].access = job[w].access /\ job'[w].pc \in {"release", "done"}
          /\ job'[w].claimed = job[w].claimed
      BY <1>1, <1>6, <2>2, AcknowledgesPuts, Zenon
    <3> QED BY <1>1, <1>6, <2>2, <3>1 DEF ModeHeld, Inside
  <2> QED BY <2>1, <2>2
<1>7. NoAnswer \in IioAnswers /\ Ok \in IioAnswers /\ Error \in IioAnswers
  BY DEF IioAnswers
<1>8. ASSUME NEW u \in User, Start(u)
      PROVE  ModeHeld(w)'
  <2>1. PICK a \in Work :
           /\ \A z \in User : z # u => job'[z] = job[z]
           /\ job'[u].access = a /\ job'[u].claimed = FALSE
           /\ job'[u].pc \in {"claim", "lock"}
           /\ job'[u].pc = "lock" => ~Switches(a)
    BY <1>1, <1>8, StartPuts, Zenon
  <2>2. CASE w # u
    BY <1>2, <1>8, <2>1, <2>2 DEF SameMode, Start
  <2>3. CASE w = u
    BY <2>1, <2>3 DEF ModeHeld, Inside
  <2> QED BY <2>2, <2>3
<1>9. ASSUME NEW u \in User, Claim(u)
      PROVE  ModeHeld(w)'
  <2>1. /\ \A z \in User : z # u => job'[z] = job[z]
        /\ job'[u].access = job[u].access /\ job'[u].pc = "lock"
        /\ job'[u].claimed <=> Grants(u)
    BY <1>1, <1>9, ClaimPuts, Zenon
  <2>2. mlock = Free /\ buffer' = buffer /\ stray' = stray /\ mlock' = IF Grants(u) THEN u ELSE Free
    BY <1>9 DEF Claim
  <2>3. CASE w # u
    <3>1. job'[w] = job[w]
      BY <2>1, <2>3
    <3> QED BY <1>1, <2>2, <3>1 DEF ModeHeld, Inside
  <2>4. CASE w = u
    <3>1. Switches(job[w].access) => Grants(u)
      BY <2>4 DEF Grants
    <3>2. Grants(u) /\ ~Switches(job[w].access) => ~buffer
      BY <2>4 DEF Grants
    <3> QED BY <2>1, <2>2, <2>4, <3>1, <3>2 DEF ModeHeld
  <2> QED BY <2>3, <2>4
<1>10. ASSUME NEW u \in User, Lock(u)
       PROVE  ModeHeld(w)'
  <2>1. /\ \A z \in User : z # u => job'[z] = job[z]
        /\ job'[u].access = job[u].access /\ job'[u].pc = "bus"
        /\ job'[u].claimed = job[u].claimed
    BY <1>1, <1>10, PlacePuts DEF Lock, IioPlaces
  <2>2. mlock' = mlock /\ buffer' = buffer /\ stray' = stray /\ job[u].pc = "lock"
    BY <1>10 DEF Lock
  <2>3. CASE w # u
    BY <1>2, <2>1, <2>2, <2>3 DEF SameMode
  <2>4. CASE w = u
    BY <1>1, <2>1, <2>2, <2>4 DEF ModeHeld, Inside
  <2> QED BY <2>3, <2>4
<1>11. ASSUME NEW u \in User, ReleaseMode(u)
       PROVE  ModeHeld(w)'
  <2>1. /\ \A z \in User : z # u => job'[z] = job[z]
        /\ job'[u].pc = "done"
    BY <1>1, <1>11, PlacePuts DEF ReleaseMode, IioPlaces
  <2>2. /\ mlock' = Free /\ buffer' = buffer
        /\ stray' <=> (stray \/ mlock \notin {u, Free})
    BY <1>11, Zenon DEF ReleaseMode
  <2>3. CASE w # u
    <3>1. job'[w] = job[w]
      BY <2>1, <2>3
    <3>2. mlock = w => stray'
      BY <1>1, <2>2, <2>3
    <3> QED BY <1>1, <2>2, <3>1, <3>2 DEF ModeHeld, Inside
  <2>4. CASE w = u
    BY <1>4, <2>1, <2>4
  <2> QED BY <2>3, <2>4
<1>12. ASSUME NEW u \in User, Done(u)
       PROVE  ModeHeld(w)'
  <2>1. job'[u] = NoJob /\ \A z \in User : z # u => job'[z] = job[z]
    BY <1>1, <1>12, NoIioJob, IioPut DEF Done, IioTypes
  <2>2. CASE w # u
    BY <1>2, <1>12, <2>1, <2>2 DEF SameMode, Done
  <2>3. CASE w = u
    BY <1>4, <2>1, <2>3 DEF NoJob
  <2> QED BY <2>2, <2>3
<1>13. ASSUME NEW u \in User, ReadRaw(u)
       PROVE  ModeHeld(w)'
  <2>1. PICK answer \in {Ok, Error} : Unlocks(u, answer)
    BY <1>13 DEF ReadRaw
  <2> QED BY <1>5, <1>7, <1>13, <2>1 DEF ReadRaw, OnBus
<1>14. ASSUME NEW u \in User, ReadScale(u)
       PROVE  ModeHeld(w)'
  <2>1. PICK i \in 0..3, failed \in BOOLEAN : Unlocks(u, [scale |-> i, failed |-> failed])
    BY <1>14 DEF ReadScale
  <2>2. [scale |-> i, failed |-> failed] \in IioAnswers
    BY DEF IioAnswers
  <2>3. job[u].pc = "bus" /\ mlock' = mlock /\ stray' = stray /\ buffer' = buffer
    BY <1>14 DEF ReadScale, OnBus
  <2> QED BY <1>5, <2>1, <2>2, <2>3, Zenon
<1>15. ASSUME NEW u \in User, WriteScale(u)
       PROVE  ModeHeld(w)'
  BY <1>5, <1>6, <1>7, <1>15 DEF WriteScale, OnBus
<1>16. ASSUME NEW u \in User, ReadBias(u)
       PROVE  ModeHeld(w)'
  <2>1. \/ Unlocks(u, Error)
        \/ Unlocks(u, [bias |-> Short(offset[Address(job[u].access.type, job[u].access.axis)],
                                      offset[Address(job[u].access.type, job[u].access.axis) + 1])])
    BY <1>16, Zenon DEF ReadBias
  <2>2. job[u].pc = "bus" /\ mlock' = mlock /\ stray' = stray /\ buffer' = buffer
    BY <1>16 DEF ReadBias, OnBus
  <2>3. [bias |-> Short(offset[Address(job[u].access.type, job[u].access.axis)],
                        offset[Address(job[u].access.type, job[u].access.axis) + 1])] \in IioAnswers
    BY <1>1, BiasAnswer
  <2> QED BY <1>5, <1>7, <2>1, <2>2, <2>3, Zenon
<1>17. ASSUME NEW u \in User, WriteBias(u)
       PROVE  ModeHeld(w)'
  <2>1. Acknowledges(u) \/ Unlocks(u, Error)
    BY <1>17, Zenon DEF WriteBias
  <2>2. job[u].pc = "bus" /\ mlock' = mlock /\ stray' = stray /\ buffer' = buffer
    BY <1>17 DEF WriteBias, OnBus
  <2> QED BY <1>5, <1>6, <1>7, <2>1, <2>2, Zenon
\* Capture is switched by the one that holds direct mode.
<1>18. ASSUME NEW u \in User, SetState(u)
       PROVE  ModeHeld(w)'
  <2>1. CASE Unlocks(u, Error) /\ UNCHANGED <<intEnable, buffer>>
    BY <1>5, <1>7, <1>18, <2>1 DEF SetState
  <2>2. CASE Unlocks(u, Ok)
    <3>1. /\ \A z \in User : z # u => job'[z] = job[z]
          /\ job'[u].access = job[u].access /\ job'[u].pc \in {"release", "done"}
          /\ job'[u].claimed = job[u].claimed
      BY <1>1, <1>7, <2>2, UnlocksPuts, Zenon
    <3>2. /\ job[u].pc = "bus" /\ Switches(job[u].access) /\ mlock' = mlock /\ stray' = stray
      BY <1>18 DEF SetState
    <3>3. job[u].claimed /\ (mlock = u \/ stray)
      BY <1>1, <3>2 DEF ModeHeld, Inside
    <3>4. CASE w # u
      <4>1. job'[w] = job[w]
        BY <3>1, <3>4
      <4>2. Inside(w) /\ job[w].claimed => stray
        BY <1>1, <3>3, <3>4 DEF ModeHeld
      <4> QED BY <1>1, <3>2, <4>1, <4>2 DEF ModeHeld, Inside
    <3>5. CASE w = u
      BY <3>1, <3>2, <3>3, <3>5 DEF ModeHeld
    <3> QED BY <3>4, <3>5
  <2> QED BY <1>18, <2>1, <2>2 DEF SetState
<1>19. CASE UNCHANGED iioVars
  BY <1>3, <1>19 DEF iioVars
<1>20. CASE DataReady \/ BeginSession \/ EndSession
  BY <1>3, <1>20 DEF DataReady, BeginSession, EndSession
<1> QED BY <1>8, <1>9, <1>10, <1>11, <1>12, <1>13, <1>14, <1>15, <1>16, <1>17, <1>18, <1>19, <1>20
        DEF IioNext

LEMMA SeenInductive ==
  ASSUME IioInv, [IioNext]_iioVars, NEW w \in User
  PROVE  Watching(w)' /\ AnswerSeen(w)'
<1> DEFINE Goal == Watching(w)' /\ AnswerSeen(w)'
<1>1. /\ IioTypes /\ Registers /\ \A u \in User : Watching(u) /\ AnswerSeen(u)
      /\ acked \in [Type \X ({ScaleKey} \cup Axis) -> Int]
  BY DEF IioInv, IioTypes
<1>2. \A u \in User : job[u] \in IioJob /\ job[u].access \in Access
  BY <1>1 DEF IioTypes, IioJob
<1>3. NoAnswer \in IioAnswers /\ Ok \in IioAnswers /\ Error \in IioAnswers
  BY DEF IioAnswers
<1>4. ASSUME job'[w] = job[w], acked' = acked
      PROVE  Goal
  BY <1>1, <1>4 DEF Watching, AnswerSeen
\* Only the place changes, from one where the access watches.
<1>5. ASSUME job'[w].access = job[w].access, job'[w].answer = job[w].answer, job'[w].seen = job[w].seen,
             job'[w].pc \in {"claim", "lock", "bus"} => job[w].pc \in {"claim", "lock", "bus"},
             acked' = acked
      PROVE  Goal
  BY <1>1, <1>5 DEF Watching, AnswerSeen
<1>6. ASSUME NEW u \in User, NEW answer \in IioAnswers, Unlocks(u, answer), acked' = acked,
             job[u].access.op # "read bias" \/ answer = Error
               \/ \E v \in job[u].seen : answer = [bias |-> Short(High(v), Low(v))],
             job[u].access.op # "read scale" \/ answer.failed \/ answer.scale \in job[u].seen
      PROVE  Goal
  <2>1. /\ \A z \in User : z # u => job'[z] = job[z]
        /\ job'[u].access = job[u].access /\ job'[u].answer = answer
        /\ job'[u].seen = job[u].seen /\ job'[u].pc \in {"release", "done"}
    BY <1>1, <1>6, UnlocksPuts, Zenon
  <2>2. CASE w # u
    BY <1>4, <1>6, <2>1, <2>2
  <2>3. CASE w = u
    BY <1>6, <2>1, <2>3 DEF Watching, AnswerSeen
  <2> QED BY <2>2, <2>3
<1>7. ASSUME NEW u \in User, Acknowledges(u), job[u].access.op \notin {"read bias", "read scale"}
      PROVE  Goal
  <2>1. /\ \A z \in User : z # u =>
              /\ job'[z].access = job[z].access /\ job'[z].answer = job[z].answer
              /\ job[z].seen \subseteq job'[z].seen /\ job'[z].pc = job[z].pc
              /\ Setting(job[z].access) = Setting(job[u].access)
                   => job[u].access.value \in job'[z].seen
        /\ job'[u].access = job[u].access /\ job'[u].pc \in {"release", "done"}
    BY <1>1, <1>7, AcknowledgesPuts, Zenon
  <2>2. CASE w # u
    <3>1. /\ job'[w].access = job[w].access /\ job'[w].answer = job[w].answer
          /\ job[w].seen \subseteq job'[w].seen /\ job'[w].pc = job[w].pc
          /\ Setting(job[w].access) = Setting(job[u].access)
               => job[u].access.value \in job'[w].seen
      BY <2>1, <2>2
    <3>2. Setting(job[w].access) \in Type \X ({ScaleKey} \cup Axis)
      BY <1>2, AccessFields
    <3>3. acked' = [acked EXCEPT ![Setting(job[u].access)] = job[u].access.value]
      BY <1>7 DEF Acknowledges
    <3>4. \/ /\ Setting(job[w].access) = Setting(job[u].access)
             /\ acked'[Setting(job[w].access)] = job[u].access.value
          \/ acked'[Setting(job[w].access)] = acked[Setting(job[w].access)]
      BY <1>1, <3>2, <3>3
    <3>5. Watching(w)'
      BY <1>1, <3>1, <3>4 DEF Watching
    <3>6. AnswerSeen(w)'
      BY <1>1, <3>1 DEF AnswerSeen
    <3> QED BY <3>5, <3>6
  <2>3. CASE w = u
    <3>1. /\ job'[w].access.op # "read bias" /\ job'[w].access.op # "read scale"
          /\ job'[w].pc \notin {"claim", "lock", "bus"}
      <4>1. job'[w].access.op = job[u].access.op
        BY <2>1, <2>3, Zenon
      <4>2. job'[w].pc \in {"release", "done"}
        BY <2>1, <2>3, Zenon
      <4> QED BY <1>7, <4>1, <4>2
    <3> QED BY <3>1 DEF Watching, AnswerSeen
  <2> QED BY <2>2, <2>3
<1>8. ASSUME NEW u \in User, Start(u)
      PROVE  Goal
  <2>1. PICK a \in Work :
           /\ \A z \in User : z # u => job'[z] = job[z]
           /\ job'[u].access = a /\ job'[u].answer = NoAnswer /\ job'[u].seen = {acked[Setting(a)]}
    BY <1>1, <1>8, StartPuts, Zenon
  <2>2. acked' = acked
    BY <1>8 DEF Start
  <2>3. CASE w # u
    BY <1>4, <2>1, <2>2, <2>3
  <2>4. CASE w = u
    <3>1. acked'[Setting(job'[w].access)] \in job'[w].seen
      BY <2>1, <2>2, <2>4
    <3> QED BY <2>1, <2>4, <3>1 DEF Watching, AnswerSeen
  <2> QED BY <2>3, <2>4
<1>9. ASSUME NEW u \in User, Claim(u)
      PROVE  Goal
  <2>1. /\ \A z \in User : z # u => job'[z] = job[z]
        /\ job'[u].access = job[u].access /\ job'[u].answer = job[u].answer
        /\ job'[u].seen = job[u].seen
    BY <1>1, <1>9, ClaimPuts, Zenon
  <2>2. acked' = acked /\ job[u].pc = "claim"
    BY <1>9 DEF Claim
  <2> QED BY <1>4, <1>5, <2>1, <2>2
<1>10. ASSUME NEW u \in User, Lock(u)
       PROVE  Goal
  <2>1. /\ \A z \in User : z # u => job'[z] = job[z]
        /\ job'[u].access = job[u].access /\ job'[u].answer = job[u].answer
        /\ job'[u].seen = job[u].seen
    BY <1>1, <1>10, PlacePuts DEF Lock, IioPlaces
  <2>2. acked' = acked /\ job[u].pc = "lock"
    BY <1>10 DEF Lock
  <2> QED BY <1>4, <1>5, <2>1, <2>2
<1>11. ASSUME NEW u \in User, ReleaseMode(u)
       PROVE  Goal
  <2>1. /\ \A z \in User : z # u => job'[z] = job[z]
        /\ job'[u].access = job[u].access /\ job'[u].answer = job[u].answer
        /\ job'[u].seen = job[u].seen /\ job'[u].pc = "done"
    BY <1>1, <1>11, PlacePuts DEF ReleaseMode, IioPlaces
  <2>2. acked' = acked
    BY <1>11 DEF ReleaseMode
  <2> QED BY <1>4, <1>5, <2>1, <2>2
<1>12. ASSUME NEW u \in User, Done(u)
       PROVE  Goal
  <2>1. job'[u] = NoJob /\ (\A z \in User : z # u => job'[z] = job[z]) /\ acked' = acked
    BY <1>1, <1>12, NoIioJob, IioPut DEF Done, IioTypes
  <2>2. CASE w = u
    <3>1. job'[w].pc = "idle" /\ job'[w].answer = NoAnswer
      BY <2>1, <2>2 DEF NoJob
    <3> QED BY <3>1 DEF Watching, AnswerSeen
  <2> QED BY <1>4, <2>1, <2>2
<1>13. ASSUME NEW u \in User, ReadRaw(u)
       PROVE  Goal
  <2>1. PICK answer \in {Ok, Error} : Unlocks(u, answer)
    BY <1>13 DEF ReadRaw
  <2>2. job[u].access.op = "raw" /\ acked' = acked /\ answer \in IioAnswers
    BY <1>3, <1>13 DEF ReadRaw, OnBus
  <2>3. job[u].access.op # "read bias" /\ job[u].access.op # "read scale"
    BY <2>2
  <2> QED BY <1>6, <2>1, <2>2, <2>3, Zenon
<1>14. ASSUME NEW u \in User, ReadScale(u)
       PROVE  Goal
  <2>1. PICK i \in 0..3, failed \in BOOLEAN :
          /\ ~failed => i = ScaleRead(config[job[u].access.type])
          /\ Unlocks(u, [scale |-> i, failed |-> failed])
    BY <1>14 DEF ReadScale
  <2> DEFINE answer == [scale |-> i, failed |-> failed]
             a == job[u].access
  <2>2. answer \in IioAnswers /\ (answer.failed <=> failed) /\ answer.scale = i
    BY DEF IioAnswers
  <2>3. job[u].pc = "bus" /\ a.op = "read scale" /\ acked' = acked
    BY <1>14 DEF ReadScale, OnBus
  <2>4. Setting(a) = <<a.type, ScaleKey>> /\ a.type \in Type
    BY <1>2, <2>3, AccessFields DEF Setting
  <2>5. acked[<<a.type, ScaleKey>>] \in job[u].seen
    BY <1>1, <2>3, <2>4 DEF Watching
  <2>6. ScaleRead(config[a.type]) = acked[<<a.type, ScaleKey>>]
    <3>1. \A n \in 0..3 : ScaleRead(ScaleWritten(n)) = n
      BY DEF ScaleRead, ScaleWritten
    <3>2. config[a.type] = ScaleWritten(acked[<<a.type, ScaleKey>>]) /\ acked[<<a.type, ScaleKey>>] \in 0..3
      BY <1>1, <2>4 DEF Registers
    <3> QED BY <3>1, <3>2, Zenon
  <2>7. answer.failed \/ answer.scale \in job[u].seen
    BY <2>1, <2>2, <2>5, <2>6, Zenon
  <2>8. a.op # "read bias" /\ Unlocks(u, answer)
    BY <2>1, <2>3
  <2> HIDE DEF answer
  <2> QED BY <1>6, <2>2, <2>3, <2>7, <2>8, Zenon
<1>15. ASSUME NEW u \in User, WriteScale(u)
       PROVE  Goal
  <2>1. job[u].access.op \notin {"read bias", "read scale"}
    BY <1>15 DEF WriteScale, OnBus
  <2>2. CASE Acknowledges(u)
    BY <1>7, <2>1, <2>2
  <2>3. CASE Unlocks(u, Error) /\ acked' = acked
    BY <1>3, <1>6, <2>1, <2>3
  <2> QED BY <1>15, <2>2, <2>3 DEF WriteScale
<1>16. ASSUME NEW u \in User, ReadBias(u)
       PROVE  Goal
  <2> DEFINE a == job[u].access
             at == Address(a.type, a.axis)
             answer == [bias |-> Short(offset[at], offset[at + 1])]
  <2>1. Unlocks(u, answer) \/ Unlocks(u, Error)
    BY <1>16, Zenon DEF ReadBias
  <2>2. job[u].pc = "bus" /\ a.op = "read bias" /\ a.op # "read scale" /\ acked' = acked
    BY <1>16 DEF ReadBias, OnBus
  <2>3. Setting(a) = <<a.type, a.axis>> /\ a.type \in Type /\ a.axis \in Axis
    BY <1>2, <2>2, AccessFields DEF Setting
  <2> DEFINE v == acked[<<a.type, a.axis>>]
  <2>4. v \in job[u].seen
    BY <1>1, <2>2, <2>3 DEF Watching
  <2>5. offset[at] = High(v) /\ offset[at + 1] = Low(v)
    BY <1>1, <2>3 DEF Registers
  <2>6. answer = [bias |-> Short(High(v), Low(v))]
    BY <2>5
  <2>7. answer \in IioAnswers
    BY <1>1, BiasAnswer
  <2> HIDE DEF answer, a, v
  <2>8. \E x \in job[u].seen : answer = [bias |-> Short(High(x), Low(x))]
    BY <2>4, <2>6, Zenon
  <2>9. CASE Unlocks(u, answer)
    BY <1>6, <2>2, <2>7, <2>8, <2>9, Zenon DEF a
  <2>10. CASE Unlocks(u, Error)
    BY <1>3, <1>6, <2>2, <2>10, Zenon DEF a
  <2> QED BY <2>1, <2>9, <2>10
<1>17. ASSUME NEW u \in User, WriteBias(u)
       PROVE  Goal
  <2>1. job[u].access.op \notin {"read bias", "read scale"}
    BY <1>17 DEF WriteBias, OnBus
  <2>2. Acknowledges(u) \/ (Unlocks(u, Error) /\ acked' = acked)
    BY <1>17, Zenon DEF WriteBias
  <2>3. CASE Acknowledges(u)
    BY <1>7, <2>1, <2>3
  <2>4. CASE Unlocks(u, Error) /\ acked' = acked
    BY <1>3, <1>6, <2>1, <2>4
  <2> QED BY <2>2, <2>3, <2>4
<1>18. ASSUME NEW u \in User, SetState(u)
       PROVE  Goal
  <2>1. job[u].access.op \notin {"read bias", "read scale"} /\ acked' = acked
    BY <1>18 DEF SetState, Switches
  <2>2. Unlocks(u, Ok) \/ Unlocks(u, Error)
    BY <1>18 DEF SetState
  <2> QED BY <1>3, <1>6, <2>1, <2>2
<1>19. CASE DataReady \/ BeginSession \/ EndSession \/ UNCHANGED iioVars
  BY <1>4, <1>19 DEF DataReady, BeginSession, EndSession, iioVars
<1> QED BY <1>8, <1>9, <1>10, <1>11, <1>12, <1>13, <1>14, <1>15, <1>16, <1>17, <1>18, <1>19
        DEF IioNext

\* Whatever accesses of the users meet under the driver's two locks, the registers
\* hold what was last written, and direct mode is kept but for a stray release.
THEOREM InvarianceIio == IioSpec => []IioInv
<1>1. IioInv /\ [IioNext]_iioVars => IioInv'
  <2> SUFFICES ASSUME IioInv, [IioNext]_iioVars PROVE IioInv'
    OBVIOUS
  <2>1. IioTypes' /\ Registers'
    BY IioTypesInductive, RegistersInductive DEF IioInv
  <2>2. \A u \in User : ModeHeld(u)' /\ Watching(u)' /\ AnswerSeen(u)'
    BY ModeInductive, SeenInductive
  <2> QED BY <2>1, <2>2 DEF IioInv
<1> QED BY <1>1, IioStart, PTL DEF IioSpec

LEMMA IioInvMeans == IioInv => IioTypeOK /\ SettingsKept
<1> SUFFICES ASSUME IioInv PROVE IioTypeOK /\ SettingsKept
  OBVIOUS
<1>1. \A u \in User : ModeHeld(u) /\ AnswerSeen(u)
  BY DEF IioInv
<1>2. DirectModeKept
  BY <1>1 DEF DirectModeKept, ModeHeld
<1>3. BiasReadBack /\ ScaleReadBack
  BY <1>1 DEF BiasReadBack, ScaleReadBack, AnswerSeen
<1> QED BY <1>2, <1>3 DEF IioInv, IioTypes, SettingsKept
-----------------------------------------------------------------------------
(* The clock *)

\* Were the time last set t, it would be by now what the clock makes of it, or
\* less when a probe started the count again.
Kept(t) == /\ meant >= 2 * t + (uptime - begin_time)
           /\ ~rebound => meant = 2 * t + (uptime - begin_time)

\* One setting is half done at most when it is known what was meant.
Meant ==
  meant # Unset =>
    \/ Settled /\ Kept(rtc_time)
    \/ \E d \in Rtc : /\ setting[d] # Unset /\ Kept(setting[d])
                      /\ \A e \in Rtc : e # d => setting[e] = Unset

RtcInv ==
  /\ RtcTypeOK
  /\ meant \in Nat \cup {Unset}
  /\ Meant
  /\ \A d \in Rtc : alone[d] => Settled /\ meant # Unset
  /\ ClockExplained

LEMMA RtcInitInv == RtcInit => RtcInv
<1> SUFFICES ASSUME RtcInit PROVE RtcInv
  OBVIOUS
<1>1. RtcTypeOK
  <2>1. /\ uptime \in 0 .. MaxUptime /\ begin_time \in 0 .. uptime
        /\ now \in [Rtc -> (0 .. uptime) \cup {Unset}] /\ meant \in Int
    BY RtcAssumption DEF RtcInit, Unset
  <2>2. told \in [time : Int, meant : Int, sound : BOOLEAN, rebound : BOOLEAN]
    BY DEF RtcInit
  <2> QED BY <2>1, <2>2 DEF RtcInit, RtcTypeOK
<1> QED BY <1>1 DEF RtcInit, RtcInv, Meant, ClockExplained

LEMMA RtcTypesInductive == RtcInv /\ [RtcNext]_rtcVars => RtcTypeOK' /\ (meant \in Nat \cup {Unset})'
<1> SUFFICES ASSUME RtcInv, [RtcNext]_rtcVars PROVE RtcTypeOK' /\ meant' \in Nat \cup {Unset}
  OBVIOUS
<1>1. RtcTypeOK /\ meant \in Nat \cup {Unset}
  BY DEF RtcInv
<1>2. /\ uptime \in Int /\ begin_time \in Int /\ rtc_time \in Int /\ Times \subseteq Nat
      /\ MaxUptime \in Nat
  BY <1>1, RtcAssumption DEF RtcTypeOK
<1>3. ASSUME NEW d \in Rtc, RtcProbe(d)
      PROVE  RtcTypeOK' /\ meant' \in Nat \cup {Unset}
  BY <1>1, <1>2, <1>3 DEF RtcTypeOK, RtcProbe
<1>4. ASSUME NEW d \in Rtc, RtcRemove(d)
      PROVE  RtcTypeOK' /\ meant' \in Nat \cup {Unset}
  BY <1>1, <1>4 DEF RtcTypeOK, RtcRemove
<1>5. ASSUME NEW d \in Rtc, SetBegin(d)
      PROVE  RtcTypeOK' /\ meant' \in Nat \cup {Unset}
  <2>1. PICK t \in Times : /\ setting' = [setting EXCEPT ![d] = t]
                           /\ meant' = IF Settled THEN 2 * t ELSE Unset
    BY <1>5 DEF SetBegin
  <2>2. meant' \in Nat \cup {Unset} /\ meant' \in Int
    BY <1>2, <2>1 DEF Unset
  <2>3. setting' \in [Rtc -> Times \cup {Unset}]
    BY <1>1, <2>1 DEF RtcTypeOK
  <2>4. begin_time' \in 0 .. uptime' /\ uptime' \in 0 .. MaxUptime /\ now' \in [Rtc -> (0 .. uptime') \cup {Unset}]
    BY <1>1, <1>2, <1>5 DEF RtcTypeOK, SetBegin
  <2>5. alone' \in [Rtc -> BOOLEAN] /\ rebound' \in BOOLEAN
    BY <1>5 DEF SetBegin
  <2>6. /\ rtc_time' \in Times \cup {0} /\ bound' \subseteq Rtc
        /\ told' \in [time : Int, meant : Int, sound : BOOLEAN, rebound : BOOLEAN]
    BY <1>1, <1>5 DEF RtcTypeOK, SetBegin
  <2> QED BY <2>2, <2>3, <2>4, <2>5, <2>6 DEF RtcTypeOK
<1>6. ASSUME NEW d \in Rtc, SetTime(d)
      PROVE  RtcTypeOK' /\ meant' \in Nat \cup {Unset}
  BY <1>1, <1>6 DEF RtcTypeOK, SetTime
<1>7. ASSUME NEW d \in Rtc, ReadNow(d)
      PROVE  RtcTypeOK' /\ meant' \in Nat \cup {Unset}
  <2>1. (Settled /\ meant # Unset) \in BOOLEAN
    BY DEF Settled
  <2>2. alone' \in [Rtc -> BOOLEAN]
    BY <1>1, <1>7, <2>1, Zenon DEF RtcTypeOK, ReadNow
  <2>3. now' \in [Rtc -> (0 .. uptime) \cup {Unset}]
    BY <1>1, <1>2, <1>7 DEF RtcTypeOK, ReadNow
  <2> QED BY <1>1, <1>7, <2>2, <2>3 DEF RtcTypeOK, ReadNow
<1>8. ASSUME NEW d \in Rtc, ReadTime(d)
      PROVE  RtcTypeOK' /\ meant' \in Nat \cup {Unset}
  <2>1. /\ now[d] \in Int /\ meant \in Int /\ alone[d] \in BOOLEAN /\ rebound \in BOOLEAN
    BY <1>1 DEF RtcTypeOK, Unset
  <2>2. rtc_time + timespec_to_ulong(now[d] - begin_time) \in Int /\ meant - (uptime - now[d]) \in Int
    BY <1>2, <2>1 DEF timespec_to_ulong
  <2>3. told' \in [time : Int, meant : Int, sound : BOOLEAN, rebound : BOOLEAN]
    BY <1>8, <2>1, <2>2, Zenon DEF ReadTime
  <2>4. now' \in [Rtc -> (0 .. uptime) \cup {Unset}]
    BY <1>1, <1>8 DEF RtcTypeOK, ReadTime
  <2> QED BY <1>1, <1>8, <2>3, <2>4 DEF RtcTypeOK, ReadTime
<1>9. ASSUME Uptime
      PROVE  RtcTypeOK' /\ meant' \in Nat \cup {Unset}
  <2>1. uptime' \in 0 .. MaxUptime /\ begin_time' \in 0 .. uptime' /\ uptime' = uptime + 1
    BY <1>1, <1>2, <1>9 DEF RtcTypeOK, Uptime
  <2>2. now' \in [Rtc -> (0 .. uptime') \cup {Unset}]
    BY <1>1, <1>2, <1>9, <2>1 DEF RtcTypeOK, Uptime
  <2>3. meant' \in Nat \cup {Unset} /\ meant' \in Int
    BY <1>1, <1>9 DEF Uptime, Unset
  <2> QED BY <1>1, <1>9, <2>1, <2>2, <2>3 DEF RtcTypeOK, Uptime
<1>10. ASSUME UNCHANGED rtcVars
       PROVE  RtcTypeOK' /\ meant' \in Nat \cup {Unset}
  BY <1>1, <1>10 DEF RtcTypeOK, rtcVars
<1> QED BY <1>3, <1>4, <1>5, <1>6, <1>7, <1>8, <1>9, <1>10 DEF RtcNext

LEMMA RtcMeantInductive ==
  ASSUME RtcInv, [RtcNext]_rtcVars
  PROVE  /\ Meant'
         /\ \A d \in Rtc : alone'[d] => Settled' /\ meant' # Unset
<1> DEFINE Goal == /\ Meant'
                   /\ \A d \in Rtc : alone'[d] => Settled' /\ meant' # Unset
<1>1. /\ uptime \in Int /\ begin_time \in Int /\ rtc_time \in Int /\ meant \in Int
      /\ setting \in [Rtc -> Times \cup {Unset}] /\ Times \subseteq Nat /\ alone \in [Rtc -> BOOLEAN]
      /\ begin_time <= uptime /\ rebound \in BOOLEAN /\ meant \in Nat \cup {Unset}
  BY RtcAssumption DEF RtcInv, RtcTypeOK
<1>2. \A d \in Rtc : setting[d] \in Int /\ (setting[d] # Unset => setting[d] \in Times /\ setting[d] \in Nat)
  <2> SUFFICES ASSUME NEW d \in Rtc
               PROVE  setting[d] \in Int /\ (setting[d] # Unset => setting[d] \in Times /\ setting[d] \in Nat)
    OBVIOUS
  <2>1. setting[d] \in Times \cup {Unset}
    BY <1>1, Zenon
  <2>2. CASE setting[d] \in Times
    <3>1. Times \subseteq Nat
      BY <1>1
    <3>2. setting[d] \in Nat
      BY <2>2, <3>1, Zenon
    <3> QED BY <2>2, <3>2
  <2>3. CASE setting[d] = Unset
    BY <2>3 DEF Unset
  <2> QED BY <2>1, <2>2, <2>3, Zenon
<1>3. Meant /\ \A d \in Rtc : alone[d] => Settled /\ meant # Unset
  BY DEF RtcInv
<1>4. ASSUME NEW d \in Rtc, RtcProbe(d)
      PROVE  Goal
  <2>1. /\ begin_time' = uptime /\ uptime' = uptime /\ rebound' = TRUE /\ rtc_time' = rtc_time
        /\ setting' = setting /\ meant' = meant /\ \A e \in Rtc : alone'[e] = FALSE
    BY <1>4 DEF RtcProbe
  <2>2. ASSUME NEW t \in Int, Kept(t)
        PROVE  meant' >= 2 * t + (uptime' - begin_time')
    BY <1>1, <2>1, <2>2 DEF Kept
  <2>3. Meant'
    <3>1. SUFFICES ASSUME meant # Unset PROVE Meant'
      BY <2>1 DEF Meant
    <3>2. CASE Settled /\ Kept(rtc_time)
      BY <1>1, <2>1, <2>2, <3>2 DEF Meant, Settled, Kept
    <3>3. CASE \E e \in Rtc : /\ setting[e] # Unset /\ Kept(setting[e])
                              /\ \A g \in Rtc : g # e => setting[g] = Unset
      <4>1. PICK e \in Rtc : /\ setting[e] # Unset /\ Kept(setting[e])
                             /\ \A g \in Rtc : g # e => setting[g] = Unset
        BY <3>3
      <4>2. meant' >= 2 * setting[e] + (uptime' - begin_time')
        BY <1>2, <2>2, <4>1
      <4> QED BY <2>1, <4>1, <4>2 DEF Meant, Kept
    <3> QED BY <1>3, <3>1, <3>2, <3>3 DEF Meant
  <2> QED BY <2>1, <2>3
<1>5. ASSUME UNCHANGED <<uptime, begin_time, rtc_time, setting, meant, rebound>>
      PROVE  Meant' /\ (Settled' <=> Settled)
  BY <1>3, <1>5 DEF Meant, Settled, Kept
<1>6. ASSUME NEW d \in Rtc, RtcRemove(d)
      PROVE  Goal
  BY <1>3, <1>5, <1>6 DEF RtcRemove
<1>7. ASSUME NEW d \in Rtc, SetBegin(d)
      PROVE  Goal
  <2>1. PICK t \in Times : /\ setting' = [setting EXCEPT ![d] = t]
                           /\ meant' = IF Settled THEN 2 * t ELSE Unset
    BY <1>7 DEF SetBegin
  <2>2. /\ begin_time' = uptime /\ uptime' = uptime /\ t \in Nat
        /\ \A e \in Rtc : alone'[e] = FALSE
    BY <1>1, <1>7 DEF SetBegin
  <2>3. setting'[d] = t /\ \A e \in Rtc : e # d => setting'[e] = setting[e]
    BY <1>1, <2>1
  <2>4. Meant'
    <3>1. SUFFICES ASSUME meant' # Unset PROVE Meant'
      BY DEF Meant
    <3>2. Settled /\ meant' = 2 * t
      BY <2>1, <3>1
    <3>3. t # Unset /\ meant' >= 2 * t + (uptime' - begin_time') /\ meant' = 2 * t + (uptime' - begin_time')
      BY <1>1, <2>2, <3>2 DEF Unset
    <3>4. \A e \in Rtc : e # d => setting'[e] = Unset
      BY <2>3, <3>2 DEF Settled
    <3> QED BY <2>3, <3>3, <3>4 DEF Meant, Kept
  <2> QED BY <2>2, <2>4
<1>8. ASSUME NEW d \in Rtc, SetTime(d)
      PROVE  Goal
  <2>1. /\ setting[d] # Unset /\ rtc_time' = setting[d] /\ setting' = [setting EXCEPT ![d] = Unset]
        /\ uptime' = uptime /\ begin_time' = begin_time /\ meant' = meant /\ rebound' = rebound
        /\ alone' = alone
    BY <1>8 DEF SetTime
  <2>2. setting'[d] = Unset /\ \A e \in Rtc : e # d => setting'[e] = setting[e]
    BY <1>1, <2>1
  <2>3. \A e \in Rtc : ~alone[e]
    BY <1>3, <2>1 DEF Settled
  <2>4. Meant'
    <3>1. SUFFICES ASSUME meant # Unset PROVE Meant'
      BY <2>1 DEF Meant
    <3>2. Kept(setting[d]) /\ \A e \in Rtc : e # d => setting[e] = Unset
      BY <1>3, <2>1, <3>1 DEF Meant, Settled
    <3>3. Settled'
      BY <2>2, <3>2 DEF Settled
    <3>4. Kept(rtc_time)'
      BY <2>1, <3>2 DEF Kept
    <3> QED BY <3>3, <3>4 DEF Meant
  <2> QED BY <2>1, <2>3, <2>4
<1>9. ASSUME NEW d \in Rtc, ReadNow(d)
      PROVE  Goal
  <2>1. Meant' /\ (Settled' <=> Settled) /\ meant' = meant
    BY <1>5, <1>9 DEF ReadNow
  <2>2. alone' = [alone EXCEPT ![d] = Settled /\ meant # Unset]
    BY <1>9 DEF ReadNow
  <2>3. ASSUME NEW e \in Rtc, alone'[e]
        PROVE  Settled /\ meant # Unset
    <3>1. CASE e = d
      <4>1. alone'[e] = (Settled /\ meant # Unset)
        BY <1>1, <2>2, <3>1, Zenon
      <4> QED BY <2>3, <4>1
    <3>2. CASE e # d
      <4>1. alone'[e] = alone[e]
        BY <1>1, <2>2, <3>2
      <4> QED BY <1>3, <2>3, <4>1
    <3> QED BY <3>1, <3>2
  <2> QED BY <2>1, <2>3
<1>10. ASSUME NEW d \in Rtc, ReadTime(d)
       PROVE  Goal
  BY <1>3, <1>5, <1>10 DEF ReadTime
<1>11. ASSUME Uptime
       PROVE  Goal
  <2>1. /\ uptime' = uptime + 1 /\ begin_time' = begin_time /\ rtc_time' = rtc_time
        /\ setting' = setting /\ rebound' = rebound /\ alone' = alone
        /\ meant' = IF meant = Unset THEN Unset ELSE meant + 1
    BY <1>11 DEF Uptime
  <2>2. meant # Unset => meant' = meant + 1 /\ meant' # Unset
    BY <1>1, <2>1 DEF Unset
  <2>3. ASSUME NEW t \in Int, Kept(t), meant # Unset
        PROVE  /\ meant' >= 2 * t + (uptime' - begin_time')
               /\ ~rebound' => meant' = 2 * t + (uptime' - begin_time')
    BY <1>1, <2>1, <2>2, <2>3 DEF Kept
  <2>4. Meant'
    <3>1. SUFFICES ASSUME meant # Unset PROVE Meant'
      BY <2>1 DEF Meant
    <3>2. CASE Settled /\ Kept(rtc_time)
      BY <1>1, <2>1, <2>3, <3>1, <3>2 DEF Meant, Settled, Kept
    <3>3. CASE \E e \in Rtc : /\ setting[e] # Unset /\ Kept(setting[e])
                              /\ \A g \in Rtc : g # e => setting[g] = Unset
      <4>1. PICK e \in Rtc : /\ setting[e] # Unset /\ Kept(setting[e])
                             /\ \A g \in Rtc : g # e => setting[g] = Unset
        BY <3>3
      <4>2. /\ meant' >= 2 * setting[e] + (uptime' - begin_time')
            /\ ~rebound' => meant' = 2 * setting[e] + (uptime' - begin_time')
        BY <1>2, <2>3, <3>1, <4>1
      <4> QED BY <2>1, <4>1, <4>2 DEF Meant, Kept
    <3> QED BY <1>3, <3>1, <3>2, <3>3 DEF Meant
  <2> QED BY <1>3, <2>1, <2>2, <2>4 DEF Settled
<1>12. ASSUME UNCHANGED rtcVars
       PROVE  Goal
  BY <1>3, <1>5, <1>12 DEF rtcVars
<1> QED BY <1>4, <1>6, <1>7, <1>8, <1>9, <1>10, <1>11, <1>12 DEF RtcNext

LEMMA ClockInductive == RtcInv /\ [RtcNext]_rtcVars => ClockExplained'
<1> SUFFICES ASSUME RtcInv, [RtcNext]_rtcVars PROVE ClockExplained'
  OBVIOUS
<1>1. told' = told => ClockExplained'
  BY DEF RtcInv, ClockExplained
<1>2. ASSUME NEW d \in Rtc, ReadTime(d)
      PROVE  ClockExplained'
  <2>1. told' = [time    |-> rtc_time + timespec_to_ulong(now[d] - begin_time),
                 meant   |-> meant - (uptime - now[d]),
                 sound   |-> alone[d],
                 rebound |-> rebound]
    BY <1>2 DEF ReadTime
  <2>2. /\ told'.time = rtc_time + timespec_to_ulong(now[d] - begin_time)
        /\ told'.meant = meant - (uptime - now[d])
        /\ told'.sound = alone[d] /\ told'.rebound = rebound
    BY <2>1, Zenon
  <2>3. SUFFICES ASSUME alone[d]
                 PROVE  /\ 2 * told'.time <= told'.meant + 1
                        /\ ~rebound => 2 * told'.time >= told'.meant
    BY <2>2 DEF ClockExplained
  <2>4. /\ uptime \in Int /\ begin_time \in Int /\ rtc_time \in Int /\ meant \in Int /\ now[d] \in Int
    BY RtcAssumption DEF RtcInv, RtcTypeOK, Unset
  <2>5. Kept(rtc_time)
    BY <2>3 DEF RtcInv, Meant, Settled
  <2>6. PICK n \in Int : n = now[d] - begin_time
    BY <2>4
  <2>7. 2 * ((n + 1) \div 2) <= n + 1 /\ 2 * ((n + 1) \div 2) >= n
    OBVIOUS
  <2>8. /\ told'.time = rtc_time + ((n + 1) \div 2)
        /\ told'.meant = meant - (uptime - now[d])
    BY <2>2, <2>6 DEF timespec_to_ulong
  <2>9. PICK h \in Int : h = (n + 1) \div 2
    OBVIOUS
  <2>10. /\ meant >= 2 * rtc_time + (uptime - begin_time)
         /\ ~rebound => meant = 2 * rtc_time + (uptime - begin_time)
    BY <2>5 DEF Kept
  <2>11. told'.time = rtc_time + h /\ 2 * h <= n + 1 /\ 2 * h >= n
    BY <2>7, <2>8, <2>9
  <2>12. 2 * told'.time <= told'.meant + 1
    BY <2>4, <2>6, <2>8, <2>10, <2>11
  <2>13. ~rebound => 2 * told'.time >= told'.meant
    BY <2>4, <2>6, <2>8, <2>10, <2>11
  <2> QED BY <2>12, <2>13
<1> QED BY <1>1, <1>2 DEF RtcNext, RtcProbe, RtcRemove, SetBegin, SetTime, ReadNow, Uptime, rtcVars

\* Whatever order the clocks are probed, removed, set and read in
\* (fake_rtc_set_time, fake_rtc_read_time), the time told keeps to the time set.
THEOREM InvarianceClock == RtcSpec => []RtcInv
<1>1. RtcInv /\ [RtcNext]_rtcVars => RtcInv'
  BY RtcTypesInductive, RtcMeantInductive, ClockInductive DEF RtcInv
<1> QED BY <1>1, RtcInitInv, PTL DEF RtcSpec

-----------------------------------------------------------------------------
(* The five readers together: each behaviour is of one of them, and the      *)
(* variables of the others stay as they are.                                 *)

MCVars == <<ubxVars, logVars, sensorVars, iioVars, rtcVars, part>>

LEMMA FirstStates ==
  ASSUME MCInit
  PROVE  UbxInit /\ LogInit /\ SensorInit /\ IioInit /\ RtcInit
BY Zenon DEF MCInit

LEMMA OneReaderMoves ==
  ASSUME [MCNext]_MCVars
  PROVE  /\ [UbxNext]_ubxVars /\ [LogNext]_logVars /\ [SensorNext]_sensorVars
         /\ [IioNext]_iioVars /\ [RtcNext]_rtcVars
<1>1. CASE UNCHANGED MCVars
  BY <1>1 DEF MCVars
<1>2. CASE MCNext
  BY <1>2 DEF MCNext
<1> QED BY <1>1, <1>2

\* Every behaviour of the five is one of each, so that each one's invariant holds.
THEOREM ReadersInvariant ==
  MCSpec => [](UbxInv /\ LogInv /\ SensorInv /\ IioInv /\ RtcInv)
<1>1. MCInit => UbxInit /\ LogInit /\ SensorInit /\ IioInit /\ RtcInit
  BY FirstStates
<1>2. [MCNext]_MCVars => /\ [UbxNext]_ubxVars /\ [LogNext]_logVars /\ [SensorNext]_sensorVars
                         /\ [IioNext]_iioVars /\ [RtcNext]_rtcVars
  BY OneReaderMoves
<1>3. MCSpec => UbxSpec /\ LogSpec /\ SensorSpec /\ IioSpec /\ RtcSpec
  BY <1>1, <1>2, PTL DEF MCSpec, MCVars, UbxSpec, LogSpec, SensorSpec, IioSpec, RtcSpec
<1> QED BY <1>3, InvariancePoll, InvarianceLog, InvarianceSensor, InvarianceIio, InvarianceClock, PTL

\* Every variable of the five components holds a value of its type.
THEOREM ReadersTypes == MCSpec => []ReadersTypeOK
<1>1. UbxInv /\ LogInv /\ SensorInv /\ IioInv /\ RtcInv => ReadersTypeOK
  <2>1. UbxInv => UbxTypeOK
    BY DEF UbxInv, UbxTypes
  <2>2. RtcInv => RtcTypeOK
    BY DEF RtcInv
  <2> QED BY <2>1, <2>2, LogInvMeans, SensorInvMeans, IioInvMeans DEF ReadersTypeOK
<1> QED BY <1>1, ReadersInvariant, PTL

\* A poll is filed an answer to its class and id, from itself or, when an answer
\* was late or a NAK was taken for another's, from an earlier poll (poll_ubx_data);
\* one that heard nothing was missed for a reason, and no frame runs over its buffer.
THEOREM PollsExplained == MCSpec => []PollExplained
BY UbxInvMeans, ReadersInvariant, PTL

\* Logged data is lost only to a name opened twice or a rotation that removes what
\* gzip is writing, files stay near log_size, and the directory at MAX_FILES unless a
\* rotation met a gzip, power was lost or a start left a file (gnss_log_record,
\* log_rotate).
THEOREM LogsExplained == MCSpec => []LogExplained
BY LogInvMeans, ReadersInvariant, PTL

\* What one read() or show() hands out of the ICM-20608 or the AP3216C mixes samples,
\* or is older than the call, only for the reasons each driver's code gives (the bytes
\* read one by one, a failed transfer, fields shared with another call), and the clock
\* tells the time set, counted up and rounded (fake_rtc_read_time).
THEOREM AnswersAreExplained == MCSpec => []AnswersExplained
<1>1. RtcInv => ClockExplained
  BY DEF RtcInv
<1> QED BY <1>1, SensorInvMeans, ReadersInvariant, PTL DEF AnswersExplained

\* The buffer is not switched on under an access that was granted direct mode, but
\* for a mutex released by one that was refused; a bias that is read is the last one
\* written, before or during the access, and so is a scale whose register could be
\* read (icm20608_read_raw, icm20608_write_raw).
THEOREM SettingsAreKept == MCSpec => []SettingsKept
BY IioInvMeans, ReadersInvariant, PTL

=============================================================================
