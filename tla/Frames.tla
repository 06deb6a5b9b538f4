-------------------------------- MODULE Frames --------------------------------
(***************************************************************************)
(* The bytes of a packet on their way from the server's TUN device to the  *)
(* client's: the buffer it is read into, behind a header of PKT_OFFSET     *)
(* bytes; the datagram, whole, or K data and N parity shards of FEC_RS_T   *)
(* bytes each; the receive buffers of BUFFER_SIZE bytes that recvmmsg      *)
(* fills, a batch at a time, over what was in them; and the length that is *)
(* written.  All buffers are used again and again and never cleared.       *)
(*                                                                         *)
(* A byte is <<n, p>>, byte p of packet n; one of a parity row is the      *)
(* column it was coded from.  Numbers are not used up here, copies not     *)
(* filtered and the receiver is one thread: Downlink and FecLink have the  *)
(* rest.                                                                   *)
(***************************************************************************)
EXTENDS Integers, Sequences, FiniteSets

CONSTANTS
  FEC_RS_K, FEC_RS_N, FEC_RS_T,    \* rows of data, of parity, bytes of a row (2, 1, 750)
  BUFFER_SIZE, PKT_OFFSET,         \*                                     (1500, 8)
  PKG_FEC_ENCODE_MIN_LEN,          \*                                     (1200)
  UDP_RBATCH_SIZE,                 \* receive buffers                     (16)
  PacketLen,                       \* bound: the lengths of packets
  MaxFrames,                       \* bound: packets
  Unset                            \* what no packet left in a buffer

ASSUME FramesAssumption ==
  /\ {FEC_RS_K, FEC_RS_N, FEC_RS_T, BUFFER_SIZE, UDP_RBATCH_SIZE} \subseteq Nat \ {0}
  /\ PKT_OFFSET \in 0 .. BUFFER_SIZE
  /\ FEC_RS_K * FEC_RS_T >= BUFFER_SIZE /\ FEC_RS_T <= BUFFER_SIZE - PKT_OFFSET
  /\ PacketLen \subseteq 1 .. BUFFER_SIZE /\ MaxFrames \in Nat

FrameRows == FEC_RS_K + FEC_RS_N
FrameRow == 0 .. (FrameRows - 1)
Offset == 0 .. (FEC_RS_T - 1)

VARIABLES
  gl_fec,     \* the server was started with -f
  lengths,    \* history: the lengths of the packets so far
  payload,    \* the payload of the buffer packets are read into: row by row
  wire,       \* datagrams in the network
  rbuf,       \* the client's receive buffers
  filled,     \* how many of them the last recvmmsg filled
  slot,       \* the one at hand; 0 while recvmmsg runs
  entry,      \* fec_dedup_state, by packet
  out         \* history: what was written for each packet

frameVars == <<gl_fec, lengths, payload, wire, rbuf, filled, slot, entry, out>>

\* Bytes a .. b-1 of the rows of a buffer laid end to end.
RowBytes(rows, b) == [p \in 1 .. b |-> rows[(p - 1) \div FEC_RS_T][(p - 1) % FEC_RS_T]]
Clear == [r \in FrameRow |-> [c \in Offset |-> Unset]]

FramesInit ==
  /\ gl_fec \in BOOLEAN /\ lengths = <<>> /\ payload = Clear /\ wire = {}
  /\ rbuf = [s \in 1 .. UDP_RBATCH_SIZE |-> [n |-> 0, row |-> 0, fec |-> FALSE, plen |-> 0,
               len |-> 0, bytes |-> [p \in 1 .. (BUFFER_SIZE - PKT_OFFSET) |-> Unset]]]
  /\ filled = 0 /\ slot = 0
  /\ entry = [n \in 1 .. MaxFrames |->
                [plen |-> 0, cnt |-> 0, marks |-> [r \in FrameRow |-> TRUE], buf |-> Clear]]
  /\ out = [n \in 1 .. MaxFrames |-> <<>>]

-----------------------------------------------------------------------------
(* The server *)

\* The TUN device's packet is read over the beginning of the payload; behind it
\* lies what earlier packets left.
AfterRead(n, len) ==
  [r \in FrameRow |-> [c \in Offset |->
     LET p == r * FEC_RS_T + c + 1 IN IF p <= len THEN <<n, p>> ELSE payload[r][c]]]

\* Long packets are encoded, with -f.
IsFec(len) == gl_fec /\ len > PKG_FEC_ENCODE_MIN_LEN

\* reed_solomon_encode fills the parity rows from the data rows, all of them.
EncodedRows(rows) ==
  [r \in FrameRow |-> IF r < FEC_RS_K THEN rows[r]
     ELSE [c \in Offset |-> <<r, [i \in 0 .. (FEC_RS_K - 1) |-> rows[i][c]]>>]]

\* The packets of the batch: each a header and one row.
Shards(n, len, rows) ==
  {[n |-> n, row |-> r, fec |-> TRUE, plen |-> len, bytes |-> RowBytes([x \in {0} |-> rows[r]], FEC_RS_T)]
     : r \in FrameRow}

SendFrame ==
  /\ Len(lengths) < MaxFrames
  /\ \E len \in PacketLen :
       LET n == Len(lengths) + 1   rows == AfterRead(n, len) IN
       /\ lengths' = Append(lengths, len)
       /\ IF IsFec(len)
            THEN payload' = EncodedRows(rows) /\ wire' = wire \cup Shards(n, len, EncodedRows(rows))
            ELSE /\ payload' = rows
                 /\ wire' = wire \cup {[n |-> n, row |-> 0, fec |-> FALSE, plen |-> len,
                                        bytes |-> RowBytes(rows, len)]}
  /\ UNCHANGED <<gl_fec, rbuf, filled, slot, entry, out>>

-----------------------------------------------------------------------------
(* The client's receiver thread *)

\* recvmmsg puts datagrams into the buffers in turn, each cut to the length of its
\* buffer, and leaves the rest of the buffer as it was.
Cut(len) == IF PKT_OFFSET + len <= BUFFER_SIZE THEN len ELSE BUFFER_SIZE - PKT_OFFSET

Arrive(d) ==
  /\ slot = 0 /\ filled < UDP_RBATCH_SIZE
  /\ filled' = filled + 1
  /\ rbuf' = [rbuf EXCEPT ![filled'] =
       [n |-> d.n, row |-> d.row, fec |-> d.fec, plen |-> d.plen,
        len |-> PKT_OFFSET + Cut(Len(d.bytes)),
        bytes |-> [p \in DOMAIN @.bytes |->
                     IF p <= Cut(Len(d.bytes)) THEN d.bytes[p] ELSE @.bytes[p]]]]
  /\ wire' = wire \ {d}
  /\ UNCHANGED <<gl_fec, lengths, payload, slot, entry, out>>

Recvmmsg ==
  /\ slot = 0 /\ filled > 0 /\ slot' = 1
  /\ UNCHANGED <<gl_fec, lengths, payload, wire, rbuf, filled, entry, out>>

\* fec_recv_done: the row is stored whole, whatever the datagram's length; rows
\* over the K-th are not looked at.
FrameStored(e, m) ==
  [e EXCEPT !.plen = m.plen, !.cnt = @ + 1, !.marks[m.row] = FALSE,
            !.buf[m.row] = [c \in Offset |-> m.bytes[c + 1]]]

\* A missing data row is computed, column by column, from a parity row, if the
\* columns that one was coded from are those of the rows that came.
DecodedRows(e) ==
  LET here == {r \in FrameRow : ~e.marks[r]}
      Coded(r, c) == e.buf[r][c][2]
      Fits(r, c) == \A i \in here : i < FEC_RS_K => Coded(r, c)[i] = e.buf[i][c]
  IN [r \in FrameRow |-> IF r >= FEC_RS_K \/ r \in here THEN e.buf[r]
        ELSE [c \in Offset |->
                LET p == CHOOSE q \in here : q >= FEC_RS_K
                IN IF Fits(p, c) THEN Coded(p, c)[r] ELSE Unset]]

\* Mutant: a decoded packet is written with the length of the last datagram.
WrittenDatagram(m, e) == RowBytes(DecodedRows(e), m.len - PKT_OFFSET)

\* A decoded packet is written with the length from its header.
Written(m, e) == RowBytes(DecodedRows(e), e.plen)

HandleFrame ==
  LET m == rbuf[slot]
      e == FrameStored(entry[m.n], m)
  IN
  /\ slot > 0
  /\ IF ~m.fec
       THEN out' = [out EXCEPT ![m.n] = SubSeq(m.bytes, 1, m.len - PKT_OFFSET)] /\ UNCHANGED entry
     ELSE IF entry[m.n].cnt >= FEC_RS_K THEN UNCHANGED <<entry, out>>
     ELSE /\ entry' = [entry EXCEPT ![m.n] = e]
          /\ out' = IF e.cnt < FEC_RS_K THEN out ELSE [out EXCEPT ![m.n] = Written(m, e)]
  /\ IF slot < filled THEN slot' = slot + 1 /\ UNCHANGED filled ELSE slot' = 0 /\ filled' = 0
  /\ UNCHANGED <<gl_fec, lengths, payload, wire, rbuf>>

FramesNext == SendFrame \/ (\E d \in wire : Arrive(d)) \/ Recvmmsg \/ (slot > 0 /\ HandleFrame)

FramesSpec == FramesInit /\ [][FramesNext]_frameVars

-----------------------------------------------------------------------------
(* Properties *)

FramesTypeOK ==
  /\ gl_fec \in BOOLEAN /\ filled \in 0 .. UDP_RBATCH_SIZE /\ slot \in 0 .. filled
  /\ lengths \in Seq(PacketLen) /\ Len(lengths) <= MaxFrames
  /\ \A n \in DOMAIN out : Len(out[n]) <= BUFFER_SIZE
  /\ DOMAIN payload = FrameRow

\* What is written for a packet is that packet, byte for byte and no longer, in
\* spite of what earlier packets left in the buffers it went through; but a packet
\* sent whole that is longer than a receive buffer less the header is cut there.
FramesExplained ==
  \A n \in DOMAIN lengths :
    LET len == IF IsFec(lengths[n]) THEN lengths[n] ELSE Cut(lengths[n]) IN
    out[n] # <<>> => out[n] = [p \in 1 .. len |-> <<n, p>>]
=============================================================================
