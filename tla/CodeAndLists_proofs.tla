-------------------------- MODULE CodeAndLists_proofs --------------------------
(***************************************************************************)
(* The sequential parts of the tunnel: what is proved of the packets'      *)
(* buffers (Frames), of the row operations of the code (Oblas), of its     *)
(* matrices and shards (ReedSolomon), and of the two kinds of linked list  *)
(* (IhList, IhHlist).                                                      *)
(***************************************************************************)
EXTENDS MCCodeAndLists, FiniteSetTheorems, SequenceTheorems, TLAPS

-----------------------------------------------------------------------------
(* Frames: rows, datagrams, slots and entries *)

DataRow == 0 .. (FEC_RS_K - 1)

\* The rows of a buffer that packet n of len bytes was read into; with its parity
\* rows, if it was encoded.
HoldsPacket(y, n, len) ==
  \A r \in DataRow, c \in Offset :
    r * FEC_RS_T + c + 1 <= len => y[r][c] = <<n, r * FEC_RS_T + c + 1>>
HoldsParity(y) ==
  \A r \in FrameRow \ DataRow, c \in Offset : y[r][c] = <<r, [i \in DataRow |-> y[i][c]]>>

\* The bytes of a packet, as far as they are written.
PacketBytes(n, size) == [p \in 1 .. size |-> <<n, p>>]

\* The rows of a packet that came.
Here(e) == {r \in FrameRow : ~e.marks[r]}

-----------------------------------------------------------------------------
(* Bytes and rows *)

\* The constants.
LEMMA FrameConstants ==
  /\ FEC_RS_K \in Nat \ {0} /\ FEC_RS_N \in Nat \ {0} /\ FEC_RS_T \in Nat \ {0}
  /\ BUFFER_SIZE \in Nat \ {0} /\ UDP_RBATCH_SIZE \in Nat \ {0} /\ MaxFrames \in Nat
  /\ PKT_OFFSET \in Nat /\ PKT_OFFSET <= BUFFER_SIZE
  /\ FEC_RS_T <= BUFFER_SIZE - PKT_OFFSET
  /\ FEC_RS_K * FEC_RS_T >= BUFFER_SIZE
  /\ PacketLen \subseteq 1 .. BUFFER_SIZE
BY FramesAssumption

\* A byte of a packet has a place in a data row.
LEMMA PlaceOf ==
  ASSUME NEW p \in Nat, 1 <= p, p <= BUFFER_SIZE
  PROVE  /\ (p - 1) \div FEC_RS_T \in DataRow
         /\ (p - 1) % FEC_RS_T \in Offset
         /\ p = ((p - 1) \div FEC_RS_T) * FEC_RS_T + ((p - 1) % FEC_RS_T) + 1
<1> DEFINE r == (p - 1) \div FEC_RS_T
           c == (p - 1) % FEC_RS_T
<1>1. p - 1 \in Nat /\ FEC_RS_T \in Nat \ {0}
  BY FrameConstants
<1>2. r \in Nat /\ c \in 0 .. (FEC_RS_T - 1) /\ p - 1 = (FEC_RS_T * r) + c
  BY <1>1, SMT
<1> HIDE DEF r, c
<1>3. FEC_RS_K \in Nat /\ FEC_RS_T \in Nat /\ p - 1 < FEC_RS_K * FEC_RS_T
  BY FrameConstants
<1>4. ~(r >= FEC_RS_K)
  <2>1. SUFFICES ASSUME r >= FEC_RS_K PROVE FALSE
    OBVIOUS
  <2>2. FEC_RS_T * r >= FEC_RS_K * FEC_RS_T
    BY <1>2, <1>3, <2>1, SMT
  <2> QED BY <1>2, <1>3, <2>2, SMT
<1>5. p = (r * FEC_RS_T) + c + 1
  BY <1>1, <1>2, SMT
<1> QED BY <1>2, <1>3, <1>4, <1>5 DEF r, c, DataRow, Offset

\* K rows of which one of the data rows is missing hold a parity row.
LEMMA ParityHere ==
  ASSUME NEW H \in SUBSET FrameRow, Cardinality(H) = FEC_RS_K,
         NEW r \in DataRow, r \notin H
  PROVE  \E q \in H : q >= FEC_RS_K
<1>1. SUFFICES ASSUME \A q \in H : ~(q >= FEC_RS_K) PROVE FALSE
  OBVIOUS
<1>2. H \subseteq DataRow \ {r}
  BY <1>1, FrameConstants DEF FrameRow, FrameRows, DataRow
<1>3. IsFiniteSet(DataRow) /\ Cardinality(DataRow) = FEC_RS_K
  <2> DEFINE b == FEC_RS_K - 1
  <2>1. b \in Int /\ ~(0 > b) /\ b - 0 + 1 = FEC_RS_K
    BY FrameConstants
  <2> HIDE DEF b
  <2>2. IsFiniteSet(0 .. b) /\ Cardinality(0 .. b) = IF 0 > b THEN 0 ELSE b - 0 + 1
    BY <2>1, FS_Interval
  <2> QED BY <2>1, <2>2 DEF b, DataRow
<1>4. IsFiniteSet(DataRow \ {r}) /\ Cardinality(DataRow \ {r}) = FEC_RS_K - 1
  BY <1>3, FS_RemoveElement
<1>5. Cardinality(H) <= Cardinality(DataRow \ {r})
  BY <1>2, <1>4, FS_Subset
<1>6. IsFiniteSet(H)
  BY <1>2, <1>4, FS_Subset
<1>7. Cardinality(H) \in Nat
  BY <1>6, FS_CardinalityType
<1> QED BY <1>4, <1>5, FrameConstants

\* From K rows of a packet the decoder has every data row as it was sent.
LEMMA DecodedDataRows ==
  ASSUME NEW e, NEW y, HoldsParity(y), Cardinality(Here(e)) = FEC_RS_K,
         \A r \in Here(e), c \in Offset : e.buf[r][c] = y[r][c],
         NEW r \in DataRow, NEW c \in Offset
  PROVE  DecodedRows(e)[r][c] = y[r][c]
<1> DEFINE here == Here(e)
           p == CHOOSE q \in here : q >= FEC_RS_K
           Coded(q) == e.buf[q][c][2]
           Fits(q) == \A i \in here : i < FEC_RS_K => Coded(q)[i] = e.buf[i][c]
<1>1. r \in FrameRow /\ ~(r >= FEC_RS_K)
  BY FrameConstants DEF DataRow, FrameRow, FrameRows
<1>2. DecodedRows(e)[r][c] = IF r \in here THEN e.buf[r][c]
                             ELSE IF Fits(p) THEN Coded(p)[r] ELSE Unset
  BY <1>1 DEF DecodedRows, Here
<1>3. CASE r \in here
  BY <1>2, <1>3
<1>4. CASE r \notin here
  <2>1. here \in SUBSET FrameRow
    BY DEF Here
  <2>2. p \in here /\ p >= FEC_RS_K
    <3>1. \E q \in here : q >= FEC_RS_K
      BY <1>4, <2>1, ParityHere
    <3> QED BY <3>1
  <2> HIDE DEF p, here
  <2>3. p \in FrameRow \ DataRow
    BY <2>1, <2>2, FrameConstants DEF DataRow, FrameRow, FrameRows
  <2>4. e.buf[p][c] = <<p, [i \in DataRow |-> y[i][c]]>>
    <3>1. y[p][c] = <<p, [i \in DataRow |-> y[i][c]]>>
      BY <2>3 DEF HoldsParity
    <3> QED BY <2>2, <3>1 DEF here
  <2>5. Coded(p) = [i \in DataRow |-> y[i][c]]
    BY <2>4
  <2>6. Fits(p)
    <3>1. SUFFICES ASSUME NEW i \in here, i < FEC_RS_K PROVE Coded(p)[i] = e.buf[i][c]
      OBVIOUS
    <3>2. i \in DataRow
      BY <2>1, <3>1, FrameConstants DEF DataRow, FrameRow, FrameRows
    <3>3. e.buf[i][c] = y[i][c]
      BY DEF here
    <3> QED BY <2>5, <3>2, <3>3
  <2>7. DecodedRows(e)[r][c] = Coded(p)[r]
    BY <1>2, <1>4, <2>6
  <2> QED BY <2>5, <2>7
<1> QED BY <1>3, <1>4

\* ... and what is written from them is the packet.
LEMMA WrittenIsPacket ==
  ASSUME NEW e, NEW m, NEW y, NEW n, NEW len \in 1 .. BUFFER_SIZE,
         HoldsParity(y), HoldsPacket(y, n, len), Cardinality(Here(e)) = FEC_RS_K,
         \A r \in Here(e), c \in Offset : e.buf[r][c] = y[r][c],
         e.plen = len
  PROVE  Written(m, e) = PacketBytes(n, len)
<1>1. SUFFICES ASSUME NEW p \in 1 .. len
               PROVE  DecodedRows(e)[(p - 1) \div FEC_RS_T][(p - 1) % FEC_RS_T] = <<n, p>>
  BY DEF Written, RowBytes, PacketBytes
<1> DEFINE r == (p - 1) \div FEC_RS_T
           c == (p - 1) % FEC_RS_T
<1>2. p \in Nat /\ 1 <= p /\ p <= BUFFER_SIZE /\ p <= len
  BY FrameConstants
<1>3. r \in DataRow /\ c \in Offset /\ p = r * FEC_RS_T + c + 1
  BY <1>2, PlaceOf
<1> HIDE DEF r, c
<1>4. DecodedRows(e)[r][c] = y[r][c]
  BY <1>3, DecodedDataRows
<1>5. y[r][c] = <<n, p>>
  BY <1>2, <1>3 DEF HoldsPacket
<1> QED BY <1>4, <1>5 DEF r, c

-----------------------------------------------------------------------------
(* The invariant *)

\* Buffers filled by recvmmsg and not looked at yet.
Pending == {s \in 1 .. filled : s >= slot}

EntryShape(e) ==
  /\ e = [plen |-> e.plen, cnt |-> e.cnt, marks |-> e.marks, buf |-> e.buf]
  /\ e.cnt \in Nat
  /\ e.marks \in [FrameRow -> BOOLEAN]
  /\ e.buf = [r \in FrameRow |-> e.buf[r]]

SlotShape(m) == DOMAIN m.bytes = 1 .. (BUFFER_SIZE - PKT_OFFSET)

Types ==
  /\ filled \in 0 .. UDP_RBATCH_SIZE /\ slot \in 0 .. filled
  /\ lengths \in Seq(PacketLen) /\ Len(lengths) <= MaxFrames
  /\ gl_fec \in BOOLEAN
  /\ DOMAIN payload = FrameRow
  /\ DOMAIN rbuf = 1 .. UDP_RBATCH_SIZE
  /\ \A s \in 1 .. UDP_RBATCH_SIZE : SlotShape(rbuf[s])
  /\ DOMAIN entry = 1 .. MaxFrames /\ DOMAIN out = 1 .. MaxFrames
  /\ \A n \in 1 .. MaxFrames : EntryShape(entry[n])

\* img[n] is the payload packet n was sent from.
ImagesOK(img) ==
  \A n \in DOMAIN lengths :
    IsFec(lengths[n]) => HoldsPacket(img[n], n, lengths[n]) /\ HoldsParity(img[n])

\* A shard's row, and a whole packet's bytes, as they were sent.
ShardOK(d, img) ==
  /\ IsFec(lengths[d.n]) /\ d.row \in FrameRow
  /\ \A c \in Offset : d.bytes[c + 1] = img[d.n][d.row][c]
WholeOK(d, size) ==
  /\ ~IsFec(lengths[d.n])
  /\ \A p \in 1 .. size : d.bytes[p] = <<d.n, p>>

WireOK(img) ==
  \A d \in wire :
    /\ d.n \in DOMAIN lengths /\ d.plen = lengths[d.n]
    /\ \/ d.fec /\ ShardOK(d, img) /\ Len(d.bytes) = FEC_RS_T
       \/ ~d.fec /\ WholeOK(d, lengths[d.n]) /\ Len(d.bytes) = lengths[d.n]

SlotsOK(img) ==
  \A s \in Pending :
    /\ rbuf[s].n \in DOMAIN lengths /\ rbuf[s].plen = lengths[rbuf[s].n]
    /\ \/ rbuf[s].fec /\ ShardOK(rbuf[s], img)
       \/ /\ ~rbuf[s].fec /\ WholeOK(rbuf[s], Cut(lengths[rbuf[s].n]))
          /\ rbuf[s].len = PKT_OFFSET + Cut(lengths[rbuf[s].n])

EntriesOK(img) ==
  \A n \in 1 .. MaxFrames :
    /\ entry[n].cnt = Cardinality(Here(entry[n]))
    /\ n \in DOMAIN lengths =>
         \A r \in Here(entry[n]), c \in Offset : entry[n].buf[r][c] = img[n][r][c]
    /\ n \notin DOMAIN lengths => Here(entry[n]) = {} /\ out[n] = <<>>

\* Of every row of a packet there is one copy: in the network, in a buffer or in
\* the entry.
SameRow(d, m) == d.fec /\ m.fec /\ d.n = m.n /\ d.row = m.row
OneCopy ==
  /\ \A d, m \in wire : SameRow(d, m) => d = m
  /\ \A d \in wire, s \in Pending : ~SameRow(d, rbuf[s])
  /\ \A s, t \in Pending : SameRow(rbuf[s], rbuf[t]) => s = t
  /\ \A d \in wire : d.fec => d.row \notin Here(entry[d.n])
  /\ \A s \in Pending : rbuf[s].fec => rbuf[s].row \notin Here(entry[rbuf[s].n])

\* The bytes of a packet of len bytes that are written.
SizeWritten(len) == IF IsFec(len) THEN len ELSE Cut(len)

Explained ==
  \A n \in DOMAIN lengths :
    out[n] # <<>> => out[n] = PacketBytes(n, SizeWritten(lengths[n]))

ImageSound(img) ==
  /\ Types /\ ImagesOK(img) /\ WireOK(img) /\ SlotsOK(img) /\ EntriesOK(img)
  /\ OneCopy /\ Explained

FramesInv == \E img : ImageSound(img)

-----------------------------------------------------------------------------
LEMMA InitSound == FramesInit => FramesInv
<1> SUFFICES ASSUME FramesInit PROVE ImageSound(<<>>)
  BY DEF FramesInv
<1>1. Types
  <2>1. DOMAIN rbuf = 1 .. UDP_RBATCH_SIZE /\ DOMAIN payload = FrameRow
    BY DEF FramesInit, Clear
  <2>2. \A s \in 1 .. UDP_RBATCH_SIZE : SlotShape(rbuf[s])
    BY DEF FramesInit, SlotShape
  <2>3. DOMAIN entry = 1 .. MaxFrames /\ DOMAIN out = 1 .. MaxFrames
    BY DEF FramesInit
  <2>4. \A n \in 1 .. MaxFrames : EntryShape(entry[n])
    BY DEF FramesInit, EntryShape, Clear
  <2>5. lengths \in Seq(PacketLen) /\ Len(lengths) = 0
    BY DEF FramesInit
  <2>6. filled = 0 /\ slot = 0 /\ gl_fec \in BOOLEAN
    BY DEF FramesInit
  <2> QED BY <2>1, <2>2, <2>3, <2>4, <2>5, <2>6, FrameConstants DEF Types
<1>2. DOMAIN lengths = {} /\ wire = {} /\ Pending = {}
  BY DEF FramesInit, Pending
<1>3. EntriesOK(<<>>)
  <2>1. \A n \in 1 .. MaxFrames : Here(entry[n]) = {} /\ entry[n].cnt = 0 /\ out[n] = <<>>
    BY DEF FramesInit, Here
  <2> QED BY <1>2, <2>1, FS_EmptySet DEF EntriesOK
<1> QED BY <1>1, <1>2, <1>3 DEF ImageSound, ImagesOK, WireOK, SlotsOK, OneCopy, Explained

-----------------------------------------------------------------------------
(* The server *)

\* What is encoded holds the packet, and parity rows that fit it.
LEMMA EncodedHolds ==
  ASSUME NEW n, NEW len
  PROVE  /\ HoldsPacket(EncodedRows(AfterRead(n, len)), n, len)
         /\ HoldsParity(EncodedRows(AfterRead(n, len)))
<1> DEFINE rows == AfterRead(n, len)
           y == EncodedRows(rows)
<1>1. \A r \in DataRow : r \in FrameRow /\ ~(r >= FEC_RS_K)
  BY FrameConstants DEF DataRow, FrameRow, FrameRows
<1>2. \A r \in FrameRow \ DataRow : r \in FrameRow /\ r >= FEC_RS_K
  BY FrameConstants DEF DataRow, FrameRow, FrameRows
<1>3. \A r \in FrameRow, c \in Offset :
        r * FEC_RS_T + c + 1 <= len => rows[r][c] = <<n, r * FEC_RS_T + c + 1>>
  BY DEF AfterRead
<1>4. \A r \in FrameRow : y[r] = IF ~(r >= FEC_RS_K) THEN rows[r]
                                 ELSE [c \in Offset |-> <<r, [i \in DataRow |-> rows[i][c]]>>]
  <2>1. \A r \in FrameRow : r < FEC_RS_K <=> ~(r >= FEC_RS_K)
    BY FrameConstants DEF FrameRow, FrameRows
  <2> QED BY <2>1 DEF EncodedRows, DataRow
<1> HIDE DEF rows, y
<1>5. \A r \in DataRow : y[r] = rows[r]
  BY <1>1, <1>4
<1>6. HoldsPacket(y, n, len)
  BY <1>1, <1>3, <1>5 DEF HoldsPacket
<1>7. HoldsParity(y)
  <2>1. SUFFICES ASSUME NEW r \in FrameRow \ DataRow, NEW c \in Offset
                 PROVE  y[r][c] = <<r, [i \in DataRow |-> y[i][c]]>>
    BY DEF HoldsParity
  <2>2. y[r][c] = <<r, [i \in DataRow |-> rows[i][c]]>>
    BY <1>2, <1>4
  <2>3. [i \in DataRow |-> rows[i][c]] = [i \in DataRow |-> y[i][c]]
    BY <1>5
  <2> QED BY <2>2, <2>3
<1> QED BY <1>6, <1>7 DEF y, rows

\* A shard's bytes are its row.
BytesOf(bytes, cells) == Len(bytes) = FEC_RS_T /\ \A c \in Offset : bytes[c + 1] = cells[c]

LEMMA ShardBytes ==
  ASSUME NEW cells
  PROVE  BytesOf(RowBytes([y \in {0} |-> cells], FEC_RS_T), cells)
<1> DEFINE bytes == RowBytes([y \in {0} |-> cells], FEC_RS_T)
<1>1. Len(bytes) = FEC_RS_T
  BY FrameConstants DEF RowBytes
<1>2. SUFFICES ASSUME NEW c \in Offset PROVE bytes[c + 1] = cells[c]
  BY <1>1 DEF BytesOf
<1>3. c \in Nat /\ c < FEC_RS_T /\ c + 1 \in 1 .. FEC_RS_T /\ (c + 1) - 1 = c
  BY FrameConstants DEF Offset
<1>4. c \div FEC_RS_T = 0 /\ c % FEC_RS_T = c
  BY <1>3, FrameConstants
<1> QED BY <1>3, <1>4 DEF RowBytes

\* The bytes of a packet sent whole are the packet.
LEMMA WholeBytes ==
  ASSUME NEW n, NEW len \in 1 .. BUFFER_SIZE
  PROVE  LET bytes == RowBytes(AfterRead(n, len), len) IN
         Len(bytes) = len /\ \A p \in 1 .. len : bytes[p] = <<n, p>>
<1> DEFINE bytes == RowBytes(AfterRead(n, len), len)
<1>1. len \in Nat
  BY FrameConstants
<1>2. Len(bytes) = len
  BY <1>1 DEF RowBytes
<1>3. SUFFICES ASSUME NEW p \in 1 .. len PROVE bytes[p] = <<n, p>>
  BY <1>2
<1> DEFINE r == (p - 1) \div FEC_RS_T
           c == (p - 1) % FEC_RS_T
<1>4. p \in Nat /\ 1 <= p /\ p <= BUFFER_SIZE /\ p <= len
  BY <1>1, FrameConstants
<1>5. r \in DataRow /\ c \in Offset /\ p = r * FEC_RS_T + c + 1
  BY <1>4, PlaceOf
<1>6. bytes[p] = AfterRead(n, len)[r][c]
  BY DEF RowBytes
<1> HIDE DEF r, c, bytes
<1>7. r \in FrameRow
  BY <1>5, FrameConstants DEF DataRow, FrameRow, FrameRows
<1>8. AfterRead(n, len)[r][c] = <<n, p>>
  BY <1>4, <1>5, <1>7 DEF AfterRead
<1> QED BY <1>6, <1>8


\* The packet sent now, in what it adds to the network.
NewDatagram(d, n, len, rows) ==
  /\ d.n = n /\ d.plen = len
  /\ \/ /\ d.fec /\ IsFec(len) /\ d.row \in FrameRow /\ Len(d.bytes) = FEC_RS_T
        /\ \A c \in Offset : d.bytes[c + 1] = rows[d.row][c]
     \/ /\ ~d.fec /\ ~IsFec(len) /\ Len(d.bytes) = len
        /\ \A p \in 1 .. len : d.bytes[p] = <<n, p>>

LEMMA NewShards ==
  ASSUME NEW n, NEW len, IsFec(len), NEW rows
  PROVE  /\ \A d \in Shards(n, len, rows) : NewDatagram(d, n, len, rows)
         /\ \A d, m \in Shards(n, len, rows) : SameRow(d, m) => d = m
<1>1. ASSUME NEW d \in Shards(n, len, rows) PROVE NewDatagram(d, n, len, rows)
  <2>1. PICK r \in FrameRow :
          d = [n |-> n, row |-> r, fec |-> TRUE, plen |-> len,
               bytes |-> RowBytes([y \in {0} |-> rows[r]], FEC_RS_T)]
    BY DEF Shards
  <2>2. d.n = n /\ d.plen = len /\ d.fec /\ d.row = r
        /\ d.bytes = RowBytes([y \in {0} |-> rows[r]], FEC_RS_T)
    BY <2>1
  <2>3. Len(d.bytes) = FEC_RS_T /\ \A c \in Offset : d.bytes[c + 1] = rows[r][c]
    <3>1. BytesOf(RowBytes([y \in {0} |-> rows[r]], FEC_RS_T), rows[r])
      BY ShardBytes
    <3> QED BY <2>2, <3>1 DEF BytesOf
  <2>4. d.row \in FrameRow
    BY <2>2
  <2> HIDE <2>1
  <2> QED BY <2>2, <2>3, <2>4 DEF NewDatagram
<1>2. ASSUME NEW d \in Shards(n, len, rows), NEW m \in Shards(n, len, rows), d.row = m.row
      PROVE  d = m
  <2>1. PICK r \in FrameRow :
          d = [n |-> n, row |-> r, fec |-> TRUE, plen |-> len,
               bytes |-> RowBytes([y \in {0} |-> rows[r]], FEC_RS_T)]
    BY DEF Shards
  <2>2. PICK q \in FrameRow :
          m = [n |-> n, row |-> q, fec |-> TRUE, plen |-> len,
               bytes |-> RowBytes([y \in {0} |-> rows[q]], FEC_RS_T)]
    BY DEF Shards
  <2>3. r = q
    <3>1. d.row = r /\ m.row = q
      BY <2>1, <2>2
    <3> QED BY <3>1, <1>2
  <2> QED BY <2>1, <2>2, <2>3
<1> QED BY <1>1, <1>2 DEF SameRow

\* What the network gains when a packet is sent.
LEMMA Sent ==
  ASSUME Types, SendFrame
  PROVE  \E len \in PacketLen, New \in SUBSET wire' :
           /\ Len(lengths) < MaxFrames /\ lengths' = Append(lengths, len)
           /\ payload' = IF IsFec(len) THEN EncodedRows(AfterRead(Len(lengths) + 1, len))
                                       ELSE AfterRead(Len(lengths) + 1, len)
           /\ wire' = wire \cup New
           /\ \A d \in New : NewDatagram(d, Len(lengths) + 1, len, payload')
           /\ \A d, m \in New : SameRow(d, m) => d = m
<1> DEFINE n == Len(lengths) + 1
<1>1. PICK len \in PacketLen :
        /\ lengths' = Append(lengths, len)
        /\ IF IsFec(len)
             THEN /\ payload' = EncodedRows(AfterRead(n, len))
                  /\ wire' = wire \cup Shards(n, len, EncodedRows(AfterRead(n, len)))
             ELSE /\ payload' = AfterRead(n, len)
                  /\ wire' = wire \cup {[n |-> n, row |-> 0, fec |-> FALSE, plen |-> len,
                                         bytes |-> RowBytes(AfterRead(n, len), len)]}
  BY DEF SendFrame
<1>2. Len(lengths) < MaxFrames
  BY DEF SendFrame
<1> HIDE DEF n
<1>3. CASE IsFec(len)
  <2>1. PICK New : New = Shards(n, len, payload')
    OBVIOUS
  <2>2. wire' = wire \cup New
    BY <1>1, <1>3, <2>1
  <2>3. /\ \A d \in New : NewDatagram(d, n, len, payload')
        /\ \A d, m \in New : SameRow(d, m) => d = m
    BY <1>3, <2>1, NewShards
  <2> QED BY <1>1, <1>2, <1>3, <2>2, <2>3 DEF n
<1>4. CASE ~IsFec(len)
  <2>1. PICK d : d = [n |-> n, row |-> 0, fec |-> FALSE, plen |-> len,
                      bytes |-> RowBytes(AfterRead(n, len), len)]
    OBVIOUS
  <2> DEFINE New == {d}
  <2>2. wire' = wire \cup New
    BY <1>1, <1>4, <2>1
  <2>3. d.n = n /\ d.plen = len /\ ~d.fec /\ d.bytes = RowBytes(AfterRead(n, len), len)
    BY <2>1
  <2>4. Len(d.bytes) = len /\ \A p \in 1 .. len : d.bytes[p] = <<n, p>>
    <3>1. len \in 1 .. BUFFER_SIZE
      BY FrameConstants
    <3>2. PICK b : b = RowBytes(AfterRead(n, len), len)
      OBVIOUS
    <3>3. Len(b) = len /\ \A p \in 1 .. len : b[p] = <<n, p>>
      BY <3>1, <3>2, WholeBytes
    <3> QED BY <2>3, <3>2, <3>3, Zenon
  <2>5. NewDatagram(d, n, len, payload')
    BY <1>4, <2>3, <2>4 DEF NewDatagram
  <2>6. /\ \A e \in New : NewDatagram(e, n, len, payload')
        /\ \A e, m \in New : SameRow(e, m) => e = m
    BY <2>5
  <2> HIDE DEF New
  <2> QED BY <1>1, <1>2, <1>4, <2>2, <2>6 DEF n
<1> QED BY <1>3, <1>4

LEMMA SendSound ==
  ASSUME NEW img, ImageSound(img), SendFrame
  PROVE  FramesInv'
<1>1. PICK len \in PacketLen, New \in SUBSET wire' :
           /\ Len(lengths) < MaxFrames /\ lengths' = Append(lengths, len)
           /\ payload' = IF IsFec(len) THEN EncodedRows(AfterRead(Len(lengths) + 1, len))
                                       ELSE AfterRead(Len(lengths) + 1, len)
           /\ wire' = wire \cup New
           /\ \A d \in New : NewDatagram(d, Len(lengths) + 1, len, payload')
           /\ \A d, m \in New : SameRow(d, m) => d = m
  BY Sent DEF ImageSound
<1>2. PICK n : n = Len(lengths) + 1
  OBVIOUS
<1>3. UNCHANGED <<gl_fec, rbuf, filled, slot, entry, out>>
  BY DEF SendFrame
<1>4. Types
  BY DEF ImageSound
<1>5. /\ lengths' \in Seq(PacketLen) /\ Len(lengths') = n /\ n \in 1 .. MaxFrames
      /\ DOMAIN lengths' = 1 .. n /\ DOMAIN lengths = 1 .. (n - 1) /\ n \notin DOMAIN lengths
      /\ lengths'[n] = len
      /\ \A j \in DOMAIN lengths : j \in DOMAIN lengths' /\ j # n /\ lengths'[j] = lengths[j]
      /\ \A j \in DOMAIN lengths' : j \in DOMAIN lengths \/ j = n
  BY <1>1, <1>2, <1>4, FrameConstants DEF Types
<1>6. PICK y : y = [j \in 1 .. n |-> IF j = n THEN payload' ELSE img[j]]
  OBVIOUS
<1>7. y[n] = payload' /\ \A j \in DOMAIN lengths : y[j] = img[j]
  BY <1>5, <1>6
<1>8. \A l : IsFec(l)' <=> IsFec(l)
  BY <1>3 DEF IsFec
<1>9. Pending' = Pending
  BY <1>3 DEF Pending
<1>10. Types'
  <2>1. DOMAIN payload' = FrameRow
    BY <1>1 DEF EncodedRows, AfterRead
  <2> QED BY <1>3, <1>4, <1>5, <2>1 DEF Types, SlotShape, EntryShape
<1>11. ImagesOK(y)'
  <2>1. SUFFICES ASSUME NEW j \in DOMAIN lengths', IsFec(lengths[j])'
                 PROVE  HoldsPacket(y[j], j, lengths'[j]) /\ HoldsParity(y[j])
    BY DEF ImagesOK, HoldsPacket, HoldsParity
  <2>2. CASE j = n
    BY <1>1, <1>2, <1>5, <1>7, <1>8, <2>1, <2>2, EncodedHolds
  <2>3. CASE j \in DOMAIN lengths
    BY <1>5, <1>7, <1>8, <2>1, <2>3 DEF ImageSound, ImagesOK
  <2> QED BY <1>5, <2>2, <2>3
<1>12. WireOK(y)'
  <2>1. SUFFICES ASSUME NEW d \in wire'
                 PROVE  /\ d.n \in DOMAIN lengths' /\ d.plen = lengths'[d.n]
                        /\ \/ d.fec /\ ShardOK(d, y)' /\ Len(d.bytes) = FEC_RS_T
                           \/ ~d.fec /\ WholeOK(d, lengths[d.n])' /\ Len(d.bytes) = lengths'[d.n]
    BY DEF WireOK
  <2>2. CASE d \in wire
    <3>1. /\ d.n \in DOMAIN lengths /\ d.plen = lengths[d.n]
          /\ \/ d.fec /\ ShardOK(d, img) /\ Len(d.bytes) = FEC_RS_T
             \/ ~d.fec /\ WholeOK(d, lengths[d.n]) /\ Len(d.bytes) = lengths[d.n]
      BY <2>2 DEF ImageSound, WireOK
    <3>2. lengths'[d.n] = lengths[d.n] /\ y[d.n] = img[d.n] /\ d.n \in DOMAIN lengths'
      BY <1>5, <1>7, <3>1
    <3>3. ShardOK(d, img) => ShardOK(d, y)'
      BY <1>8, <3>2 DEF ShardOK
    <3>4. WholeOK(d, lengths[d.n]) => WholeOK(d, lengths[d.n])'
      BY <1>8, <3>2 DEF WholeOK
    <3> QED BY <3>1, <3>2, <3>3, <3>4
  <2>3. CASE d \in New
    <3>1. NewDatagram(d, n, len, payload')
      BY <1>1, <1>2, <2>3
    <3>2. d.n = n /\ lengths'[d.n] = len /\ y[d.n] = payload'
      BY <1>5, <1>7, <3>1 DEF NewDatagram
    <3>3. CASE d.fec
      BY <1>5, <1>8, <3>1, <3>2, <3>3 DEF NewDatagram, ShardOK
    <3>4. CASE ~d.fec
      BY <1>5, <1>8, <3>1, <3>2, <3>4 DEF NewDatagram, WholeOK
    <3> QED BY <3>3, <3>4
  <2> QED BY <1>1, <2>2, <2>3
<1>13. SlotsOK(y)'
  <2>1. SUFFICES ASSUME NEW s \in Pending
                 PROVE  /\ rbuf[s].n \in DOMAIN lengths' /\ rbuf[s].plen = lengths'[rbuf[s].n]
                        /\ \/ rbuf[s].fec /\ ShardOK(rbuf[s], y)'
                           \/ /\ ~rbuf[s].fec /\ WholeOK(rbuf[s], Cut(lengths[rbuf[s].n]))'
                              /\ rbuf[s].len = PKT_OFFSET + Cut(lengths'[rbuf[s].n])
    BY <1>3, <1>9 DEF SlotsOK, WholeOK, ShardOK, Cut
  <2>2. PICK m : m = rbuf[s]
    OBVIOUS
  <2>3. /\ m.n \in DOMAIN lengths /\ m.plen = lengths[m.n]
        /\ \/ m.fec /\ ShardOK(m, img)
           \/ /\ ~m.fec /\ WholeOK(m, Cut(lengths[m.n]))
              /\ m.len = PKT_OFFSET + Cut(lengths[m.n])
    BY <2>2 DEF ImageSound, SlotsOK
  <2>4. lengths'[m.n] = lengths[m.n] /\ y[m.n] = img[m.n] /\ m.n \in DOMAIN lengths'
    BY <1>5, <1>7, <2>3
  <2>5. ShardOK(m, img) => ShardOK(m, y)'
    BY <1>8, <2>4 DEF ShardOK
  <2>6. WholeOK(m, Cut(lengths[m.n])) => WholeOK(m, Cut(lengths[m.n]))'
    BY <1>8, <2>4 DEF WholeOK, Cut
  <2>7. rbuf'[s] = m
    BY <1>3, <2>2
  <2>8. ShardOK(rbuf[s], y)' <=> ShardOK(m, y)'
    BY <2>7 DEF ShardOK
  <2>9. WholeOK(rbuf[s], Cut(lengths[rbuf[s].n]))' <=> WholeOK(m, Cut(lengths[m.n]))'
    BY <2>7 DEF WholeOK
  <2> QED BY <2>2, <2>3, <2>4, <2>5, <2>6, <2>8, <2>9
<1>14. EntriesOK(y)'
  <2>0. \A j : Here(entry[j])' = Here(entry[j])
    BY <1>3 DEF Here
  <2>1. SUFFICES ASSUME NEW j \in 1 .. MaxFrames
                 PROVE  /\ entry[j].cnt = Cardinality(Here(entry[j]))
                        /\ j \in DOMAIN lengths' =>
                             \A r \in Here(entry[j]), c \in Offset :
                               entry[j].buf[r][c] = y[j][r][c]
                        /\ j \notin DOMAIN lengths' => Here(entry[j]) = {} /\ out[j] = <<>>
    BY <1>3, <2>0 DEF EntriesOK
  <2>2. /\ entry[j].cnt = Cardinality(Here(entry[j]))
        /\ j \in DOMAIN lengths =>
             \A r \in Here(entry[j]), c \in Offset : entry[j].buf[r][c] = img[j][r][c]
        /\ j \notin DOMAIN lengths => Here(entry[j]) = {} /\ out[j] = <<>>
    BY DEF ImageSound, EntriesOK
  <2>3. CASE j \in DOMAIN lengths
    BY <1>5, <1>7, <2>2, <2>3
  <2>4. CASE j \notin DOMAIN lengths
    BY <1>5, <2>2, <2>4
  <2> QED BY <2>3, <2>4
<1>15. OneCopy'
  <2>1. \A d \in wire : d.n \in DOMAIN lengths
    BY DEF ImageSound, WireOK
  <2>2. \A s \in Pending : rbuf[s].n \in DOMAIN lengths
    BY DEF ImageSound, SlotsOK
  <2>3. \A d \in New : d.n = n
    BY <1>1, <1>2 DEF NewDatagram
  <2>4. Here(entry[n]) = {}
    BY <1>5 DEF ImageSound, EntriesOK
  <2>5. OneCopy
    BY DEF ImageSound
  <2>6. \A d, m \in wire' : SameRow(d, m) => d = m
    BY <1>1, <1>5, <2>1, <2>3, <2>5 DEF OneCopy, SameRow
  <2>7. \A d \in wire', s \in Pending : ~SameRow(d, rbuf[s])
    BY <1>1, <1>5, <2>2, <2>3, <2>5 DEF OneCopy, SameRow
  <2>8. \A d \in wire' : d.fec => d.row \notin Here(entry[d.n])
    BY <1>1, <2>3, <2>4, <2>5 DEF OneCopy
  <2> QED BY <1>3, <1>9, <2>5, <2>6, <2>7, <2>8 DEF OneCopy, SameRow, Here
<1>16. Explained'
  <2>1. \A j : SizeWritten(lengths[j])' = SizeWritten(lengths'[j])
    BY <1>3 DEF SizeWritten, IsFec, Cut
  <2>2. SUFFICES ASSUME NEW j \in DOMAIN lengths', out[j] # <<>>
                 PROVE  out[j] = PacketBytes(j, SizeWritten(lengths'[j]))
    BY <1>3, <2>1 DEF Explained
  <2>3. j \in DOMAIN lengths
    <3>1. n \notin DOMAIN lengths => out[n] = <<>>
      BY <1>5 DEF ImageSound, EntriesOK
    <3> QED BY <1>5, <2>2, <3>1
  <2> QED BY <1>5, <2>2, <2>3 DEF ImageSound, Explained
<1>17. ImageSound(y)'
  BY <1>10, <1>11, <1>12, <1>13, <1>14, <1>15, <1>16 DEF ImageSound
<1> QED BY <1>17 DEF FramesInv

-----------------------------------------------------------------------------
(* The client *)

LEMMA CutBounds ==
  ASSUME NEW len \in Nat
  PROVE  /\ Cut(len) \in 0 .. len /\ Cut(len) <= BUFFER_SIZE - PKT_OFFSET
         /\ Cut(FEC_RS_T) = FEC_RS_T
BY FrameConstants DEF Cut

\* The invariant looks at buffers only if they are pending, and at the packet being
\* read not at all.
LEMMA RecvmmsgSound ==
  ASSUME NEW img, ImageSound(img), Recvmmsg
  PROVE  ImageSound(img)'
<1>1. slot = 0 /\ filled > 0 /\ slot' = 1
      /\ UNCHANGED <<gl_fec, lengths, payload, wire, rbuf, filled, entry, out>>
  BY DEF Recvmmsg
<1>2. Types
  BY DEF ImageSound
<1>3. Types'
  BY <1>1, <1>2 DEF Types, SlotShape, EntryShape
<1>4. Pending' = Pending
  BY <1>1, <1>2 DEF Pending, Types
<1>5. ImagesOK(img)' /\ WireOK(img)'
  BY <1>1 DEF ImageSound, ImagesOK, WireOK, IsFec, ShardOK, WholeOK, HoldsPacket, HoldsParity
<1>6. SlotsOK(img)'
  BY <1>1, <1>4 DEF ImageSound, SlotsOK, IsFec, ShardOK, WholeOK, Cut
<1>7. \A j : Here(entry[j])' = Here(entry[j])
  BY <1>1 DEF Here
<1>8. EntriesOK(img)'
  BY <1>1, <1>7 DEF ImageSound, EntriesOK
<1>9. OneCopy'
  BY <1>1, <1>4, <1>7 DEF ImageSound, OneCopy, SameRow
<1>10. Explained'
  BY <1>1 DEF ImageSound, Explained, SizeWritten, IsFec, Cut
<1> QED BY <1>3, <1>5, <1>6, <1>8, <1>9, <1>10 DEF ImageSound

\* The buffer a datagram arrives in.
LEMMA Arrived ==
  ASSUME Types, NEW d \in wire, Arrive(d)
  PROVE  \E m :
           /\ slot = 0 /\ filled < UDP_RBATCH_SIZE /\ filled' = filled + 1
           /\ DOMAIN rbuf' = 1 .. UDP_RBATCH_SIZE /\ rbuf'[filled + 1] = m
           /\ \A s \in 1 .. UDP_RBATCH_SIZE : s # filled + 1 => rbuf'[s] = rbuf[s]
           /\ m.n = d.n /\ m.row = d.row /\ m.fec = d.fec /\ m.plen = d.plen
           /\ m.len = PKT_OFFSET + Cut(Len(d.bytes)) /\ SlotShape(m)
           /\ \A p \in 1 .. (BUFFER_SIZE - PKT_OFFSET) :
                p <= Cut(Len(d.bytes)) => m.bytes[p] = d.bytes[p]
<1> DEFINE f == filled + 1
           old == rbuf[f].bytes
           new == [p \in DOMAIN old |-> IF p <= Cut(Len(d.bytes)) THEN d.bytes[p] ELSE old[p]]
<1>1. PICK m : m = [n |-> d.n, row |-> d.row, fec |-> d.fec, plen |-> d.plen,
                    len |-> PKT_OFFSET + Cut(Len(d.bytes)), bytes |-> new]
  OBVIOUS
<1>2. /\ slot = 0 /\ filled < UDP_RBATCH_SIZE /\ filled' = f
      /\ rbuf' = [rbuf EXCEPT ![f] = m]
  BY <1>1 DEF Arrive
<1>3. DOMAIN old = 1 .. (BUFFER_SIZE - PKT_OFFSET)
  <2>1. f \in 1 .. UDP_RBATCH_SIZE
    BY <1>2, FrameConstants DEF Types
  <2> QED BY <2>1 DEF Types, SlotShape
<1>4. f \in DOMAIN rbuf /\ DOMAIN rbuf = 1 .. UDP_RBATCH_SIZE
  BY <1>2, FrameConstants DEF Types
<1> HIDE DEF f
<1>5. /\ DOMAIN new = 1 .. (BUFFER_SIZE - PKT_OFFSET)
      /\ \A p \in 1 .. (BUFFER_SIZE - PKT_OFFSET) :
           p <= Cut(Len(d.bytes)) => new[p] = d.bytes[p]
  BY <1>3
<1> HIDE DEF new, old
<1>6. /\ m.n = d.n /\ m.row = d.row /\ m.fec = d.fec /\ m.plen = d.plen
      /\ m.len = PKT_OFFSET + Cut(Len(d.bytes)) /\ m.bytes = new
  BY <1>1
<1>7. /\ DOMAIN rbuf' = 1 .. UDP_RBATCH_SIZE /\ rbuf'[f] = m
      /\ \A s \in 1 .. UDP_RBATCH_SIZE : s # f => rbuf'[s] = rbuf[s]
  BY <1>2, <1>4
<1> QED BY <1>2, <1>5, <1>6, <1>7 DEF f, SlotShape

LEMMA ArriveSound ==
  ASSUME NEW img, ImageSound(img), NEW d \in wire, Arrive(d)
  PROVE  ImageSound(img)'
<1>1. Types
  BY DEF ImageSound
<1>2. PICK m :
           /\ slot = 0 /\ filled < UDP_RBATCH_SIZE /\ filled' = filled + 1
           /\ DOMAIN rbuf' = 1 .. UDP_RBATCH_SIZE /\ rbuf'[filled + 1] = m
           /\ \A s \in 1 .. UDP_RBATCH_SIZE : s # filled + 1 => rbuf'[s] = rbuf[s]
           /\ m.n = d.n /\ m.row = d.row /\ m.fec = d.fec /\ m.plen = d.plen
           /\ m.len = PKT_OFFSET + Cut(Len(d.bytes)) /\ SlotShape(m)
           /\ \A p \in 1 .. (BUFFER_SIZE - PKT_OFFSET) :
                p <= Cut(Len(d.bytes)) => m.bytes[p] = d.bytes[p]
  BY <1>1, Arrived
<1>3. wire' = wire \ {d} /\ UNCHANGED <<gl_fec, lengths, payload, slot, entry, out>>
  BY DEF Arrive
<1>4. PICK f : f = filled + 1
  OBVIOUS
<1>5. f \in 1 .. UDP_RBATCH_SIZE /\ Pending' = Pending \cup {f} /\ f \notin Pending
      /\ \A s \in Pending : s \in 1 .. UDP_RBATCH_SIZE /\ s # f
  BY <1>1, <1>2, <1>3, <1>4, FrameConstants DEF Types, Pending
<1>6. rbuf'[f] = m /\ \A s \in Pending : rbuf'[s] = rbuf[s]
  BY <1>2, <1>4, <1>5
<1>7. Types'
  <2>1. \A s \in 1 .. UDP_RBATCH_SIZE : SlotShape(rbuf'[s])
    BY <1>1, <1>2 DEF Types
  <2>2. filled' \in 0 .. UDP_RBATCH_SIZE /\ slot' \in 0 .. filled'
    BY <1>1, <1>2, <1>3, FrameConstants DEF Types
  <2> QED BY <1>1, <1>2, <1>3, <2>1, <2>2 DEF Types, SlotShape, EntryShape
<1>8. ImagesOK(img)' /\ WireOK(img)'
  BY <1>3 DEF ImageSound, ImagesOK, WireOK, IsFec, ShardOK, WholeOK, HoldsPacket, HoldsParity
<1>9. d.n \in DOMAIN lengths /\ lengths[d.n] \in 1 .. BUFFER_SIZE
  <2>1. d.n \in DOMAIN lengths
    BY DEF ImageSound, WireOK
  <2>2. lengths[d.n] \in PacketLen
    BY <1>1, <2>1 DEF Types
  <2> QED BY <2>1, <2>2, FrameConstants
<1>10. /\ m.n \in DOMAIN lengths /\ m.plen = lengths[m.n]
       /\ \/ m.fec /\ ShardOK(m, img)
          \/ ~m.fec /\ WholeOK(m, Cut(lengths[m.n])) /\ m.len = PKT_OFFSET + Cut(lengths[m.n])
  <2>1. /\ d.plen = lengths[d.n]
        /\ \/ d.fec /\ ShardOK(d, img) /\ Len(d.bytes) = FEC_RS_T
           \/ ~d.fec /\ WholeOK(d, lengths[d.n]) /\ Len(d.bytes) = lengths[d.n]
    BY DEF ImageSound, WireOK
  <2>2. CASE d.fec
    <3>1. ShardOK(d, img) /\ Len(d.bytes) = FEC_RS_T
      BY <2>1, <2>2
    <3>2. Cut(Len(d.bytes)) = FEC_RS_T
      BY <1>9, <3>1, FrameConstants, CutBounds
    <3>3. \A c \in Offset : m.bytes[c + 1] = d.bytes[c + 1]
      <4>1. \A c \in Offset : c + 1 \in 1 .. (BUFFER_SIZE - PKT_OFFSET) /\ c + 1 <= FEC_RS_T
        BY FrameConstants DEF Offset
      <4> QED BY <1>2, <3>2, <4>1
    <3>4. ShardOK(m, img)
      BY <1>2, <3>1, <3>3 DEF ShardOK
    <3> QED BY <1>2, <1>9, <2>1, <2>2, <3>4
  <2>3. CASE ~d.fec
    <3>1. WholeOK(d, lengths[d.n]) /\ Len(d.bytes) = lengths[d.n]
      BY <2>1, <2>3
    <3>2. lengths[d.n] \in Nat
      BY <1>9, FrameConstants
    <3>3. Cut(lengths[d.n]) \in 0 .. lengths[d.n] /\ Cut(lengths[d.n]) <= BUFFER_SIZE - PKT_OFFSET
      BY <3>2, CutBounds
    <3>4. \A p \in 1 .. Cut(lengths[d.n]) : m.bytes[p] = <<d.n, p>>
      <4>1. \A p \in 1 .. Cut(lengths[d.n]) :
              /\ p \in 1 .. (BUFFER_SIZE - PKT_OFFSET) /\ p <= Cut(lengths[d.n])
              /\ p \in 1 .. lengths[d.n]
        BY <3>2, <3>3, FrameConstants
      <4>2. \A p \in 1 .. lengths[d.n] : d.bytes[p] = <<d.n, p>>
        BY <3>1 DEF WholeOK
      <4> QED BY <1>2, <3>1, <4>1, <4>2
    <3>5. WholeOK(m, Cut(lengths[m.n]))
      BY <1>2, <3>1, <3>4 DEF WholeOK
    <3> QED BY <1>2, <1>9, <2>1, <2>3, <3>1, <3>5
  <2> QED BY <2>2, <2>3
<1>11. SlotsOK(img)'
  <2>1. /\ \A l : IsFec(l)' <=> IsFec(l)
        /\ \A j : Cut(lengths[j])' = Cut(lengths[j])
    BY <1>3 DEF IsFec, Cut
  <2>2. ASSUME NEW s \in Pending', NEW r, r = rbuf'[s],
               r.n \in DOMAIN lengths, r.plen = lengths[r.n],
               \/ r.fec /\ ShardOK(r, img)
               \/ ~r.fec /\ WholeOK(r, Cut(lengths[r.n])) /\ r.len = PKT_OFFSET + Cut(lengths[r.n])
        PROVE  (/\ rbuf[s].n \in DOMAIN lengths /\ rbuf[s].plen = lengths[rbuf[s].n]
                /\ \/ rbuf[s].fec /\ ShardOK(rbuf[s], img)
                   \/ /\ ~rbuf[s].fec /\ WholeOK(rbuf[s], Cut(lengths[rbuf[s].n]))
                      /\ rbuf[s].len = PKT_OFFSET + Cut(lengths[rbuf[s].n]))'
    <3>1. ShardOK(r, img) => ShardOK(rbuf[s], img)'
      BY <1>3, <2>1, <2>2 DEF ShardOK
    <3>2. WholeOK(r, Cut(lengths[r.n])) => WholeOK(rbuf[s], Cut(lengths[rbuf[s].n]))'
      BY <1>3, <2>1, <2>2 DEF WholeOK
    <3> QED BY <1>3, <2>1, <2>2, <3>1, <3>2
  <2>3. \A s \in Pending :
    /\ rbuf[s].n \in DOMAIN lengths /\ rbuf[s].plen = lengths[rbuf[s].n]
    /\ \/ rbuf[s].fec /\ ShardOK(rbuf[s], img)
       \/ /\ ~rbuf[s].fec /\ WholeOK(rbuf[s], Cut(lengths[rbuf[s].n]))
          /\ rbuf[s].len = PKT_OFFSET + Cut(lengths[rbuf[s].n])
    BY DEF ImageSound, SlotsOK
  <2>4. SUFFICES ASSUME NEW s \in Pending'
        PROVE  (/\ rbuf[s].n \in DOMAIN lengths /\ rbuf[s].plen = lengths[rbuf[s].n]
                /\ \/ rbuf[s].fec /\ ShardOK(rbuf[s], img)
                   \/ /\ ~rbuf[s].fec /\ WholeOK(rbuf[s], Cut(lengths[rbuf[s].n]))
                      /\ rbuf[s].len = PKT_OFFSET + Cut(lengths[rbuf[s].n]))'
    BY DEF SlotsOK
  <2>5. CASE s = f
    BY <1>6, <1>10, <2>2, <2>5
  <2>6. CASE s \in Pending
    <3>1. PICK r : r = rbuf[s]
      OBVIOUS
    <3>2. r = rbuf'[s]
      BY <1>6, <2>6, <3>1
    <3>3. /\ r.n \in DOMAIN lengths /\ r.plen = lengths[r.n]
          /\ \/ r.fec /\ ShardOK(r, img)
             \/ ~r.fec /\ WholeOK(r, Cut(lengths[r.n])) /\ r.len = PKT_OFFSET + Cut(lengths[r.n])
      BY <2>3, <2>6, <3>1
    <3> QED BY <2>2, <3>2, <3>3
  <2> QED BY <1>5, <2>5, <2>6
<1>12. \A j : Here(entry[j])' = Here(entry[j])
  BY <1>3 DEF Here
<1>13. EntriesOK(img)'
  BY <1>3, <1>12 DEF ImageSound, EntriesOK
<1>14. OneCopy'
  <2>1. OneCopy
    BY DEF ImageSound
  <2>2. \A e, t \in wire' : SameRow(e, t) => e = t
    BY <1>3, <2>1 DEF OneCopy
  <2>3. \A e : SameRow(e, m) <=> SameRow(e, d)
    BY <1>2 DEF SameRow
  <2>4. \A e : SameRow(m, e) <=> SameRow(d, e)
    BY <1>2 DEF SameRow
  <2>5. \A e \in wire', s \in Pending' : ~SameRow(e, rbuf'[s])
    <3>1. SUFFICES ASSUME NEW e \in wire', NEW s \in Pending' PROVE ~SameRow(e, rbuf'[s])
      OBVIOUS
    <3>2. e \in wire /\ e # d
      BY <1>3
    <3>3. CASE s = f
      BY <1>6, <2>1, <2>3, <3>2, <3>3 DEF OneCopy
    <3>4. CASE s \in Pending
      BY <1>6, <2>1, <3>2, <3>4 DEF OneCopy
    <3> QED BY <1>5, <3>3, <3>4
  <2>6. \A s, t \in Pending' : SameRow(rbuf'[s], rbuf'[t]) => s = t
    <3>1. SUFFICES ASSUME NEW s \in Pending', NEW t \in Pending', SameRow(rbuf'[s], rbuf'[t])
                   PROVE  s = t
      OBVIOUS
    <3>2. CASE s \in Pending /\ t \in Pending
      BY <1>6, <2>1, <3>1, <3>2 DEF OneCopy
    <3>3. CASE s = f /\ t \in Pending
      <4>1. SameRow(d, rbuf[t])
        BY <1>6, <2>4, <3>1, <3>3
      <4> QED BY <2>1, <3>3, <4>1 DEF OneCopy
    <3>4. CASE s \in Pending /\ t = f
      <4>1. SameRow(d, rbuf[s])
        BY <1>6, <2>3, <3>1, <3>4 DEF SameRow
      <4> QED BY <2>1, <3>4, <4>1 DEF OneCopy
    <3> QED BY <1>5, <3>2, <3>3, <3>4
  <2>7. \A e \in wire' : e.fec => e.row \notin Here(entry[e.n])
    BY <1>3, <2>1 DEF OneCopy
  <2>8. \A s \in Pending' : rbuf'[s].fec => rbuf'[s].row \notin Here(entry[rbuf'[s].n])
    BY <1>2, <1>5, <1>6, <2>1 DEF OneCopy
  <2> QED BY <1>12, <2>2, <2>5, <2>6, <2>7, <2>8, <1>3 DEF OneCopy, SameRow, Here
<1>15. Explained'
  BY <1>3 DEF ImageSound, Explained, SizeWritten, IsFec, Cut
<1> QED BY <1>7, <1>8, <1>11, <1>13, <1>14, <1>15 DEF ImageSound


\* The entry after a row has been stored in it.
RowStored(f, e, m) ==
  /\ EntryShape(f) /\ f.plen = m.plen /\ f.cnt = e.cnt + 1
  /\ f.cnt = Cardinality(Here(f)) /\ Here(f) = Here(e) \cup {m.row}
  /\ \A r \in Here(e), c \in Offset : f.buf[r][c] = e.buf[r][c]
  /\ \A c \in Offset : f.buf[m.row][c] = m.bytes[c + 1]

LEMMA StoredRow ==
  ASSUME NEW e, EntryShape(e), e.cnt = Cardinality(Here(e)),
         NEW m, m.row \in FrameRow, m.row \notin Here(e)
  PROVE  RowStored(FrameStored(e, m), e, m)
<1>1. PICK gone : gone = [e.marks EXCEPT ![m.row] = FALSE]
  OBVIOUS
<1>2. PICK buf : buf = [e.buf EXCEPT ![m.row] = [c \in Offset |-> m.bytes[c + 1]]]
  OBVIOUS
<1>3. PICK f : f = FrameStored(e, m)
  OBVIOUS
<1>4. f = [plen |-> m.plen, cnt |-> e.cnt + 1, marks |-> gone, buf |-> buf]
  BY <1>1, <1>2, <1>3 DEF FrameStored, EntryShape
<1>5. f.plen = m.plen /\ f.cnt = e.cnt + 1 /\ f.marks = gone /\ f.buf = buf
  BY <1>4
<1>6. e.marks \in [FrameRow -> BOOLEAN] /\ e.cnt \in Nat /\ DOMAIN e.buf = FrameRow
  BY DEF EntryShape
<1>7. gone \in [FrameRow -> BOOLEAN] /\ ~gone[m.row]
      /\ \A r \in FrameRow : r # m.row => gone[r] = e.marks[r]
  BY <1>1, <1>6
<1>8. buf = [r \in FrameRow |-> buf[r]] /\ buf[m.row] = [c \in Offset |-> m.bytes[c + 1]]
      /\ \A r \in FrameRow : r # m.row => buf[r] = e.buf[r]
  BY <1>2, <1>6
<1>9. Here(f) = Here(e) \cup {m.row}
  BY <1>5, <1>7 DEF Here
<1>10. IsFiniteSet(Here(e))
  <2> DEFINE b == FrameRows - 1
  <2>1. b \in Int
    BY FrameConstants DEF FrameRows
  <2> HIDE DEF b
  <2>2. IsFiniteSet(0 .. b)
    BY <2>1, FS_Interval
  <2>3. Here(e) \in SUBSET (0 .. b)
    BY DEF Here, FrameRow, b
  <2> QED BY <2>2, <2>3, FS_Subset
<1>11. Cardinality(Here(f)) = e.cnt + 1
  BY <1>9, <1>10, FS_AddElement
<1>12. EntryShape(f)
  BY <1>4, <1>5, <1>6, <1>7, <1>8 DEF EntryShape
<1>13. \A r \in Here(e) : r \in FrameRow /\ r # m.row
  BY DEF Here
<1>14. RowStored(f, e, m)
  BY <1>5, <1>8, <1>9, <1>11, <1>12, <1>13 DEF RowStored
<1> QED BY <1>3, <1>14

\* What a datagram does to the entry of its packet and to what is written.
LEMMA Handled ==
  ASSUME NEW img, ImageSound(img), slot > 0, HandleFrame,
         NEW m, m = rbuf[slot], NEW n, n = m.n, NEW e, e = entry[n]
  PROVE  /\ \/ entry' = entry
            \/ m.fec /\ e.cnt < FEC_RS_K /\ entry' = [entry EXCEPT ![n] = FrameStored(e, m)]
         /\ \/ out' = out
            \/ out' = [out EXCEPT ![n] = PacketBytes(n, SizeWritten(lengths[n]))]
<1>1. Types /\ slot \in Pending
  BY DEF ImageSound, Types, Pending
<1>2. /\ n \in DOMAIN lengths /\ m.plen = lengths[n]
      /\ \/ m.fec /\ ShardOK(m, img)
         \/ ~m.fec /\ WholeOK(m, Cut(lengths[n])) /\ m.len = PKT_OFFSET + Cut(lengths[n])
  BY <1>1 DEF ImageSound, SlotsOK
<1>3. n \in 1 .. MaxFrames /\ lengths[n] \in 1 .. BUFFER_SIZE /\ SlotShape(m) /\ EntryShape(e)
  <2>1. lengths[n] \in PacketLen /\ n \in 1 .. MaxFrames
    BY <1>1, <1>2, FrameConstants DEF Types
  <2>2. slot \in 1 .. UDP_RBATCH_SIZE
    BY <1>1, FrameConstants DEF Types, Pending
  <2> QED BY <1>1, <2>1, <2>2, FrameConstants DEF Types
<1>4. /\ IF ~m.fec
           THEN /\ out' = [out EXCEPT ![n] = SubSeq(m.bytes, 1, m.len - PKT_OFFSET)]
                /\ UNCHANGED entry
           ELSE IF e.cnt >= FEC_RS_K THEN UNCHANGED <<entry, out>>
           ELSE /\ entry' = [entry EXCEPT ![n] = FrameStored(e, m)]
                /\ out' = IF FrameStored(e, m).cnt < FEC_RS_K THEN out
                          ELSE [out EXCEPT ![n] = Written(m, FrameStored(e, m))]
  BY DEF HandleFrame
<1>5. CASE ~m.fec
  <2>1. PICK size : size = Cut(lengths[n])
    OBVIOUS
  <2>2. size \in Nat /\ size <= BUFFER_SIZE - PKT_OFFSET /\ m.len - PKT_OFFSET = size
    BY <1>2, <1>3, <1>5, <2>1, CutBounds, FrameConstants
  <2>3. SizeWritten(lengths[n]) = size
    BY <1>2, <1>5, <2>1 DEF SizeWritten, WholeOK
  <2>4. \A p \in 1 .. size : m.bytes[p] = <<n, p>>
    BY <1>2, <1>5, <2>1 DEF WholeOK
  <2>5. SubSeq(m.bytes, 1, size) = PacketBytes(n, size)
    BY <2>2, <2>4, <1>3, FrameConstants DEF SlotShape, PacketBytes
  <2> QED BY <1>4, <1>5, <2>2, <2>3, <2>5
<1>6. CASE m.fec
  <2>1. PICK f : f = FrameStored(e, m)
    OBVIOUS
  <2>2. e.cnt \in Nat /\ e.cnt = Cardinality(Here(e))
        /\ \A r \in Here(e), c \in Offset : e.buf[r][c] = img[n][r][c]
    <3>1. EntriesOK(img)
      BY DEF ImageSound
    <3>2. e.cnt \in Nat
      BY <1>3 DEF EntryShape
    <3>3. entry[n].cnt = Cardinality(Here(entry[n]))
      BY <1>3, <3>1, Zenon DEF EntriesOK
    <3>4. \A r \in Here(entry[n]), c \in Offset : entry[n].buf[r][c] = img[n][r][c]
      BY <1>2, <1>3, <3>1, Zenon DEF EntriesOK
    <3> QED BY <3>2, <3>3, <3>4, Zenon
  <2>3. m.row \notin Here(e) /\ m.row \in FrameRow
    BY <1>1, <1>2, <1>6 DEF ImageSound, OneCopy, ShardOK
  <2>4. /\ f.plen = m.plen /\ f.cnt = e.cnt + 1
        /\ f.cnt = Cardinality(Here(f)) /\ Here(f) = Here(e) \cup {m.row}
        /\ \A r \in Here(e), c \in Offset : f.buf[r][c] = e.buf[r][c]
        /\ \A c \in Offset : f.buf[m.row][c] = m.bytes[c + 1]
    <3>1. EntryShape(e) /\ e.cnt = Cardinality(Here(e)) /\ m.row \in FrameRow /\ m.row \notin Here(e)
      BY <1>3, <2>2, <2>3, Zenon
    <3>2. RowStored(f, e, m)
      BY <2>1, <3>1, StoredRow
    <3> QED BY <3>2, Zenon DEF RowStored
  <2>5. CASE e.cnt >= FEC_RS_K \/ f.cnt < FEC_RS_K
    BY <1>4, <1>6, <2>1, <2>2, <2>5, FrameConstants
  <2>6. CASE ~(e.cnt >= FEC_RS_K) /\ ~(f.cnt < FEC_RS_K)
    <3>1. f.cnt = FEC_RS_K
      BY <2>2, <2>4, <2>6, FrameConstants
    <3>2. \A r \in Here(f), c \in Offset : f.buf[r][c] = img[n][r][c]
      BY <1>2, <1>6, <2>2, <2>4 DEF ShardOK
    <3>3. HoldsPacket(img[n], n, lengths[n]) /\ HoldsParity(img[n])
      BY <1>2, <1>6 DEF ImageSound, ImagesOK, ShardOK
    <3>4. Written(m, f) = PacketBytes(n, lengths[n])
      <4>1. PICK y : y = img[n]
        OBVIOUS
      <4>2. PICK len \in 1 .. BUFFER_SIZE : len = lengths[n]
        BY <1>3
      <4>3. HoldsParity(y) /\ HoldsPacket(y, n, len) /\ Cardinality(Here(f)) = FEC_RS_K
        BY <2>4, <3>1, <3>3, <4>1, <4>2
      <4>4. (\A r \in Here(f), c \in Offset : f.buf[r][c] = y[r][c]) /\ f.plen = len
        BY <1>2, <2>4, <3>2, <4>1, <4>2
      <4>5. Written(m, f) = PacketBytes(n, len)
        BY <4>3, <4>4, WrittenIsPacket
      <4> QED BY <4>2, <4>5
    <3>5. SizeWritten(lengths[n]) = lengths[n]
      BY <1>2, <1>6 DEF ShardOK, SizeWritten
    <3> QED BY <1>4, <1>6, <2>1, <2>2, <2>6, <3>4, <3>5, FrameConstants
  <2> QED BY <2>5, <2>6
<1> QED BY <1>5, <1>6


LEMMA HandleSound ==
  ASSUME NEW img, ImageSound(img), slot > 0, HandleFrame
  PROVE  ImageSound(img)'
<1>1. Types /\ slot \in Pending
  BY DEF ImageSound, Types, Pending
<1>2. PICK m : m = rbuf[slot]
  OBVIOUS
<1>3. PICK n : n = m.n
  OBVIOUS
<1>4. PICK e : e = entry[n]
  OBVIOUS
<1>5. PICK t : t = slot
  OBVIOUS
<1>6. UNCHANGED <<gl_fec, lengths, payload, wire, rbuf>>
  BY DEF HandleFrame
<1>7. IF slot < filled THEN slot' = slot + 1 /\ UNCHANGED filled ELSE slot' = 0 /\ filled' = 0
  BY DEF HandleFrame
<1>8. filled' \in 0 .. UDP_RBATCH_SIZE /\ slot' \in 0 .. filled'
  BY <1>1, <1>7, FrameConstants DEF Types
<1>9. \A s \in Pending' : s \in Pending /\ s # t
  BY <1>1, <1>5, <1>7, FrameConstants DEF Types, Pending
<1>10. /\ n \in DOMAIN lengths
       /\ (m.fec /\ ShardOK(m, img)) \/ ~m.fec
  BY <1>1, <1>2, <1>3 DEF ImageSound, SlotsOK
<1>11. n \in 1 .. MaxFrames /\ EntryShape(e) /\ e.cnt = Cardinality(Here(e))
  <2>1. n \in 1 .. MaxFrames
    BY <1>1, <1>10, FrameConstants DEF Types
  <2> QED BY <1>1, <1>4, <2>1 DEF Types, ImageSound, EntriesOK
<1>12. /\ \/ entry' = entry
          \/ m.fec /\ e.cnt < FEC_RS_K /\ entry' = [entry EXCEPT ![n] = FrameStored(e, m)]
       /\ \/ out' = out
          \/ out' = [out EXCEPT ![n] = PacketBytes(n, SizeWritten(lengths[n]))]
  BY <1>2, <1>3, <1>4, Handled
<1>13. DOMAIN entry = 1 .. MaxFrames /\ DOMAIN out = 1 .. MaxFrames
  BY <1>1 DEF Types
<1>14. PICK f : f = entry'[n]
  OBVIOUS
<1>15. DOMAIN entry' = 1 .. MaxFrames /\ \A j \in 1 .. MaxFrames : j # n => entry'[j] = entry[j]
  BY <1>12, <1>13
<1>16. /\ EntryShape(f) /\ f.cnt = Cardinality(Here(f))
       /\ \A r \in Here(f), c \in Offset : f.buf[r][c] = img[n][r][c]
       /\ \A r \in Here(f) : r \in Here(e) \/ (m.fec /\ r = m.row)
  <2>1. \A r \in Here(e), c \in Offset : e.buf[r][c] = img[n][r][c]
    BY <1>4, <1>10, <1>11 DEF ImageSound, EntriesOK
  <2>2. CASE entry' = entry
    <3>1. f = e
      BY <1>4, <1>14, <2>2
    <3> QED BY <1>11, <2>1, <3>1
  <2>3. CASE m.fec /\ entry' = [entry EXCEPT ![n] = FrameStored(e, m)]
    <3>1. f = FrameStored(e, m)
      BY <1>11, <1>13, <1>14, <2>3
    <3>2. m.row \notin Here(e) /\ m.row \in FrameRow
          /\ \A c \in Offset : m.bytes[c + 1] = img[n][m.row][c]
      BY <1>1, <1>2, <1>3, <1>4, <1>10, <2>3 DEF ImageSound, OneCopy, ShardOK
    <3>3. /\ EntryShape(f) /\ f.cnt = Cardinality(Here(f)) /\ Here(f) = Here(e) \cup {m.row}
          /\ \A r \in Here(e), c \in Offset : f.buf[r][c] = e.buf[r][c]
          /\ \A c \in Offset : f.buf[m.row][c] = m.bytes[c + 1]
      <4>1. RowStored(f, e, m)
        BY <1>11, <3>1, <3>2, StoredRow
      <4> QED BY <4>1, Zenon DEF RowStored
    <3>4. \A r \in Here(f) : r \in Here(e) \/ r = m.row
      BY <3>3
    <3>5. \A r \in Here(f), c \in Offset : f.buf[r][c] = img[n][r][c]
      BY <2>1, <3>2, <3>3, <3>4
    <3> QED BY <2>3, <3>3, <3>4, <3>5
  <2> QED BY <1>12, <2>2, <2>3
<1>17. DOMAIN out' = 1 .. MaxFrames
       /\ \A j \in 1 .. MaxFrames :
            out'[j] = out[j] \/ (j = n /\ out'[j] = PacketBytes(n, SizeWritten(lengths[n])))
  BY <1>12, <1>13
<1>18. Types'
  <2>1. \A j \in 1 .. MaxFrames : EntryShape(entry'[j])
    <3>1. SUFFICES ASSUME NEW j \in 1 .. MaxFrames PROVE EntryShape(entry'[j])
      OBVIOUS
    <3>2. CASE j = n
      BY <1>14, <1>16, <3>2
    <3>3. CASE j # n
      BY <1>1, <1>15, <3>3 DEF Types
    <3> QED BY <3>2, <3>3
  <2> QED BY <1>1, <1>6, <1>8, <1>15, <1>17, <2>1 DEF Types, SlotShape, EntryShape
<1>19. ImagesOK(img)' /\ WireOK(img)'
  BY <1>6 DEF ImageSound, ImagesOK, WireOK, IsFec, ShardOK, WholeOK, HoldsPacket, HoldsParity
<1>20. SlotsOK(img)'
  BY <1>6, <1>9 DEF ImageSound, SlotsOK, IsFec, ShardOK, WholeOK, Cut
<1>21. EntriesOK(img)'
  <2>1. SUFFICES ASSUME NEW j \in 1 .. MaxFrames
                 PROVE  (/\ entry[j].cnt = Cardinality(Here(entry[j]))
                         /\ j \in DOMAIN lengths =>
                              \A r \in Here(entry[j]), c \in Offset :
                                entry[j].buf[r][c] = img[j][r][c]
                         /\ j \notin DOMAIN lengths => Here(entry[j]) = {} /\ out[j] = <<>>)'
    BY DEF EntriesOK
  <2>2. Here(entry[j])' = Here(entry'[j])
    BY DEF Here
  <2>3. CASE j = n
    BY <1>6, <1>10, <1>14, <1>16, <2>2, <2>3
  <2>4. CASE j # n
    <3>1. /\ entry[j].cnt = Cardinality(Here(entry[j]))
          /\ j \in DOMAIN lengths =>
               \A r \in Here(entry[j]), c \in Offset : entry[j].buf[r][c] = img[j][r][c]
          /\ j \notin DOMAIN lengths => Here(entry[j]) = {} /\ out[j] = <<>>
      BY DEF ImageSound, EntriesOK
    <3>2. entry'[j] = entry[j] /\ out'[j] = out[j]
      BY <1>15, <1>17, <2>4
    <3> QED BY <1>6, <2>2, <3>1, <3>2
  <2> QED BY <2>3, <2>4
<1>22. OneCopy'
  <2>1. OneCopy
    BY DEF ImageSound
  <2>2. \A d \in wire : d.fec => ~SameRow(d, m)
    BY <1>1, <1>2, <2>1 DEF OneCopy
  <2>3. \A s \in Pending' : ~SameRow(rbuf[s], m)
    BY <1>1, <1>2, <1>5, <1>9, <2>1 DEF OneCopy
  <2>4. \A d, j : j \in 1 .. MaxFrames /\ d.n = j /\ d.fec /\ ~SameRow(d, m)
                  /\ d.row \notin Here(entry[j]) => d.row \notin Here(entry'[j])
    BY <1>3, <1>4, <1>14, <1>15, <1>16 DEF SameRow
  <2>5. \A j \in DOMAIN lengths : j \in 1 .. MaxFrames
    BY <1>1, FrameConstants DEF Types
  <2>6. \A d \in wire : d.fec => d.row \notin Here(entry'[d.n])
    BY <2>1, <2>2, <2>4, <2>5 DEF ImageSound, WireOK, OneCopy
  <2>7. \A s \in Pending' : rbuf[s].fec => rbuf[s].row \notin Here(entry'[rbuf[s].n])
    BY <1>9, <2>1, <2>3, <2>4, <2>5 DEF ImageSound, SlotsOK, OneCopy
  <2>8. \A j : Here(entry[j])' = Here(entry'[j])
    BY DEF Here
  <2> QED BY <1>6, <1>9, <2>1, <2>6, <2>7, <2>8 DEF OneCopy, SameRow, Here
<1>23. Explained'
  <2>1. \A j : SizeWritten(lengths[j])' = SizeWritten(lengths[j])
    BY <1>6 DEF SizeWritten, IsFec, Cut
  <2>2. \A j \in DOMAIN lengths : j \in 1 .. MaxFrames
    BY <1>1, FrameConstants DEF Types
  <2> QED BY <1>6, <1>17, <2>1, <2>2 DEF ImageSound, Explained
<1> QED BY <1>18, <1>19, <1>20, <1>21, <1>22, <1>23 DEF ImageSound

-----------------------------------------------------------------------------
\* At every point between recvmmsg, fec_recv_done and reed_solomon_reconstruct
\* (ustun.c, rs.c) each buffer holds the image of one packet as far as it arrived.
THEOREM InvarianceFrames == FramesSpec => []FramesInv
<1>1. FramesInit => FramesInv
  BY InitSound
<1>2. FramesInv /\ [FramesNext]_frameVars => FramesInv'
  <2>1. SUFFICES ASSUME NEW img, ImageSound(img), [FramesNext]_frameVars PROVE FramesInv'
    BY DEF FramesInv
  <2>2. CASE SendFrame
    BY <2>1, <2>2, SendSound
  <2>3. ASSUME NEW d \in wire, Arrive(d) PROVE FramesInv'
    BY <2>1, <2>3, ArriveSound DEF FramesInv
  <2>4. CASE Recvmmsg
    BY <2>1, <2>4, RecvmmsgSound DEF FramesInv
  <2>5. CASE slot > 0 /\ HandleFrame
    BY <2>1, <2>5, HandleSound DEF FramesInv
  <2>6. CASE UNCHANGED frameVars
    <3>1. UNCHANGED <<gl_fec, lengths, payload, wire, rbuf, filled, slot, entry, out>>
      BY <2>6 DEF frameVars
    <3>2. Types' /\ ImagesOK(img)' /\ WireOK(img)' /\ Explained'
      BY <2>1, <3>1 DEF ImageSound, Types, SlotShape, EntryShape, ImagesOK, WireOK, IsFec, ShardOK, WholeOK,
                        HoldsPacket, HoldsParity, Explained, SizeWritten, Cut
    <3>3. Pending' = Pending /\ \A j : Here(entry[j])' = Here(entry[j])
      BY <3>1 DEF Pending, Here
    <3>4. SlotsOK(img)'
      BY <2>1, <3>1, <3>3 DEF ImageSound, SlotsOK, IsFec, ShardOK, WholeOK, Cut
    <3>5. EntriesOK(img)'
      BY <2>1, <3>1, <3>3 DEF ImageSound, EntriesOK, IsFec, ShardOK, WholeOK, Cut
    <3>6. OneCopy'
      BY <2>1, <3>1, <3>3 DEF ImageSound, OneCopy, SameRow
    <3> QED BY <3>2, <3>4, <3>5, <3>6 DEF ImageSound, FramesInv
  <2> QED BY <2>1, <2>2, <2>3, <2>4, <2>5, <2>6 DEF FramesNext
<1> QED BY <1>1, <1>2, PTL DEF FramesSpec

\* For every code, buffer size, batch and sequence of packets: what is written to
\* the TUN device is the packet that was sent, byte for byte, cut only where the
\* receive buffer is too short for a packet sent whole.
THEOREM PacketsExplained == FramesSpec => []FramesExplained
<1>1. FramesInv => FramesExplained
  BY DEF FramesInv, ImageSound, Explained, FramesExplained, SizeWritten, PacketBytes
<1> QED BY <1>1, InvarianceFrames, PTL

\* No slot of the batch is read that was not filled, and no packet that is written
\* is longer than a buffer.
THEOREM FramesTypes == FramesSpec => []FramesTypeOK
<1>1. FramesInv => FramesTypeOK
  <2>1. SUFFICES ASSUME NEW img, ImageSound(img) PROVE FramesTypeOK
    BY DEF FramesInv
  <2>2. \A n \in DOMAIN out : Len(out[n]) <= BUFFER_SIZE
    <3>1. SUFFICES ASSUME NEW n \in DOMAIN out PROVE Len(out[n]) <= BUFFER_SIZE
      OBVIOUS
    <3>2. CASE out[n] = <<>>
      BY <3>2, FrameConstants
    <3>3. CASE out[n] # <<>>
      <4>1. n \in DOMAIN lengths
        BY <2>1, <3>3 DEF ImageSound, Types, EntriesOK
      <4>2. lengths[n] \in PacketLen
        BY <2>1, <4>1 DEF ImageSound, Types
      <4>3. lengths[n] \in Nat /\ lengths[n] <= BUFFER_SIZE
        <5>1. lengths[n] \in 1 .. BUFFER_SIZE
          BY <4>2, FrameConstants
        <5> QED BY <5>1, FrameConstants
      <4>4. SizeWritten(lengths[n]) \in Nat /\ SizeWritten(lengths[n]) <= BUFFER_SIZE
        BY <4>3, CutBounds, FrameConstants DEF SizeWritten
      <4>5. out[n] = PacketBytes(n, SizeWritten(lengths[n]))
        BY <2>1, <3>3, <4>1 DEF ImageSound, Explained
      <4> QED BY <4>4, <4>5 DEF PacketBytes
    <3> QED BY <3>2, <3>3
  <2> QED BY <2>1, <2>2 DEF ImageSound, Types, FramesTypeOK
<1> QED BY <1>1, InvarianceFrames, PTL

-----------------------------------------------------------------------------
(* Oblas: a product of the field, put together from the halves of a byte *)

LEMMA BitsFinite ==
  ASSUME NEW S \in SUBSET Bit
  PROVE  IsFiniteSet(S)
<1>1. IsFiniteSet(Bit)
  <2>1. 0 \in Int /\ 7 \in Int
    OBVIOUS
  <2>2. IsFiniteSet(0 .. 7)
    BY <2>1, FS_Interval, Zenon
  <2> QED BY <2>2 DEF Bit
<1> QED BY <1>1, FS_Subset

\* The pairs of bits whose product has a bit are finitely many.
Pairs(f, b, n) == {t \in f \X b : n \in Power(t[1] + t[2])}

LEMMA PairsFinite ==
  ASSUME NEW f \in Byte, NEW b \in Byte, NEW n
  PROVE  IsFiniteSet(Pairs(f, b, n)) /\ Cardinality(Pairs(f, b, n)) \in Nat
<1>1. IsFiniteSet(f) /\ IsFiniteSet(b)
  BY BitsFinite DEF Byte
<1>2. IsFiniteSet(f \X b)
  BY <1>1, FS_Product
<1>3. Pairs(f, b, n) \in SUBSET (f \X b)
  BY DEF Pairs
<1> QED BY <1>2, <1>3, FS_Subset, FS_CardinalityType

LEMMA ParityAdds ==
  ASSUME NEW a \in Nat, NEW b \in Nat
  PROVE  (a + b) % 2 = 1 <=> ~(a % 2 = 1 <=> b % 2 = 1)
OBVIOUS

\* Multiplication adds up over the bits of a byte: the terms of the two halves
\* are different ones.
LEMMA MulAdds ==
  ASSUME NEW f \in Byte, NEW b \in Byte, NEW c \in Byte, b \cap c = {}
  PROVE  Mul(f, b \cup c) = Xor(Mul(f, b), Mul(f, c))
<1>1. ASSUME NEW n \in Bit
      PROVE  Odd(Pairs(f, b \cup c, n)) <=> ~(Odd(Pairs(f, b, n)) <=> Odd(Pairs(f, c, n)))
  <2> DEFINE B == Pairs(f, b, n)  C == Pairs(f, c, n)
  <2>1. Pairs(f, b \cup c, n) = B \cup C
    BY DEF Pairs
  <2>2. B \cap C = {}
    BY DEF Pairs
  <2>3. IsFiniteSet(B) /\ IsFiniteSet(C) /\ Cardinality(B) \in Nat /\ Cardinality(C) \in Nat
    BY PairsFinite
  <2> HIDE DEF B, C
  <2>4. Cardinality(B \cup C) = Cardinality(B) + Cardinality(C) - Cardinality(B \cap C)
    BY <2>3, FS_Union
  <2>5. Cardinality(B \cap C) = 0
    BY <2>2, FS_EmptySet
  <2>6. Cardinality(B \cup C) = Cardinality(B) + Cardinality(C)
    BY <2>3, <2>4, <2>5
  <2>7. Odd(B \cup C) <=> ~(Odd(B) <=> Odd(C))
    BY <2>3, <2>6, ParityAdds DEF Odd
  <2> QED BY <2>1, <2>7 DEF B, C
<1> QED BY <1>1 DEF Mul, Xor, Pairs

LEMMA MulTypes ==
  ASSUME NEW f, NEW b
  PROVE  Mul(f, b) \in Byte
BY DEF Mul, Byte

LEMMA XorTypes ==
  ASSUME NEW a \in Byte, NEW b \in Byte
  PROVE  Xor(a, b) \in Byte
BY DEF Xor, Byte

\* One times a byte is the byte.
LEMMA OneTimes ==
  ASSUME NEW b \in Byte
  PROVE  Mul(One, b) = b
<1>1. ASSUME NEW n \in Bit
      PROVE  Odd(Pairs(One, b, n)) <=> n \in b
  <2>1. ASSUME NEW t \in One \X b
        PROVE  t = <<0, t[2]>> /\ t[2] \in b /\ Power(t[1] + t[2]) = {t[2]}
    <3>1. t = <<0, t[2]>> /\ t[1] = 0 /\ t[2] \in b
      BY DEF One
    <3>2. t[2] \in 0 .. 7
      BY <3>1 DEF Byte, Bit
    <3>3. 0 + t[2] = t[2] /\ t[2] < 8
      BY <3>2
    <3> QED BY <3>1, <3>3 DEF Power
  <2>2. CASE n \in b
    <3>1. Pairs(One, b, n) = {<<0, n>>}
      <4>1. <<0, n>> \in One \X b
        BY <2>2 DEF One
      <4>2. \A t \in One \X b : n \in Power(t[1] + t[2]) <=> t[2] = n
        BY <2>1
      <4> QED BY <2>1, <4>1, <4>2 DEF Pairs
    <3>2. Cardinality(Pairs(One, b, n)) = 1
      BY <3>1, FS_Singleton
    <3> QED BY <2>2, <3>2 DEF Odd
  <2>3. CASE n \notin b
    <3>1. Pairs(One, b, n) = {}
      BY <2>1, <2>3 DEF Pairs
    <3>2. Cardinality(Pairs(One, b, n)) = 0
      BY <3>1, FS_EmptySet
    <3> QED BY <2>3, <3>2 DEF Odd
  <2> QED BY <2>2, <2>3
<1>2. Mul(One, b) = {n \in Bit : n \in b}
  BY <1>1 DEF Mul, Pairs
<1> QED BY <1>2 DEF Byte

-----------------------------------------------------------------------------
(* The half of a byte as an index *)

Weight(b, n) == IF n \in b THEN 2^n ELSE 0
Index(b) == Weight(b, 0) + Weight(b, 1) + Weight(b, 2) + Weight(b, 3)

LEMMA Powers ==
  /\ 2^0 = 1 /\ 2^1 = 2 /\ 2^2 = 4 /\ 2^3 = 8 /\ 2^4 = 16 /\ 2^5 = 32 /\ 2^6 = 64 /\ 2^7 = 128
OBVIOUS

LEMMA IndexIs ==
  ASSUME NEW b \in SUBSET (0 .. 3)
  PROVE  \E p, q, r, s \in 0 .. 1 :
           /\ (p = 1 <=> 0 \in b) /\ (q = 1 <=> 1 \in b) /\ (r = 1 <=> 2 \in b) /\ (s = 1 <=> 3 \in b)
           /\ Index(b) = p + 2 * q + 4 * r + 8 * s
<1> DEFINE One0(n) == IF n \in b THEN 1 ELSE 0
<1>1. /\ Weight(b, 0) = One0(0) /\ Weight(b, 1) = 2 * One0(1) /\ Weight(b, 2) = 4 * One0(2)
      /\ Weight(b, 3) = 8 * One0(3)
  BY Powers DEF Weight
<1>2. \A n \in 0 .. 3 : One0(n) \in 0 .. 1 /\ (One0(n) = 1 <=> n \in b)
  OBVIOUS
<1> HIDE DEF One0
<1>3. Index(b) = One0(0) + 2 * One0(1) + 4 * One0(2) + 8 * One0(3)
  BY <1>1 DEF Index
<1> QED BY <1>2, <1>3

\* The bits of the number of a half are the half; of 16 times the number, the half
\* in the upper place.
LEMMA BitsOfIndex ==
  ASSUME NEW b \in SUBSET (0 .. 3)
  PROVE  /\ Index(b) \in 0 .. 15
         /\ BitsOf(Index(b)) = b
         /\ BitsOf(Index(b) * 16) = {n \in Bit : n >= 4 /\ n - 4 \in b}
<1>1. PICK p, q, r, s \in 0 .. 1 :
        /\ (p = 1 <=> 0 \in b) /\ (q = 1 <=> 1 \in b) /\ (r = 1 <=> 2 \in b) /\ (s = 1 <=> 3 \in b)
        /\ Index(b) = p + 2 * q + 4 * r + 8 * s
  BY IndexIs
<1> DEFINE m == p + 2 * q + 4 * r + 8 * s
<1>2. m \in 0 .. 15
  OBVIOUS
<1>3. /\ (m \div 1) % 2 = p /\ (m \div 2) % 2 = q /\ (m \div 4) % 2 = r /\ (m \div 8) % 2 = s
      /\ (m \div 16) % 2 = 0 /\ (m \div 32) % 2 = 0 /\ (m \div 64) % 2 = 0 /\ (m \div 128) % 2 = 0
  OBVIOUS
<1>4. /\ ((m * 16) \div 1) % 2 = 0 /\ ((m * 16) \div 2) % 2 = 0 /\ ((m * 16) \div 4) % 2 = 0
      /\ ((m * 16) \div 8) % 2 = 0
      /\ ((m * 16) \div 16) % 2 = p /\ ((m * 16) \div 32) % 2 = q /\ ((m * 16) \div 64) % 2 = r
      /\ ((m * 16) \div 128) % 2 = s
  OBVIOUS
<1> HIDE DEF m
<1>5. BitsOf(m) = b
  <2>1. ASSUME NEW n \in Bit PROVE (m \div 2^n) % 2 = 1 <=> n \in b
    <3>1. CASE n = 0 BY <1>1, <1>3, <3>1, Powers
    <3>2. CASE n = 1 BY <1>1, <1>3, <3>2, Powers
    <3>3. CASE n = 2 BY <1>1, <1>3, <3>3, Powers
    <3>4. CASE n = 3 BY <1>1, <1>3, <3>4, Powers
    <3>5. CASE n = 4 BY <1>1, <1>3, <3>5, Powers
    <3>6. CASE n = 5 BY <1>1, <1>3, <3>6, Powers
    <3>7. CASE n = 6 BY <1>1, <1>3, <3>7, Powers
    <3>8. CASE n = 7 BY <1>1, <1>3, <3>8, Powers
    <3> QED BY <3>1, <3>2, <3>3, <3>4, <3>5, <3>6, <3>7, <3>8 DEF Bit
  <2>2. b \subseteq Bit
    BY DEF Bit
  <2> QED BY <2>1, <2>2 DEF BitsOf
<1>6. BitsOf(m * 16) = {n \in Bit : n >= 4 /\ n - 4 \in b}
  <2>1. ASSUME NEW n \in Bit PROVE ((m * 16) \div 2^n) % 2 = 1 <=> n >= 4 /\ n - 4 \in b
    <3>1. CASE n = 0 BY <1>4, <3>1, Powers
    <3>2. CASE n = 1 BY <1>4, <3>2, Powers
    <3>3. CASE n = 2 BY <1>4, <3>3, Powers
    <3>4. CASE n = 3 BY <1>4, <3>4, Powers
    <3>5. CASE n = 4 BY <1>1, <1>4, <3>5, Powers
    <3>6. CASE n = 5 BY <1>1, <1>4, <3>6, Powers
    <3>7. CASE n = 6 BY <1>1, <1>4, <3>7, Powers
    <3>8. CASE n = 7 BY <1>1, <1>4, <3>8, Powers
    <3> QED BY <3>1, <3>2, <3>3, <3>4, <3>5, <3>6, <3>7, <3>8 DEF Bit
  <2> QED BY <2>1 DEF BitsOf
<1> QED BY <1>1, <1>2, <1>5, <1>6 DEF m

\* A table of sixteen products, looked up with halves of the bytes of a block.
LEMMA Shuffled ==
  ASSUME NEW table, NEW v, \A i \in DOMAIN v : v[i] \in SUBSET (0 .. 3)
  PROVE  /\ DOMAIN Shuffle(table, v) = DOMAIN v
         /\ \A i \in DOMAIN v : Shuffle(table, v)[i] = table[Index(v[i])]
<1>1. \A i \in DOMAIN v : 7 \notin v[i]
  OBVIOUS
<1> QED BY <1>1 DEF Shuffle, Index, Weight

\* OBL_SHUF computes the products of the field, byte by byte, for all blocks.
LEMMA ProductsAre ==
  ASSUME NEW f \in Byte, NEW v, \A i \in DOMAIN v : v[i] \in Byte
  PROVE  /\ DOMAIN Products(f, v) = DOMAIN v
         /\ \A i \in DOMAIN v : Products(f, v)[i] = Mul(f, v[i])
<1> DEFINE low == LowHalf(v)
           high == LowHalf(ShiftRight4(v))
           lo == Shuffle(ShufLo(f), low)
           hi == Shuffle(ShufHi(f), high)
<1>1. DOMAIN low = DOMAIN v /\ \A i \in DOMAIN v : low[i] = v[i] \cap (0 .. 3)
  BY DEF LowHalf
<1>2. DOMAIN high = DOMAIN v /\ \A i \in DOMAIN v : high[i] = {n \in 0 .. 3 : n + 4 \in v[i]}
  <2> DEFINE w == ShiftRight4(v)
  <2>1. DOMAIN w = DOMAIN v
    BY DEF ShiftRight4
  <2>2. ASSUME NEW i \in DOMAIN v PROVE w[i] \cap (0 .. 3) = {n \in 0 .. 3 : n + 4 \in v[i]}
    <3>1. w[i] = {b \in Bit : IF b < 4 THEN b + 4 \in v[i] ELSE i % 8 # 7 /\ b - 4 \in v[i + 1]}
      BY DEF ShiftRight4
    <3>2. \A b \in 0 .. 3 : b \in Bit /\ b < 4
      BY DEF Bit
    <3> HIDE DEF w
    <3> QED BY <3>1, <3>2
  <2> HIDE DEF w
  <2>3. DOMAIN LowHalf(w) = DOMAIN v /\ \A i \in DOMAIN v : LowHalf(w)[i] = w[i] \cap (0 .. 3)
    BY <2>1 DEF LowHalf
  <2> QED BY <2>2, <2>3 DEF w
<1> HIDE DEF low, high
<1>3. ASSUME NEW i \in DOMAIN v
      PROVE  lo[i] = Mul(f, v[i] \cap (0 .. 3)) /\ hi[i] = Mul(f, v[i] \ (0 .. 3))
  <2>1. low[i] \in SUBSET (0 .. 3) /\ high[i] \in SUBSET (0 .. 3)
    BY <1>1, <1>2
  <2>2. Index(low[i]) \in 0 .. 15 /\ Index(high[i]) \in 0 .. 15
    BY <2>1, BitsOfIndex
  <2>3. lo[i] = ShufLo(f)[Index(low[i])] /\ hi[i] = ShufHi(f)[Index(high[i])]
    BY <1>1, <1>2, Shuffled
  <2>4. lo[i] = Mul(f, BitsOf(Index(low[i]))) /\ hi[i] = Mul(f, BitsOf(Index(high[i]) * 16))
    BY <2>2, <2>3 DEF ShufLo, ShufHi
  <2>5. BitsOf(Index(low[i])) = v[i] \cap (0 .. 3)
    BY <1>1, <2>1, BitsOfIndex
  <2>6. BitsOf(Index(high[i]) * 16) = v[i] \ (0 .. 3)
    <3>1. BitsOf(Index(high[i]) * 16) = {n \in Bit : n >= 4 /\ n - 4 \in high[i]}
      BY <2>1, BitsOfIndex
    <3>2. \A n \in Bit : n >= 4 /\ n - 4 \in high[i] <=> n \in v[i] /\ n \notin 0 .. 3
      BY <1>2 DEF Bit
    <3>3. v[i] \subseteq Bit
      BY DEF Byte
    <3> QED BY <3>1, <3>2, <3>3
  <2> HIDE DEF lo, hi
  <2> QED BY <2>4, <2>5, <2>6
<1>4. DOMAIN lo = DOMAIN v
  BY <1>1, Shuffled
<1>5. Products(f, v) = [i \in DOMAIN v |-> Xor(lo[i], hi[i])]
  BY DEF Products, low, high
<1>6. ASSUME NEW i \in DOMAIN v
      PROVE  Xor(lo[i], hi[i]) = Mul(f, v[i])
  <2> DEFINE b == v[i] \cap (0 .. 3)  c == v[i] \ (0 .. 3)
  <2>1. b \in Byte /\ c \in Byte /\ b \cap c = {} /\ b \cup c = v[i]
    BY DEF Byte
  <2> HIDE DEF b, c
  <2>2. Mul(f, b \cup c) = Xor(Mul(f, b), Mul(f, c))
    BY <2>1, MulAdds
  <2> HIDE DEF lo, hi
  <2> QED BY <1>3, <2>1, <2>2 DEF b, c
<1> HIDE DEF lo, hi
<1> QED BY <1>5, <1>6

-----------------------------------------------------------------------------
(* Oblas: the loops *)

Places == 0 .. (k + GUARD - 1)

\* The rows and the mask, as far as the routine has them.
RowsGiven ==
  /\ start.row \in [Places -> Byte]
  /\ op # "axpyb32" => other \in [Places -> Byte] /\ start.other \in [Places -> Byte]
  /\ op # "swap" => other = start.other
  /\ op = "swap" =>
       \A i \in Places : other[i] = IF i < off THEN start.row[i] ELSE start.other[i]

\* Blocks start at multiples of the width; what is left of the row is shorter than one.
BlocksAligned == op # "axpyb32" /\ ~Plain => off >= BlocksEnd \/ off % width = 0

\* The words of a mask: with 64 byte vectors only the first 32 bytes come out right.
WordsScattered ==
  op = "axpyb32" =>
    /\ k % 32 = 0 /\ off % Span = 0
    /\ off > 0 => k > 0
    /\ width # 64 =>
         /\ off <= k
         /\ \A i \in Places : row[i] = IF i < off THEN Meant(i) ELSE start.row[i]
    /\ width = 64 =>
         \A i \in Places : i < 32 => row[i] = IF off > 0 THEN Meant(i) ELSE start.row[i]

OblInv == OblTypeOK /\ RowsGiven /\ BlocksAligned /\ RowsAgree /\ WordsScattered

LEMMA OblTypes ==
  ASSUME OblTypeOK
  PROVE  /\ width \in {0, 16, 32, 64} /\ u \in Byte /\ k \in Nat /\ off \in Nat
         /\ row \in [Places -> Byte] /\ Places = DOMAIN row /\ Places \subseteq Nat
<1>1. width \in Width /\ u \in Factors /\ k \in RowLen /\ row \in [Places -> Byte]
  BY DEF OblTypeOK, Places
<1>2. width \in {0, 16, 32, 64} /\ u \in Byte /\ k \in Nat
  BY <1>1, OblasAssumption
<1>3. off \in Nat
  BY <1>2 DEF OblTypeOK
<1> QED BY <1>1, <1>2, <1>3 DEF Places

LEMMA RowOfTypes ==
  ASSUME NEW n \in Nat, NEW seed \in Nat
  PROVE  RowOf(seed, n) \in [0 .. (n - 1) -> Byte]
BY DEF RowOf, BitsOf, Byte

LEMMA InitObl ==
  ASSUME OblInit
  PROVE  OblInv
<1>1. /\ op \in {"axpy", "scal", "swap", "axpyb32"}
      /\ width \in Width /\ u \in Factors /\ k \in RowLen /\ k \in Nat
      /\ op = "axpyb32" => k % 32 = 0
      /\ off = 0
      /\ start.row = row /\ start.other = other
  BY OblasAssumption DEF OblInit
<1>2. row \in [Places -> Byte] /\ (op # "axpyb32" => other \in [Places -> Byte])
  <2>1. PICK seed \in Seed :
          /\ row = RowOf(seed, k + GUARD)
          /\ other = IF op = "axpyb32" THEN MaskOf(seed) ELSE RowOf(seed + 3, k + GUARD)
    BY DEF OblInit
  <2>2. seed \in Nat /\ seed + 3 \in Nat /\ k + GUARD \in Nat
    BY <1>1, OblasAssumption DEF GUARD
  <2>3. Places = 0 .. ((k + GUARD) - 1)
    BY <1>1 DEF Places, GUARD
  <2>4. RowOf(seed, k + GUARD) \in [Places -> Byte] /\ RowOf(seed + 3, k + GUARD) \in [Places -> Byte]
    BY <2>2, <2>3, RowOfTypes, Zenon
  <2> QED BY <2>1, <2>4
<1>3. Places \subseteq Nat /\ DOMAIN row = Places
  BY <1>1, <1>2 DEF Places
<1>4. OblTypeOK
  <2>1. off \in 0 .. (IF op = "axpyb32" THEN k + 32 ELSE k)
    BY <1>1
  <2> QED BY <1>1, <1>2, <2>1 DEF OblTypeOK, Places
<1>5. RowsGiven
  BY <1>1, <1>2, <1>3 DEF RowsGiven
<1>6. BlocksAligned
  <2>1. width \in {0, 16, 32, 64}
    BY <1>1, OblasAssumption
  <2> QED BY <1>1, <2>1 DEF BlocksAligned, BlocksEnd
<1>7. RowsAgree
  <2>1. \A i \in Places : i \in Nat
    BY <1>3
  <2>2. \A i \in Nat : ~(i < 0)
    OBVIOUS
  <2>3. \A i \in Places : ~(i < off) /\ row[i] = start.row[i]
    BY <1>1, <2>1, <2>2, Zenon
  <2> QED BY <1>3, <2>3 DEF RowsAgree
<1>8. WordsScattered
  BY <1>1, <1>3 DEF WordsScattered, Span
<1> QED BY <1>4, <1>5, <1>6, <1>7, <1>8 DEF OblInv

-----------------------------------------------------------------------------
(* A step leaves the call alone: what should become of a byte stays the same. *)

LEMMA MeantStays ==
  ASSUME op' = op, u' = u, start' = start, NEW i
  PROVE  Meant(i)' = Meant(i)
BY DEF Meant

LEMMA BytePlain ==
  ASSUME OblInv, PlainByte
  PROVE  OblInv'
<1>1. /\ width \in {0, 16, 32, 64} /\ u \in Byte /\ k \in Nat /\ off \in Nat
      /\ row \in [Places -> Byte] /\ Places = DOMAIN row /\ Places \subseteq Nat
  BY OblTypes DEF OblInv
<1>2. /\ off < k /\ off' = off + 1
      /\ op' = op /\ width' = width /\ u' = u /\ k' = k /\ start' = start
      /\ op = "swap" \/ (op = "axpy" /\ u = One)
  BY DEF PlainByte, Plain
<1>3. off \in Places /\ Places' = Places
  BY <1>1, <1>2 DEF Places, GUARD
<1>4. other \in [Places -> Byte] /\ start.other \in [Places -> Byte] /\ start.row \in [Places -> Byte]
  BY <1>2 DEF OblInv, RowsGiven
<1>5. /\ op = "swap" => row' = [row EXCEPT ![off] = other[off]] /\ other' = [other EXCEPT ![off] = row[off]]
      /\ op = "axpy" => row' = [row EXCEPT ![off] = Xor(row[off], other[off])] /\ other' = other
  BY DEF PlainByte
<1>6. \A i \in Places : row[i] = IF i < off THEN Meant(i) ELSE start.row[i]
  BY <1>1, <1>2 DEF OblInv, RowsAgree
<1>7. CASE op = "swap"
  <2>1. row' = [row EXCEPT ![off] = other[off]] /\ other' = [other EXCEPT ![off] = row[off]]
    BY <1>5, <1>7
  <2>2. row' \in [Places -> Byte] /\ other' \in [Places -> Byte]
    BY <1>1, <1>3, <1>4, <2>1
  <2>3. \A i \in Places : other[i] = IF i < off THEN start.row[i] ELSE start.other[i]
    BY <1>7 DEF OblInv, RowsGiven
  <2>4. row[off] = start.row[off] /\ other[off] = start.other[off]
    BY <1>1, <1>3, <1>6, <2>3
  <2>5. \A i : Meant(i) = start.other[i]
    BY <1>7 DEF Meant
  <2>6. ASSUME NEW i \in Places
        PROVE  /\ row'[i] = IF i < off + 1 THEN Meant(i) ELSE start.row[i]
               /\ other'[i] = IF i < off + 1 THEN start.row[i] ELSE start.other[i]
    <3>1. i \in Nat
      BY <1>1
    <3>2. CASE i = off
      BY <1>1, <1>3, <1>4, <2>1, <2>4, <2>5, <3>2
    <3>3. CASE i # off
      <4>1. row'[i] = row[i] /\ other'[i] = other[i]
        BY <1>1, <1>3, <1>4, <2>1, <3>3
      <4>2. i < off + 1 <=> i < off
        BY <1>1, <3>1, <3>3
      <4> QED BY <1>6, <2>3, <4>1, <4>2
    <3> QED BY <3>2, <3>3
  <2>7. OblTypeOK'
    <3>1. off' \in 0 .. k'
      BY <1>1, <1>2
    <3> QED BY <1>2, <1>3, <1>7, <2>2, <3>1 DEF OblInv, OblTypeOK, Places
  <2>8. RowsGiven'
    BY <1>2, <1>3, <1>4, <1>7, <2>2, <2>6 DEF RowsGiven
  <2>9. RowsAgree'
    <3>1. DOMAIN row' = Places
      BY <2>2
    <3>2. \A i \in Places : Meant(i)' = Meant(i)
      BY <1>2, MeantStays
    <3> QED BY <1>2, <2>6, <3>1, <3>2 DEF RowsAgree
  <2>10. BlocksAligned' /\ WordsScattered'
    BY <1>2, <1>7 DEF BlocksAligned, Plain, WordsScattered
  <2> QED BY <2>7, <2>8, <2>9, <2>10 DEF OblInv
<1>8. CASE op = "axpy" /\ u = One
  <2>1. row' = [row EXCEPT ![off] = Xor(row[off], other[off])] /\ other' = other
    BY <1>5, <1>8
  <2>2. row[off] \in Byte /\ other[off] \in Byte
    BY <1>1, <1>3, <1>4
  <2>3. Xor(row[off], other[off]) \in Byte
    BY <2>2, XorTypes
  <2>4. row' \in [Places -> Byte]
    BY <1>1, <1>3, <2>1, <2>3
  <2>5. other = start.other
    BY <1>8 DEF OblInv, RowsGiven
  <2>6. \A i : Meant(i) = Xor(start.row[i], Mul(One, start.other[i]))
    BY <1>8 DEF Meant
  <2>7. row'[off] = Meant(off)
    <3>1. Mul(One, start.other[off]) = start.other[off]
      BY <2>2, <2>5, OneTimes
    <3>2. row[off] = start.row[off]
      BY <1>1, <1>3, <1>6
    <3>3. row'[off] = Xor(row[off], other[off])
      BY <1>1, <1>3, <2>1
    <3> QED BY <2>5, <2>6, <3>1, <3>2, <3>3
  <2>8. ASSUME NEW i \in Places
        PROVE  row'[i] = IF i < off + 1 THEN Meant(i) ELSE start.row[i]
    <3>1. i \in Nat
      BY <1>1
    <3>2. CASE i = off
      BY <1>1, <2>7, <3>2
    <3>3. CASE i # off
      <4>1. row'[i] = row[i]
        BY <1>1, <1>3, <2>1, <3>3
      <4>2. i < off + 1 <=> i < off
        BY <1>1, <3>1, <3>3
      <4> QED BY <1>6, <4>1, <4>2
    <3> QED BY <3>2, <3>3
  <2>9. OblTypeOK'
    <3>1. off' \in 0 .. k'
      BY <1>1, <1>2
    <3> QED BY <1>2, <1>3, <1>8, <2>4, <3>1 DEF OblInv, OblTypeOK, Places
  <2>10. RowsGiven'
    BY <1>2, <1>3, <1>4, <1>8, <2>1, <2>5 DEF RowsGiven
  <2>11. RowsAgree'
    <3>1. DOMAIN row' = Places
      BY <2>4
    <3>2. \A i \in Places : Meant(i)' = Meant(i)
      BY <1>2, MeantStays
    <3> QED BY <1>2, <2>8, <3>1, <3>2 DEF RowsAgree
  <2>12. BlocksAligned' /\ WordsScattered'
    BY <1>2, <1>8 DEF BlocksAligned, Plain, WordsScattered
  <2> QED BY <2>9, <2>10, <2>11, <2>12 DEF OblInv
<1> QED BY <1>2, <1>7, <1>8

LEMMA SpanFacts ==
  ASSUME NEW a \in Nat, NEW b \in Nat, NEW i \in Nat, a < b
  PROVE  /\ i \in a .. (b - 1) <=> i >= a /\ i < b
         /\ i < a => i < b /\ i \notin a .. (b - 1)
         /\ ~(i < a) => (i < b <=> i \in a .. (b - 1))
OBVIOUS

\* A row that a step has done as far as `done`, with the products it should hold.
LEMMA RowDone ==
  ASSUME OblInv, op \in {"axpy", "scal"}, ~Plain,
         op' = op, width' = width, u' = u, k' = k, start' = start, other' = other,
         off' \in Nat, off < off', off' <= k,
         off' >= BlocksEnd \/ off' % width = 0,
         row' = [i \in Places |-> IF i \in off .. (off' - 1) THEN Meant(i) ELSE row[i]]
  PROVE  OblInv'
<1>1. /\ width \in {0, 16, 32, 64} /\ u \in Byte /\ k \in Nat /\ off \in Nat
      /\ row \in [Places -> Byte] /\ Places = DOMAIN row /\ Places \subseteq Nat
  BY OblTypes DEF OblInv
<1>2. Places' = Places
  BY DEF Places
<1>3. other \in [Places -> Byte] /\ start.other \in [Places -> Byte] /\ start.row \in [Places -> Byte]
  BY DEF OblInv, RowsGiven
<1>4. \A i \in Places : row[i] = IF i < off THEN Meant(i) ELSE start.row[i]
  BY <1>1 DEF OblInv, RowsAgree
<1>5. \A i \in Places : Meant(i) \in Byte
  BY <1>3, XorTypes, MulTypes DEF Meant
<1>6. row' \in [Places -> Byte]
  <2>1. \A i \in Places : (IF i \in off .. (off' - 1) THEN Meant(i) ELSE row[i]) \in Byte
    BY <1>1, <1>5
  <2> QED BY <2>1
<1>7. OblTypeOK'
  <2>1. off' \in 0 .. k'
    BY <1>1
  <2> QED BY <1>2, <1>6, <2>1 DEF OblInv, OblTypeOK, Places
<1>8. RowsGiven'
  BY <1>2, <1>3 DEF RowsGiven, OblInv
<1>9. RowsAgree'
  <2>1. ASSUME NEW i \in Places
        PROVE  row'[i] = IF i < off' THEN Meant(i) ELSE start.row[i]
    <3>1. i \in Nat
      BY <1>1
    <3>2. row'[i] = IF i \in off .. (off' - 1) THEN Meant(i) ELSE row[i]
      OBVIOUS
    <3>3. row[i] = IF i < off THEN Meant(i) ELSE start.row[i]
      BY <1>4
    <3>4. /\ i < off => i < off' /\ i \notin off .. (off' - 1)
          /\ ~(i < off) => (i < off' <=> i \in off .. (off' - 1))
      BY <1>1, <3>1, SpanFacts, Zenon
    <3> QED BY <3>2, <3>3, <3>4, Zenon
  <2>2. \A i \in Places : Meant(i)' = Meant(i)
    BY MeantStays
  <2>3. DOMAIN row' = Places
    BY <1>6
  <2> QED BY <2>1, <2>2, <2>3 DEF RowsAgree
<1>10. BlocksAligned' /\ WordsScattered'
  BY DEF BlocksAligned, BlocksEnd, Plain, WordsScattered
<1> QED BY <1>7, <1>8, <1>9, <1>10 DEF OblInv

LEMMA OperandIs ==
  ASSUME OblInv, op \in {"axpy", "scal"}, NEW i \in Places, ~(i < off)
  PROVE  /\ Operand[i] \in Byte
         /\ Meant(i) = IF op = "scal" THEN Mul(u, Operand[i]) ELSE Xor(row[i], Mul(u, Operand[i]))
<1>1. row[i] = start.row[i] /\ row[i] \in Byte /\ other[i] = start.other[i] /\ other[i] \in Byte
  <2>1. row \in [Places -> Byte] /\ Places = DOMAIN row
    BY OblTypes DEF OblInv
  <2>2. row[i] = IF i < off THEN Meant(i) ELSE start.row[i]
    BY <2>1 DEF OblInv, RowsAgree
  <2>3. other \in [Places -> Byte] /\ other = start.other
    BY DEF OblInv, RowsGiven
  <2> QED BY <2>1, <2>2, <2>3
<1> QED BY <1>1 DEF Meant, Operand

LEMMA BlockTurn ==
  ASSUME OblInv, Block
  PROVE  OblInv'
<1>1. /\ width \in {0, 16, 32, 64} /\ u \in Byte /\ k \in Nat /\ off \in Nat
      /\ row \in [Places -> Byte] /\ Places = DOMAIN row /\ Places \subseteq Nat
  BY OblTypes DEF OblInv
<1> DEFINE v == Slice(Operand, off, width)
           product == Products(u, v)
<1>2. /\ op \in {"axpy", "scal"} /\ ~Plain /\ off < BlocksEnd
      /\ row' = [i \in DOMAIN row |->
                   IF i \notin off .. (off + width - 1) THEN row[i]
                   ELSE IF op = "scal" THEN product[i - off]
                   ELSE Xor(row[i], product[i - off])]
      /\ off' = off + width
      /\ op' = op /\ width' = width /\ u' = u /\ k' = k /\ other' = other /\ start' = start
  BY DEF Block
<1>3. off >= BlocksEnd \/ off % width = 0
  BY <1>2 DEF OblInv, BlocksAligned
<1>4. BlocksEnd \in Int
  BY <1>1 DEF BlocksEnd
<1>5. off % width = 0
  BY <1>1, <1>2, <1>3, <1>4
<1>6. width # 0 /\ off < k - (k % width)
  BY <1>1, <1>2 DEF BlocksEnd
<1>7. width \in {16, 32, 64} /\ off + width <= k /\ (off + width) % width = 0
  <2>1. k \in Nat /\ off \in Nat /\ width \in {16, 32, 64}
    BY <1>1, <1>6
  <2>2. CASE width = 16
    BY <1>5, <1>6, <2>1, <2>2
  <2>3. CASE width = 32
    BY <1>5, <1>6, <2>1, <2>3
  <2>4. CASE width = 64
    BY <1>5, <1>6, <2>1, <2>4
  <2> QED BY <2>1, <2>2, <2>3, <2>4
<1>8. /\ off' \in Nat /\ off < off' /\ off' <= k
      /\ off + width - 1 = off' - 1
  BY <1>1, <1>2, <1>7
<1>9. \A i \in off .. (off' - 1) : i \in Places /\ ~(i < off) /\ i - off \in 0 .. (width - 1) /\ off + (i - off) = i
  BY <1>1, <1>2, <1>7 DEF Places, GUARD
<1>10. DOMAIN v = 0 .. (width - 1) /\ \A i \in off .. (off' - 1) : v[i - off] = Operand[i]
  BY <1>9 DEF Slice
<1>11. \A j \in DOMAIN v : v[j] \in Byte
  <2>1. ASSUME NEW j \in 0 .. (width - 1)
        PROVE  off + j \in off .. (off' - 1) /\ v[j] = Operand[off + j]
    <3>1. off + j \in off .. (off' - 1)
      BY <1>1, <1>2, <1>7
    <3>2. v[j] = Operand[off + j]
      BY DEF Slice
    <3> QED BY <3>1, <3>2
  <2>2. \A i \in off .. (off' - 1) : Operand[i] \in Byte
    BY <1>2, <1>9, OperandIs
  <2> QED BY <1>10, <2>1, <2>2
<1> HIDE DEF v
<1>12. \A j \in DOMAIN v : product[j] = Mul(u, v[j])
  BY <1>1, <1>11, ProductsAre
<1> HIDE DEF product
<1>13. \A i \in off .. (off' - 1) : product[i - off] = Mul(u, Operand[i])
  BY <1>9, <1>10, <1>12
<1>14. row' = [i \in Places |-> IF i \in off .. (off' - 1) THEN Meant(i) ELSE row[i]]
  <2>1. ASSUME NEW i \in Places
        PROVE  (IF i \notin off .. (off' - 1) THEN row[i]
                ELSE IF op = "scal" THEN product[i - off]
                ELSE Xor(row[i], product[i - off]))
               = IF i \in off .. (off' - 1) THEN Meant(i) ELSE row[i]
    <3>1. CASE i \in off .. (off' - 1)
      <4>1. product[i - off] = Mul(u, Operand[i])
        BY <1>13, <3>1
      <4>2. Meant(i) = IF op = "scal" THEN Mul(u, Operand[i]) ELSE Xor(row[i], Mul(u, Operand[i]))
        BY <1>2, <1>9, <3>1, OperandIs
      <4> QED BY <3>1, <4>1, <4>2, Zenon
    <3>2. CASE i \notin off .. (off' - 1)
      BY <3>2, Zenon
    <3> QED BY <3>1, <3>2
  <2>2. row' = [i \in Places |->
                  IF i \notin off .. (off' - 1) THEN row[i]
                  ELSE IF op = "scal" THEN product[i - off]
                  ELSE Xor(row[i], product[i - off])]
    BY <1>1, <1>2, <1>8, Zenon
  <2> QED BY <2>1, <2>2, Zenon
<1>15. off' % width = 0
  BY <1>2, <1>7, Zenon
<1> QED BY <1>2, <1>8, <1>14, <1>15, RowDone, Zenon

LEMMA RestDone ==
  ASSUME OblInv, Rest
  PROVE  OblInv'
<1>1. /\ width \in {0, 16, 32, 64} /\ u \in Byte /\ k \in Nat /\ off \in Nat
      /\ row \in [Places -> Byte] /\ Places = DOMAIN row /\ Places \subseteq Nat
  BY OblTypes DEF OblInv
<1>2. /\ op \in {"axpy", "scal"} /\ ~Plain /\ off >= BlocksEnd /\ off < k
      /\ row' = [i \in DOMAIN row |->
                   IF i \notin off .. (k - 1) THEN row[i]
                   ELSE IF op = "scal" THEN MulRow(u)[row[i]]
                   ELSE Xor(row[i], MulRow(u)[other[i]])]
      /\ off' = k
      /\ op' = op /\ width' = width /\ u' = u /\ k' = k /\ other' = other /\ start' = start
  BY DEF Rest
<1>3. off' \in Nat /\ off < off' /\ off' <= k
  BY <1>1, <1>2
<1>4. BlocksEnd <= k /\ BlocksEnd \in Int
  BY <1>1 DEF BlocksEnd
<1>5. off' >= BlocksEnd
  BY <1>1, <1>2, <1>4
<1>6. \A i \in off .. (off' - 1) : i \in Places /\ ~(i < off)
  BY <1>1, <1>2 DEF Places, GUARD
<1>7. \A b \in Byte : MulRow(u)[b] = Mul(u, b)
  BY DEF MulRow
<1>8. row' = [i \in Places |-> IF i \in off .. (off' - 1) THEN Meant(i) ELSE row[i]]
  <2>1. ASSUME NEW i \in Places
        PROVE  (IF i \notin off .. (off' - 1) THEN row[i]
                ELSE IF op = "scal" THEN MulRow(u)[row[i]]
                ELSE Xor(row[i], MulRow(u)[other[i]]))
               = IF i \in off .. (off' - 1) THEN Meant(i) ELSE row[i]
    <3>1. CASE i \in off .. (off' - 1)
      <4>1. /\ Operand[i] \in Byte
            /\ Meant(i) = IF op = "scal" THEN Mul(u, Operand[i]) ELSE Xor(row[i], Mul(u, Operand[i]))
        BY <1>2, <1>6, <3>1, OperandIs
      <4>2. Operand[i] = IF op = "scal" THEN row[i] ELSE other[i]
        BY DEF Operand
      <4>3. MulRow(u)[Operand[i]] = Mul(u, Operand[i])
        BY <1>7, <4>1
      <4> QED BY <3>1, <4>1, <4>2, <4>3, Zenon
    <3>2. CASE i \notin off .. (off' - 1)
      BY <3>2, Zenon
    <3> QED BY <3>1, <3>2
  <2>2. row' = [i \in Places |->
                  IF i \notin off .. (off' - 1) THEN row[i]
                  ELSE IF op = "scal" THEN MulRow(u)[row[i]]
                  ELSE Xor(row[i], MulRow(u)[other[i]])]
    BY <1>1, <1>2, Zenon
  <2> QED BY <2>1, <2>2, Zenon
<1> QED BY <1>2, <1>3, <1>5, <1>8, RowDone, Zenon

-----------------------------------------------------------------------------
(* obl_axpyb32, the mask *)

\* Bytes of the word at a, a multiple of 32.
LEMMA WordFacts ==
  ASSUME NEW a \in Nat, a % 32 = 0, NEW i \in Nat
  PROVE  /\ i \in a .. (a + 31) => i \div 32 = a \div 32 /\ i % 32 = (i - a) % 32
         /\ i < a + 32 => i < a \/ i \in a .. (a + 31)
         /\ i < a => i < a + 32 /\ i \notin a .. (a + 31)
         /\ i \in a .. (a + 31) => ~(i < a) /\ i < a + 32
         /\ (a + 32) % 32 = 0
OBVIOUS

LEMMA RowFits ==
  ASSUME NEW a \in Nat, NEW len \in Nat, len % 32 = 0, a < len
  PROVE  /\ a % 32 = 0 => a + 32 <= len
         /\ a + 64 <= len + 63
         /\ len >= 32
OBVIOUS

LEMMA WideFacts ==
  ASSUME NEW a \in Nat, a % 64 = 0, NEW i \in 0 .. 31
  PROVE  /\ a = 0 => i \in a .. (a + 63) /\ (i - a) % 32 = i /\ a \div 64 = 0
         /\ a > 0 => i \notin a .. (a + 63)
         /\ i % 32 = i /\ i \div 32 = 0
         /\ (a + 64) % 64 = 0
OBVIOUS

LEMMA WideFits ==
  ASSUME NEW a \in Nat, NEW len \in Nat, len % 32 = 0, a < len, a % 64 = 0
  PROVE  a + 64 <= len + 32
OBVIOUS

LEMMA ScatterWord ==
  ASSUME OblInv, Scatter
  PROVE  OblInv'
<1>1. /\ width \in {0, 16, 32, 64} /\ u \in Byte /\ k \in Nat /\ off \in Nat
      /\ row \in [Places -> Byte] /\ Places = DOMAIN row /\ Places \subseteq Nat
  BY OblTypes DEF OblInv
<1>2. /\ op = "axpyb32" /\ off < k
      /\ row' = [i \in DOMAIN row |->
                   IF i \in off .. (off + Span - 1) /\ (i - off) % 32 \in other[off \div Span]
                   THEN Xor(row[i], u) ELSE row[i]]
      /\ off' = off + Span
      /\ op' = op /\ width' = width /\ u' = u /\ k' = k /\ other' = other /\ start' = start
  BY DEF Scatter
<1>3. Places' = Places /\ Span' = Span /\ \A i : Meant(i)' = Meant(i)
  BY <1>2, MeantStays DEF Places, Span
<1>4. other = start.other /\ start.row \in [Places -> Byte]
  BY <1>2 DEF OblInv, RowsGiven
<1>5. k % 32 = 0 /\ off % Span = 0
  BY <1>2 DEF OblInv, WordsScattered
<1>6. \A i : Meant(i) = IF i % 32 \in start.other[i \div 32] THEN Xor(start.row[i], u) ELSE start.row[i]
  BY <1>2 DEF Meant
<1>7. row' \in [Places -> Byte]
  <2>1. \A i \in Places : Xor(row[i], u) \in Byte /\ row[i] \in Byte
    BY <1>1, XorTypes
  <2> QED BY <1>1, <1>2, <2>1
<1>8. RowsGiven' /\ RowsAgree' /\ BlocksAligned'
  BY <1>2, <1>3, <1>4 DEF RowsGiven, RowsAgree, BlocksAligned
<1>9. CASE width # 64
  <2>1. Span = 32
    BY <1>9 DEF Span
  <2>2. off + Span - 1 = off + 31 /\ off' = off + 32 /\ off % 32 = 0
    BY <1>1, <1>2, <1>5, <2>1
  <2>3. off + 32 <= k
    BY <1>1, <1>2, <1>5, <2>2, RowFits
  <2>4. \A i \in Places : row[i] = IF i < off THEN Meant(i) ELSE start.row[i]
    BY <1>2, <1>9 DEF OblInv, WordsScattered
  <2>5. ASSUME NEW i \in Places
        PROVE  row'[i] = IF i < off + 32 THEN Meant(i) ELSE start.row[i]
    <3>1. row'[i] = IF i \in off .. (off + 31) /\ (i - off) % 32 \in other[off \div 32]
                    THEN Xor(row[i], u) ELSE row[i]
      BY <1>1, <1>2, <2>1, <2>2
    <3>2. /\ i \in off .. (off + 31) => i \div 32 = off \div 32 /\ i % 32 = (i - off) % 32
          /\ i < off + 32 => i < off \/ i \in off .. (off + 31)
          /\ i < off => i < off + 32 /\ i \notin off .. (off + 31)
          /\ i \in off .. (off + 31) => ~(i < off) /\ i < off + 32
      BY <1>1, <2>2, WordFacts
    <3>3. row[i] = IF i < off THEN Meant(i) ELSE start.row[i]
      BY <2>4
    <3>4. CASE i \in off .. (off + 31)
      <4>1. row'[i] = IF i % 32 \in start.other[i \div 32] THEN Xor(start.row[i], u) ELSE start.row[i]
        BY <1>4, <3>1, <3>2, <3>3, <3>4, Zenon
      <4> QED BY <1>6, <3>2, <3>4, <4>1, Zenon
    <3>5. CASE i \notin off .. (off + 31)
      BY <3>1, <3>2, <3>3, <3>5, Zenon
    <3> QED BY <3>4, <3>5
  <2>6. (off + 32) % 32 = 0 /\ off + 32 > 0 /\ k > 0 /\ off + 32 \in 0 .. (k + 32)
    BY <1>1, <1>2, <2>2, <2>3
  <2>7. OblTypeOK'
    BY <1>2, <1>3, <1>7, <2>2, <2>6 DEF OblInv, OblTypeOK, Places
  <2>8. WordsScattered'
    <3>1. k' % 32 = 0 /\ off' % Span' = 0 /\ (off' > 0 => k' > 0)
      BY <1>2, <1>3, <1>5, <2>1, <2>2, <2>6
    <3>2. off' <= k' /\ width' # 64
      BY <1>2, <1>9, <2>2, <2>3
    <3>3. \A i \in Places : row'[i] = IF i < off' THEN Meant(i) ELSE start.row[i]
      BY <2>2, <2>5
    <3>4. \A i \in Places' : row'[i] = IF i < off' THEN Meant(i)' ELSE start'.row[i]
      BY <1>2, <1>3, <3>3
    <3> QED BY <3>1, <3>2, <3>4 DEF WordsScattered
  <2> QED BY <1>8, <2>7, <2>8 DEF OblInv
<1>10. CASE width = 64
  <2>1. Span = 64
    BY <1>10 DEF Span
  <2>2. off + Span - 1 = off + 63 /\ off' = off + 64 /\ off % 64 = 0
    BY <1>1, <1>2, <1>5, <2>1
  <2>3. k >= 32
    BY <1>1, <1>2, <1>5, RowFits
  <2>4. \A i \in Places : i < 32 => row[i] = IF off > 0 THEN Meant(i) ELSE start.row[i]
    BY <1>2, <1>10 DEF OblInv, WordsScattered
  <2>5. ASSUME NEW i \in Places, i < 32
        PROVE  row'[i] = Meant(i)
    <3>1. row'[i] = IF i \in off .. (off + 63) /\ (i - off) % 32 \in other[off \div 64]
                    THEN Xor(row[i], u) ELSE row[i]
      BY <1>1, <1>2, <2>1, <2>2
    <3>2. i \in 0 .. 31
      BY <1>1, <2>5
    <3>3. /\ off = 0 => i \in off .. (off + 63) /\ (i - off) % 32 = i /\ off \div 64 = 0
          /\ off > 0 => i \notin off .. (off + 63)
          /\ i % 32 = i /\ i \div 32 = 0
      BY <1>1, <2>2, <3>2, WideFacts
    <3>4. row[i] = IF off > 0 THEN Meant(i) ELSE start.row[i]
      BY <2>4, <2>5
    <3>5. Meant(i) = IF i \in start.other[0] THEN Xor(start.row[i], u) ELSE start.row[i]
      BY <1>6, <3>3
    <3>6. CASE off = 0
      <4>1. ~(off > 0)
        BY <3>6
      <4> QED BY <1>4, <3>1, <3>3, <3>4, <3>5, <3>6, <4>1, Zenon
    <3>7. CASE off > 0
      BY <3>1, <3>3, <3>4, <3>7, Zenon
    <3> QED BY <1>1, <3>6, <3>7
  <2>6. (off + 64) % 64 = 0 /\ off + 64 > 0 /\ k > 0
    BY <1>1, <2>2, <2>3
  <2>7. off + 64 \in 0 .. (k + 32)
    <3>1. off + 64 <= k + 32
      BY <1>1, <1>2, <1>5, <2>2, WideFits
    <3> QED BY <1>1, <3>1
  <2>8. OblTypeOK'
    BY <1>2, <1>3, <1>7, <2>2, <2>7 DEF OblInv, OblTypeOK, Places
  <2>9. WordsScattered'
    BY <1>2, <1>3, <1>5, <1>10, <2>1, <2>2, <2>5, <2>6 DEF WordsScattered
  <2> QED BY <1>8, <2>8, <2>9 DEF OblInv
<1> QED BY <1>9, <1>10

-----------------------------------------------------------------------------
(* The invariant of the loops *)

LEMMA StepObl ==
  ASSUME OblInv, [OblNext]_oblVars
  PROVE  OblInv'
<1>1. CASE PlainByte BY <1>1, BytePlain
<1>2. CASE Block BY <1>2, BlockTurn
<1>3. CASE Rest BY <1>3, RestDone
<1>4. CASE Scatter BY <1>4, ScatterWord
<1>5. CASE UNCHANGED oblVars
  BY <1>5 DEF oblVars, OblInv, OblTypeOK, RowsGiven, BlocksAligned, RowsAgree, WordsScattered, Places, Plain,
     BlocksEnd, Meant, Span
<1> QED BY <1>1, <1>2, <1>3, <1>4, <1>5 DEF OblNext

LEMMA OblExplains ==
  ASSUME OblInv
  PROVE  RowsExplained
<1>1. /\ k \in Nat /\ off \in Nat /\ Places = DOMAIN row /\ Places \subseteq Nat
  BY OblTypes DEF OblInv
<1>2. ASSUME op = "axpyb32", off >= k, NEW i \in DOMAIN row
      PROVE  row[i] = (IF i < k THEN Meant(i) ELSE start.row[i]) \/ (width = 64 /\ i >= 32)
  <2>1. i \in Places /\ i \in Nat
    BY <1>1
  <2>2. CASE width # 64
    <3>1. off <= k /\ row[i] = IF i < off THEN Meant(i) ELSE start.row[i]
      BY <1>2, <2>1, <2>2 DEF OblInv, WordsScattered
    <3>2. off = k
      BY <1>1, <1>2, <3>1
    <3> QED BY <3>1, <3>2
  <2>3. CASE width = 64 /\ i < 32
    <3>1. k % 32 = 0 /\ (off > 0 => k > 0) /\ row[i] = IF off > 0 THEN Meant(i) ELSE start.row[i]
      BY <1>2, <2>1, <2>3 DEF OblInv, WordsScattered
    <3>2. off > 0 <=> i < k
      BY <1>1, <1>2, <2>1, <2>3, <3>1
    <3> QED BY <3>1, <3>2, Zenon
  <2> QED BY <1>1, <2>1, <2>2, <2>3
<1>3. ScatterExplained
  BY <1>2 DEF ScatterExplained
<1> QED BY <1>3 DEF RowsExplained, OblInv

\* For every factor, length and row, in every build of the row operations: the
\* vector code of obl_axpy and obl_scal (oblas_lite.c) leaves, at every point of
\* its loop, the products of the field before the byte it has come to and the
\* row as it was from there on; obl_swap exchanges the rows; obl_axpyb32 puts the
\* factor where the mask says, except behind byte 32 of a build for 64 byte vectors.
THEOREM InvarianceObl == OblSpec => []OblInv
<1>1. OblInit => OblInv
  BY InitObl
<1>2. OblInv /\ [OblNext]_oblVars => OblInv'
  BY StepObl
<1> QED BY <1>1, <1>2, PTL DEF OblSpec

-----------------------------------------------------------------------------
(* ReedSolomon: the shards by number *)

Lower(S, n) == {m \in S : m < n}
Rank(S) == [n \in S |-> Cardinality(Lower(S, n))]

LEMMA LowerIs ==
  ASSUME NEW S \in SUBSET Nat, IsFiniteSet(S), NEW n \in S
  PROVE  /\ IsFiniteSet(Lower(S, n)) /\ Cardinality(Lower(S, n)) \in 0 .. (Cardinality(S) - 1)
         /\ n \notin Lower(S, n)
<1>1. Lower(S, n) \in SUBSET S
  BY DEF Lower
<1>2. n \notin Lower(S, n)
  BY DEF Lower
<1>3. /\ IsFiniteSet(Lower(S, n)) /\ Cardinality(Lower(S, n)) <= Cardinality(S)
      /\ Cardinality(S) = Cardinality(Lower(S, n)) => S = Lower(S, n)
  BY <1>1, FS_Subset
<1>4. Cardinality(Lower(S, n)) # Cardinality(S)
  BY <1>2, <1>3
<1>5. Cardinality(Lower(S, n)) \in Nat /\ Cardinality(S) \in Nat
  BY <1>3, FS_CardinalityType
<1> QED BY <1>2, <1>3, <1>4, <1>5

LEMMA LowerGrows ==
  ASSUME NEW S \in SUBSET Nat, IsFiniteSet(S), NEW n \in S, NEW m \in S, n < m
  PROVE  Cardinality(Lower(S, n)) < Cardinality(Lower(S, m))
<1>1. Lower(S, n) \in SUBSET Lower(S, m)
  <2>1. ASSUME NEW i \in S, i < n PROVE i < m
    <3>1. i \in Nat /\ n \in Nat /\ m \in Nat
      OBVIOUS
    <3> QED BY <2>1, <3>1
  <2> QED BY <2>1, Zenon DEF Lower
<1>2. n \in Lower(S, m) /\ n \notin Lower(S, n)
  <2>1. n \in Lower(S, m)
    BY DEF Lower
  <2>2. n \notin Lower(S, n)
    BY LowerIs
  <2> QED BY <2>1, <2>2
<1>3. IsFiniteSet(Lower(S, m)) /\ IsFiniteSet(Lower(S, n))
  BY LowerIs
<1>4. /\ Cardinality(Lower(S, n)) <= Cardinality(Lower(S, m))
      /\ Cardinality(Lower(S, m)) = Cardinality(Lower(S, n)) => Lower(S, m) = Lower(S, n)
  BY <1>1, <1>3, FS_Subset
<1>5. Cardinality(Lower(S, n)) \in Nat /\ Cardinality(Lower(S, m)) \in Nat
  BY <1>3, FS_CardinalityType
<1>6. Cardinality(Lower(S, n)) # Cardinality(Lower(S, m))
  BY <1>2, <1>4
<1> QED BY <1>4, <1>5, <1>6

LEMMA RankInjective ==
  ASSUME NEW S \in SUBSET Nat, IsFiniteSet(S)
  PROVE  Rank(S) \in Injection(S, 0 .. (Cardinality(S) - 1))
<1>1. Rank(S) \in [S -> 0 .. (Cardinality(S) - 1)]
  BY LowerIs DEF Rank
<1>2. ASSUME NEW n \in S, NEW m \in S, Rank(S)[n] = Rank(S)[m]
      PROVE  n = m
  <2>1. Cardinality(Lower(S, n)) = Cardinality(Lower(S, m))
    BY <1>2 DEF Rank
  <2>2. Cardinality(Lower(S, n)) \in Nat /\ Cardinality(Lower(S, m)) \in Nat
    BY LowerIs, FS_CardinalityType
  <2>3. CASE n < m
    BY <2>1, <2>2, <2>3, LowerGrows
  <2>4. CASE m < n
    BY <2>1, <2>2, <2>4, LowerGrows
  <2>5. n \in Nat /\ m \in Nat
    OBVIOUS
  <2> QED BY <2>3, <2>4, <2>5
<1> QED BY <1>1, <1>2 DEF Injection, IsInjective

LEMMA IntervalCounted ==
  ASSUME NEW c \in Nat
  PROVE  /\ IsFiniteSet(0 .. (c - 1)) /\ Cardinality(0 .. (c - 1)) = c
         /\ IsFiniteSet(1 .. c) /\ Cardinality(1 .. c) = c
<1> DEFINE b == c - 1
<1>1. b \in Int /\ 0 \in Int /\ (IF 0 > b THEN 0 ELSE b - 0 + 1) = c
  OBVIOUS
<1>2. c \in Int /\ 1 \in Int /\ (IF 1 > c THEN 0 ELSE c - 1 + 1) = c
  OBVIOUS
<1> HIDE DEF b
<1>3. IsFiniteSet(0 .. b) /\ Cardinality(0 .. b) = IF 0 > b THEN 0 ELSE b - 0 + 1
  BY <1>1, FS_Interval
<1>4. IsFiniteSet(1 .. c) /\ Cardinality(1 .. c) = IF 1 > c THEN 0 ELSE c - 1 + 1
  BY <1>2, FS_Interval
<1> QED BY <1>1, <1>2, <1>3, <1>4 DEF b

\* There is a number with as many below it as one likes: the i-th in order is one
\* of the numbers, for every i there is.
LEMMA SortedIs ==
  ASSUME NEW S \in SUBSET Nat, IsFiniteSet(S)
  PROVE  /\ Cardinality(S) \in Nat
         /\ Sorted(S) \in Seq(S) /\ Len(Sorted(S)) = Cardinality(S)
         /\ \A i \in 1 .. Cardinality(S) : Sorted(S)[i] \in S
<1> DEFINE c == Cardinality(S)
<1>1. c \in Nat
  BY FS_CardinalityType
<1>2. Rank(S) \in Surjection(S, 0 .. (c - 1))
  <2>1. Rank(S) \in Injection(S, 0 .. (c - 1))
    BY RankInjective
  <2>2. IsFiniteSet(0 .. (c - 1)) /\ Cardinality(0 .. (c - 1)) = c
    <3> HIDE DEF c
    <3> QED BY <1>1, IntervalCounted
  <2> QED BY <2>1, <2>2, FS_Injection
<1>3. ASSUME NEW i \in 1 .. c
      PROVE  (CHOOSE n \in S : Cardinality({m \in S : m < n}) = i - 1) \in S
  <2>1. i - 1 \in 0 .. (c - 1)
    <3> HIDE DEF c
    <3> QED BY <1>1
  <2>2. PICK n \in S : Rank(S)[n] = i - 1
    BY <1>2, <2>1 DEF Surjection
  <2>3. Cardinality({m \in S : m < n}) = i - 1
    BY <2>2 DEF Rank, Lower
  <2> QED BY <2>3
<1>4. Sorted(S) \in [1 .. c -> S]
  BY <1>3 DEF Sorted
<1> HIDE DEF c
<1>5. Sorted(S) \in Seq(S) /\ Len(Sorted(S)) = c
  BY <1>1, <1>4
<1> QED BY <1>1, <1>4, <1>5 DEF c

-----------------------------------------------------------------------------
(* ReedSolomon: what a step may write *)

Shard == DataIdx \cup ParityIdx

\* The one case in which scal runs past the end of the workspace.
Excused == overrun > 0 => ds = ps /\ W = ds /\ overrun < ds

CodeInv ==
  /\ TypeOK
  /\ pc \in {"reduce", "forward"} => x \in 0 .. W
  /\ pc = "back" => x \in -1 .. (W - 1)
  /\ pc \in {"reduce", "forward", "back"} => W <= ps
  /\ pc \in {"encode", "lose", "place"} => overrun = 0
  /\ Excused

LEMMA CodeTypes ==
  ASSUME code \in Codes
  PROVE  /\ ds \in Nat \ {0} /\ ps \in Nat \ {0}
         /\ DataIdx \subseteq Nat /\ ParityIdx \subseteq Nat /\ Shard \subseteq Nat
         /\ IsFiniteSet(DataIdx) /\ Cardinality(DataIdx) = ds
         /\ IsFiniteSet(ParityIdx) /\ Cardinality(ParityIdx) = ps
<1>1. code \in (Nat \ {0}) \X (Nat \ {0})
  BY ReedSolomonAssumption
<1>2. ds \in Nat \ {0} /\ ps \in Nat \ {0}
  BY <1>1 DEF ds, ps
<1>3. DataIdx \subseteq Nat /\ ParityIdx \subseteq Nat
  BY <1>2 DEF DataIdx, ParityIdx
<1>4. IsFiniteSet(DataIdx) /\ Cardinality(DataIdx) = ds
  BY <1>2, IntervalCounted DEF DataIdx
<1>5. IsFiniteSet(ParityIdx) /\ Cardinality(ParityIdx) = ps
  <2> DEFINE b == ds + ps - 1
  <2>1. ds \in Int /\ b \in Int /\ (IF ds > b THEN 0 ELSE b - ds + 1) = ps
    BY <1>2
  <2> HIDE DEF b
  <2>2. IsFiniteSet(ds .. b) /\ Cardinality(ds .. b) = IF ds > b THEN 0 ELSE b - ds + 1
    BY <2>1, FS_Interval
  <2> QED BY <2>1, <2>2 DEF ParityIdx, b
<1> QED BY <1>2, <1>3, <1>4, <1>5 DEF Shard

\* The missing data shards and the parity shards in hand, by number.
LEMMA ErasuresAre ==
  ASSUME code \in Codes
  PROVE  /\ W \in 0 .. ds /\ Len(Spare) \in 0 .. ps
         /\ \A i \in 1 .. W : Erasures[i] \in DataIdx \cap marks
         /\ \A i \in 1 .. Len(Spare) : Spare[i] \in ParityIdx \ marks
<1>1. /\ DataIdx \subseteq Nat /\ ParityIdx \subseteq Nat /\ ds \in Nat
      /\ IsFiniteSet(DataIdx) /\ Cardinality(DataIdx) = ds
      /\ IsFiniteSet(ParityIdx) /\ Cardinality(ParityIdx) = ps /\ ps \in Nat
  BY CodeTypes
<1>2. DataIdx \cap marks \in SUBSET DataIdx /\ DataIdx \cap marks \in SUBSET Nat
  BY <1>1
<1>3. IsFiniteSet(DataIdx \cap marks) /\ Cardinality(DataIdx \cap marks) <= ds
  BY <1>1, <1>2, FS_Subset
<1>4. /\ Cardinality(DataIdx \cap marks) \in Nat
      /\ Len(Sorted(DataIdx \cap marks)) = Cardinality(DataIdx \cap marks)
      /\ \A i \in 1 .. Cardinality(DataIdx \cap marks) : Sorted(DataIdx \cap marks)[i] \in DataIdx \cap marks
  BY <1>2, <1>3, SortedIs
<1>5. W \in 0 .. ds /\ \A i \in 1 .. W : Erasures[i] \in DataIdx \cap marks
  <2>1. W = Cardinality(DataIdx \cap marks)
    BY <1>4 DEF W, Erasures
  <2>2. W \in 0 .. ds
    BY <1>1, <1>3, <1>4, <2>1
  <2> QED BY <1>4, <2>1, <2>2 DEF Erasures
<1>6. ParityIdx \ marks \in SUBSET ParityIdx /\ ParityIdx \ marks \in SUBSET Nat
  BY <1>1
<1>7. IsFiniteSet(ParityIdx \ marks) /\ Cardinality(ParityIdx \ marks) <= ps
  BY <1>1, <1>6, FS_Subset
<1>8. /\ Len(Spare) \in Nat /\ Len(Spare) = Cardinality(ParityIdx \ marks)
      /\ \A i \in 1 .. Len(Spare) : Spare[i] \in ParityIdx \ marks
  BY <1>6, <1>7, SortedIs DEF Spare
<1>9. Len(Spare) \in 0 .. ps
  <2>1. Len(Spare) <= ps
    BY <1>7, <1>8
  <2> QED BY <1>1, <1>8, <2>1
<1> QED BY <1>5, <1>8, <1>9

LEMMA FieldTypes ==
  /\ \A f, b : Mul(f, b) \in Byte
  /\ \A a : Inv(a) \in Byte
  /\ \A b, c \in Byte : Xor(b, c) \in Byte
  /\ \A S, f : XorOver(S, f) \in Byte
  /\ \A b \in Byte : \A c, f : Axpy(b, c, f) \in Byte
  /\ \A b \in Byte : \A f : Scal(b, f) \in Byte
  /\ Zero \in Byte
<1>1. \A f, b : Mul(f, b) \in Byte
  BY MulTypes
<1>2. \A a : Inv(a) \in Byte
  BY <1>1, Zenon DEF Inv
<1>3. \A b, c \in Byte : Xor(b, c) \in Byte
  BY XorTypes
<1>4. \A S, f : XorOver(S, f) \in Byte
  BY DEF XorOver, Byte
<1> QED BY <1>1, <1>2, <1>3, <1>4 DEF Axpy, Scal, Zero, Byte

LEMMA InitCode ==
  ASSUME Init
  PROVE  CodeInv
<1>1. /\ code \in Codes /\ original \in [DataIdx -> Values] /\ marks = {} /\ pc = "encode" /\ x = 0
      /\ overrun = 0
  BY DEF Init
<1>2. ds \in Nat \ {0} /\ ps \in Nat \ {0}
  BY <1>1, CodeTypes
<1>3. shards \in [Shard -> Byte]
  <2>1. shards = [i \in Shard |-> IF i < ds THEN original[i] ELSE Garbage]
    BY DEF Init, Shard
  <2>2. ASSUME NEW i \in Shard PROVE (IF i < ds THEN original[i] ELSE Garbage) \in Byte
    <3>1. i < ds => i \in DataIdx
      BY <1>2 DEF Shard, DataIdx, ParityIdx
    <3> QED BY <1>1, <3>1, ReedSolomonAssumption
  <2> QED BY <2>1, <2>2
<1>4. wrk \in [Cell -> Byte]
  BY FieldTypes DEF Init
<1>5. x \in -1 .. ds
  BY <1>1, <1>2
<1> QED BY <1>1, <1>3, <1>4, <1>5 DEF CodeInv, TypeOK, Shard, Excused

LEMMA ShardsTyped ==
  ASSUME TypeOK
  PROVE  /\ code \in Codes /\ shards \in [Shard -> Byte] /\ DOMAIN shards = Shard
         /\ marks \subseteq Shard /\ wrk \in [Cell -> Byte] /\ x \in -1 .. ds
         /\ ds \in Nat \ {0} /\ ps \in Nat \ {0}
BY CodeTypes DEF TypeOK, Shard

\* What the steps have in common: the code and the data stay.
Kept == code' = code /\ original' = original

LEMMA TypesAfter ==
  ASSUME TypeOK, Kept, marks' \subseteq Shard, shards' \in [Shard -> Byte], wrk' \in [Cell -> Byte],
         pc' \in {"encode", "lose", "place", "reduce", "forward", "back", "done", "failed"},
         x' \in -1 .. ds, overrun' \in Nat
  PROVE  TypeOK'
<1>1. DataIdx' = DataIdx /\ ParityIdx' = ParityIdx /\ Cell' = Cell /\ ds' = ds
  BY DEF Kept, DataIdx, ParityIdx, Cell, ds, ps
<1> QED BY <1>1 DEF TypeOK, Kept, Shard

LEMMA ErasuresStay ==
  ASSUME Kept, marks' = marks
  PROVE  W' = W /\ Erasures' = Erasures /\ Spare' = Spare
BY DEF Kept, W, Erasures, Spare, DataIdx, ParityIdx, ds, ps

\* A step that scales nothing writes nothing past the end of the workspace.
LEMMA OverrunStays ==
  ASSUME CodeInv, Kept, marks' = marks \/ overrun = 0, overrun' = overrun
  PROVE  overrun' \in Nat /\ Excused'
<1>1. overrun \in Nat /\ Excused
  BY DEF CodeInv, TypeOK
<1>2. ds' = ds /\ ps' = ps
  BY DEF Kept, ds, ps
<1>3. CASE overrun = 0
  BY <1>3 DEF Excused
<1>4. CASE marks' = marks
  BY <1>1, <1>2, <1>4, ErasuresStay DEF Excused
<1> QED BY <1>1, <1>3, <1>4

\* Rows and columns of at most the parity and the data shards: the matrix fits, and
\* what W cells from the diagonal pass the end by is bounded.
LEMMA SquareFits ==
  ASSUME NEW w \in Nat, NEW c \in Nat, NEW d \in Nat, w <= c, w <= d
  PROVE  w * w <= d * c
<1>1. w * w <= d * w
  OBVIOUS
<1>2. d * w <= d * c
  OBVIOUS
<1>3. w * w \in Nat /\ d * w \in Nat /\ d * c \in Nat
  OBVIOUS
<1> QED BY <1>1, <1>2, <1>3

LEMMA PastTheEnd ==
  ASSUME NEW w \in Nat, NEW c \in Nat, NEW d \in Nat, w <= c, w <= d,
         NEW r \in 0 .. (w - 1), r * w + r + w - c * d > 0
  PROVE  d = c /\ w = d /\ r * w + r + w - c * d < d
<1>1. r * w <= (w - 1) * w
  OBVIOUS
<1>2. (w - 1) * w = w * w - w
  OBVIOUS
<1>3. r * w \in Nat /\ w * w \in Nat /\ c * d \in Nat
  OBVIOUS
<1>4. r * w + r + w <= w * w + w - 1
  BY <1>1, <1>2, <1>3
<1>5. c * d < w * w + w
  BY <1>3, <1>4
<1>6. w = d
  <2>1. SUFFICES ASSUME w + 1 <= d PROVE FALSE
    OBVIOUS
  <2>2. w * (w + 1) <= c * d
    <3>1. w * (w + 1) <= c * (w + 1)
      OBVIOUS
    <3>2. c * (w + 1) <= c * d
      BY <2>1
    <3>3. w * (w + 1) \in Nat /\ c * (w + 1) \in Nat
      OBVIOUS
    <3> QED BY <1>3, <3>1, <3>2, <3>3
  <2>3. w * (w + 1) = w * w + w
    OBVIOUS
  <2> QED BY <1>3, <1>5, <2>2, <2>3
<1>7. w = c
  <2>1. SUFFICES ASSUME w + 1 <= c PROVE FALSE
    OBVIOUS
  <2>2. (w + 1) * w <= c * w
    BY <2>1
  <2>3. (w + 1) * w = w * w + w
    OBVIOUS
  <2>4. c * d = c * w
    BY <1>6
  <2> QED BY <1>3, <1>5, <2>2, <2>3, <2>4
<1>8. c * d = w * w
  BY <1>6, <1>7
<1> QED BY <1>3, <1>4, <1>6, <1>7, <1>8

\* A step that writes to missing shards only.
Spares(S) == \A s \in Shard \ S : shards'[s] = shards[s]

LEMMA EncodeCode ==
  ASSUME CodeInv, Encode
  PROVE  CodeInv' /\ pc = "encode"
<1>1. /\ pc = "encode" /\ pc' = "lose" /\ Kept /\ marks' = marks /\ x' = x /\ wrk' = wrk
      /\ overrun' = overrun
  BY DEF Encode, Kept
<1>2. /\ shards \in [Shard -> Byte] /\ DOMAIN shards = Shard
      /\ marks \subseteq Shard /\ wrk \in [Cell -> Byte] /\ x \in -1 .. ds
  BY ShardsTyped DEF CodeInv
<1>3. shards' \in [Shard -> Byte]
  BY <1>2, FieldTypes DEF Encode
<1>4. overrun' \in Nat /\ Excused' /\ overrun = 0
  BY <1>1, OverrunStays DEF CodeInv
<1>5. TypeOK'
  BY <1>1, <1>2, <1>3, <1>4, TypesAfter DEF CodeInv
<1> QED BY <1>1, <1>4, <1>5 DEF CodeInv

LEMMA LoseCode ==
  ASSUME CodeInv, Lose
  PROVE  CodeInv' /\ Spares(marks')
<1>1. /\ pc = "lose" /\ pc' = "place" /\ Kept /\ x' = x /\ wrk' = wrk /\ overrun' = overrun
      /\ marks' \in SUBSET DOMAIN shards
      /\ shards' = [s \in DOMAIN shards |-> IF s \in marks' THEN Garbage ELSE shards[s]]
  BY DEF Lose, Kept
<1>2. /\ shards \in [Shard -> Byte] /\ DOMAIN shards = Shard
      /\ wrk \in [Cell -> Byte] /\ x \in -1 .. ds
  BY ShardsTyped DEF CodeInv
<1>3. shards' \in [Shard -> Byte] /\ Spares(marks')
  BY <1>1, <1>2, ReedSolomonAssumption DEF Spares
<1>4. overrun = 0
  BY <1>1 DEF CodeInv
<1>5. overrun' \in Nat /\ Excused'
  BY <1>1, <1>4, OverrunStays
<1>6. TypeOK'
  BY <1>1, <1>2, <1>3, <1>5, TypesAfter DEF CodeInv
<1> QED BY <1>1, <1>3, <1>4, <1>5, <1>6 DEF CodeInv

LEMMA PlaceCode ==
  ASSUME CodeInv, Place
  PROVE  CodeInv' /\ Spares(marks')
<1> DEFINE placed == IF W <= Len(Spare) THEN W ELSE Len(Spare)
<1>1. /\ Kept /\ x' = 0 /\ marks' = marks /\ overrun' = overrun
      /\ shards' = [s \in DOMAIN shards |->
                      IF \E i \in 1 .. placed : Erasures[i] = s
                      THEN shards[Spare[CHOOSE i \in 1 .. placed : Erasures[i] = s]]
                      ELSE shards[s]]
      /\ \/ pc' = "failed" /\ wrk' = wrk
         \/ /\ pc' = "reduce" /\ Len(Spare) >= W
            /\ wrk' = [n \in Cell |->
                         IF n < W * W
                         THEN P(Spare[(n \div W) + 1] - ds, Erasures[(n % W) + 1])
                         ELSE wrk[n]]
  BY DEF Place, Kept
<1>2. /\ code \in Codes /\ shards \in [Shard -> Byte] /\ DOMAIN shards = Shard
      /\ marks \subseteq Shard /\ wrk \in [Cell -> Byte] /\ x \in -1 .. ds
      /\ ds \in Nat /\ ps \in Nat
  BY ShardsTyped DEF CodeInv
<1>3. /\ W \in 0 .. ds /\ Len(Spare) \in 0 .. ps
      /\ \A i \in 1 .. W : Erasures[i] \in DataIdx \cap marks
      /\ \A i \in 1 .. Len(Spare) : Spare[i] \in ParityIdx \ marks
  BY <1>2, ErasuresAre
<1>4. placed \in Nat /\ placed <= W /\ placed <= Len(Spare)
  BY <1>2, <1>3
<1>5. \A i \in 1 .. placed : i \in 1 .. W /\ i \in 1 .. Len(Spare)
  BY <1>2, <1>3, <1>4
<1> HIDE DEF placed
<1>6. ASSUME NEW s \in Shard
      PROVE  /\ (IF \E i \in 1 .. placed : Erasures[i] = s
                 THEN shards[Spare[CHOOSE i \in 1 .. placed : Erasures[i] = s]]
                 ELSE shards[s]) \in Byte
             /\ s \notin marks => ~\E i \in 1 .. placed : Erasures[i] = s
  <2>1. CASE \E i \in 1 .. placed : Erasures[i] = s
    <3> DEFINE e == CHOOSE i \in 1 .. placed : Erasures[i] = s
    <3>1. e \in 1 .. placed /\ Erasures[e] = s
      BY <2>1
    <3> HIDE DEF e
    <3>2. Spare[e] \in Shard /\ s \in marks
      BY <1>3, <1>5, <3>1 DEF Shard
    <3>3. shards[Spare[e]] \in Byte
      BY <1>2, <3>2
    <3> QED BY <2>1, <3>2, <3>3 DEF e
  <2>2. CASE ~\E i \in 1 .. placed : Erasures[i] = s
    BY <1>2, <2>2
  <2> QED BY <2>1, <2>2
<1>7. shards' \in [Shard -> Byte] /\ Spares(marks')
  BY <1>1, <1>2, <1>6 DEF Spares
<1>8. wrk' \in [Cell -> Byte]
  BY <1>1, <1>2, FieldTypes DEF P
<1>9. overrun' \in Nat /\ Excused'
  BY <1>1, OverrunStays
<1>10. TypeOK'
  BY <1>1, <1>2, <1>7, <1>8, <1>9, TypesAfter DEF CodeInv
<1>11. W' = W /\ ps' = ps
  BY <1>1, ErasuresStay DEF Kept, ps
<1>12. pc' = "reduce" => W <= ps
  BY <1>1, <1>2, <1>3
<1>13. CodeInv'
  BY <1>1, <1>2, <1>3, <1>9, <1>10, <1>11, <1>12 DEF CodeInv
<1> QED BY <1>7, <1>13

LEMMA ReduceCode ==
  ASSUME CodeInv, Reduce
  PROVE  CodeInv' /\ Spares(marks')
<1> DEFINE place == Erasures[x + 1]
           v == Xor(shards[place], XorOver(Known, [i \in Known |-> Mul(P(Spare[x + 1] - ds, i), shards[i])]))
<1>1. /\ Kept /\ pc = "reduce" /\ pc' = pc /\ x' = x + 1 /\ marks' = marks /\ wrk' = wrk /\ x < W
      /\ overrun' = overrun
      /\ shards' = [shards EXCEPT ![place] = v]
  BY DEF Reduce, Kept
<1>2. /\ code \in Codes /\ shards \in [Shard -> Byte] /\ DOMAIN shards = Shard
      /\ marks \subseteq Shard /\ wrk \in [Cell -> Byte] /\ ds \in Nat
  BY ShardsTyped DEF CodeInv
<1>3. W \in 0 .. ds /\ \A i \in 1 .. W : Erasures[i] \in DataIdx \cap marks
  BY <1>2, ErasuresAre
<1>4. x \in 0 .. W /\ x + 1 \in 1 .. W
  BY <1>1, <1>2, <1>3 DEF CodeInv
<1>5. place \in Shard /\ place \in marks
  BY <1>3, <1>4 DEF Shard
<1>6. v \in Byte
  BY <1>2, <1>5, FieldTypes
<1> HIDE DEF v, place
<1>7. shards' \in [Shard -> Byte] /\ Spares(marks')
  BY <1>1, <1>2, <1>5, <1>6 DEF Spares
<1>8. x' \in -1 .. ds /\ x' \in 0 .. W
  BY <1>1, <1>2, <1>3, <1>4
<1>9. overrun' \in Nat /\ Excused'
  BY <1>1, OverrunStays
<1>10. TypeOK'
  BY <1>1, <1>2, <1>7, <1>8, <1>9, TypesAfter DEF CodeInv
<1>11. W' = W /\ ps' = ps /\ W <= ps
  BY <1>1, ErasuresStay DEF Kept, ps, CodeInv
<1> QED BY <1>1, <1>7, <1>8, <1>9, <1>10, <1>11 DEF CodeInv

LEMMA ForwardCode ==
  ASSUME CodeInv, Forward
  PROVE  CodeInv' /\ Spares(marks')
<1> DEFINE inverse == Inv(wrk[x * W + x])
           scaled == [n \in Cell |-> IF n \in (x * W + x) .. (x * W + x + W - 1)
                                     THEN Scal(wrk[n], inverse) ELSE wrk[n]]
           past == x * W + x + W - ps * ds
           pivot == Scal(shards[Erasures[x + 1]], inverse)
           Below(r) == x < r /\ r < W
           Factor(r) == scaled[r * W + x]
           After(s) == IF s = Erasures[x + 1] THEN pivot
                       ELSE IF \E r \in 0 .. (W - 1) : Below(r) /\ s = Erasures[r + 1]
                       THEN Axpy(shards[s], pivot,
                                 Factor(CHOOSE r \in 0 .. (W - 1) : s = Erasures[r + 1]))
                       ELSE shards[s]
<1>1. /\ Kept /\ pc = "forward" /\ pc' = pc /\ x' = x + 1 /\ marks' = marks /\ x < W
      /\ wrk' = [n \in Cell |->
                   IF n < W * W /\ Below(n \div W)
                   THEN Axpy(scaled[n], scaled[x * W + (n % W)], Factor(n \div W))
                   ELSE scaled[n]]
      /\ shards' = [s \in DOMAIN shards |-> After(s)]
      /\ overrun' = IF inverse \notin {Zero, One} /\ past > overrun THEN past ELSE overrun
  BY DEF Forward, Kept
<1>2. /\ code \in Codes /\ shards \in [Shard -> Byte] /\ DOMAIN shards = Shard
      /\ marks \subseteq Shard /\ wrk \in [Cell -> Byte] /\ ds \in Nat /\ ps \in Nat
  BY ShardsTyped DEF CodeInv
<1>3. W \in 0 .. ds /\ \A i \in 1 .. W : Erasures[i] \in DataIdx \cap marks
  BY <1>2, ErasuresAre
<1>4. x \in 0 .. W /\ x + 1 \in 1 .. W
  BY <1>1, <1>2, <1>3 DEF CodeInv
<1>5. Erasures[x + 1] \in Shard /\ Erasures[x + 1] \in marks
  BY <1>3, <1>4 DEF Shard
<1>6. pivot \in Byte
  BY <1>2, <1>5, FieldTypes
<1>7. \A n \in Cell : scaled[n] \in Byte
  BY <1>2, FieldTypes
<1> HIDE DEF scaled, pivot
<1>8. wrk' \in [Cell -> Byte]
  BY <1>1, <1>7, FieldTypes
<1>9. \A r \in 0 .. (W - 1) : Erasures[r + 1] \in marks
  <2>1. \A r \in 0 .. (W - 1) : r + 1 \in 1 .. W
    BY <1>2, <1>3
  <2> QED BY <1>3, <2>1
<1> HIDE DEF Factor, Below
<1>10. ASSUME NEW s \in Shard
       PROVE  After(s) \in Byte /\ (s \notin marks => After(s) = shards[s])
  <2>1. shards[s] \in Byte
    BY <1>2
  <2>2. \A c, f : Axpy(shards[s], c, f) \in Byte
    BY <2>1, FieldTypes
  <2> QED BY <1>5, <1>6, <1>9, <2>1, <2>2
<1> HIDE DEF After
<1>11. shards' \in [Shard -> Byte] /\ Spares(marks')
  BY <1>1, <1>2, <1>10 DEF Spares
<1>12. x' \in -1 .. ds /\ x' \in 0 .. W
  BY <1>1, <1>2, <1>3, <1>4
<1>13. W' = W /\ ds' = ds /\ ps' = ps /\ W <= ps
  BY <1>1, ErasuresStay DEF Kept, ds, ps, CodeInv
<1>14. overrun \in Nat /\ Excused
  BY DEF CodeInv, TypeOK
<1>15. past > overrun => past \in Nat /\ ds = ps /\ W = ds /\ past < ds
  <2>1. SUFFICES ASSUME past > overrun
                 PROVE  past \in Nat /\ ds = ps /\ W = ds /\ past < ds
    OBVIOUS
  <2>2. W \in Nat /\ x \in 0 .. (W - 1) /\ W <= ps /\ W <= ds
    BY <1>1, <1>2, <1>3, <1>4, <1>13
  <2>3. past \in Int
    BY <1>2, <2>2
  <2>4. past > 0
    BY <1>14, <2>1, <2>3
  <2>5. ds = ps /\ W = ds /\ past < ds
    BY <1>2, <2>2, <2>4, PastTheEnd
  <2> HIDE DEF past
  <2> QED BY <2>3, <2>4, <2>5
<1> HIDE DEF past, inverse
<1>16. overrun' \in Nat /\ Excused'
  <2>1. CASE overrun' = overrun
    BY <1>1, <1>13, <1>14, <2>1 DEF Excused
  <2>2. CASE overrun' = past /\ past > overrun
    BY <1>13, <1>15, <2>2 DEF Excused
  <2> QED BY <1>1, <2>1, <2>2
<1>17. TypeOK'
  BY <1>1, <1>2, <1>8, <1>11, <1>12, <1>16, TypesAfter DEF CodeInv
<1> QED BY <1>1, <1>11, <1>12, <1>13, <1>16, <1>17 DEF CodeInv

LEMMA BackCode ==
  ASSUME CodeInv, Back
  PROVE  CodeInv' /\ Spares(marks')
<1> DEFINE Above(s) == \E r \in 0 .. (x - 1) : s = Erasures[r + 1]
           After(s) == IF Above(s)
                       THEN Axpy(shards[s], shards[Erasures[x + 1]],
                                 wrk[(CHOOSE r \in 0 .. (x - 1) : s = Erasures[r + 1]) * W + x])
                       ELSE shards[s]
<1>1. /\ Kept /\ pc = "back" /\ pc' = pc /\ x' = x - 1 /\ marks' = marks /\ wrk' = wrk /\ x >= 0
      /\ overrun' = overrun
      /\ shards' = [s \in DOMAIN shards |-> After(s)]
  BY DEF Back, Kept
<1>2. /\ code \in Codes /\ shards \in [Shard -> Byte] /\ DOMAIN shards = Shard
      /\ marks \subseteq Shard /\ wrk \in [Cell -> Byte] /\ ds \in Nat
  BY ShardsTyped DEF CodeInv
<1>3. W \in 0 .. ds /\ \A i \in 1 .. W : Erasures[i] \in DataIdx \cap marks
  BY <1>2, ErasuresAre
<1>4. x \in 0 .. (W - 1)
  BY <1>1, <1>2, <1>3 DEF CodeInv
<1>5. \A s : Above(s) => s \in marks
  <2>1. \A r \in 0 .. (x - 1) : r + 1 \in 1 .. W
    BY <1>2, <1>3, <1>4
  <2> QED BY <1>3, <2>1
<1> HIDE DEF Above
<1>6. ASSUME NEW s \in Shard
      PROVE  After(s) \in Byte /\ (s \notin marks => After(s) = shards[s])
  <2>1. shards[s] \in Byte
    BY <1>2
  <2>2. \A c, f : Axpy(shards[s], c, f) \in Byte
    BY <2>1, FieldTypes
  <2> QED BY <1>5, <2>1, <2>2
<1> HIDE DEF After
<1>7. shards' \in [Shard -> Byte] /\ Spares(marks')
  BY <1>1, <1>2, <1>6 DEF Spares
<1>8. x' \in -1 .. ds /\ x' \in -1 .. (W - 1)
  BY <1>1, <1>2, <1>3, <1>4
<1>9. overrun' \in Nat /\ Excused'
  BY <1>1, OverrunStays
<1>10. TypeOK'
  BY <1>1, <1>2, <1>7, <1>8, <1>9, TypesAfter DEF CodeInv
<1>11. W' = W /\ ps' = ps /\ W <= ps
  BY <1>1, ErasuresStay DEF Kept, ps, CodeInv
<1> QED BY <1>1, <1>7, <1>8, <1>9, <1>10, <1>11 DEF CodeInv

LEMMA TurnCode ==
  ASSUME CodeInv, StartForward \/ StartBack \/ Decoded
  PROVE  CodeInv' /\ Spares(marks')
<1>1. /\ Kept /\ marks' = marks /\ wrk' = wrk /\ shards' = shards /\ overrun' = overrun
      /\ \/ pc = "reduce" /\ pc' = "forward" /\ x' = 0
         \/ pc = "forward" /\ pc' = "back" /\ x' = W - 1
         \/ pc' = "done" /\ x' = 0
  BY DEF StartForward, StartBack, Decoded, Kept
<1>2. /\ code \in Codes /\ shards \in [Shard -> Byte]
      /\ marks \subseteq Shard /\ wrk \in [Cell -> Byte] /\ ds \in Nat
  BY ShardsTyped DEF CodeInv
<1>3. W \in 0 .. ds
  BY <1>2, ErasuresAre
<1>4. x' \in -1 .. ds
  BY <1>1, <1>2, <1>3
<1>5. overrun' \in Nat /\ Excused'
  BY <1>1, OverrunStays
<1>6. TypeOK'
  BY <1>1, <1>2, <1>4, <1>5, TypesAfter DEF CodeInv
<1>7. W' = W /\ ps' = ps
  BY <1>1, ErasuresStay DEF Kept, ps
<1>8. pc \in {"reduce", "forward"} => W <= ps
  BY DEF CodeInv
<1>9. CodeInv'
  BY <1>1, <1>2, <1>3, <1>5, <1>6, <1>7, <1>8 DEF CodeInv
<1> QED BY <1>1, <1>9 DEF Spares

LEMMA StutterCode ==
  ASSUME CodeInv, UNCHANGED vars
  PROVE  CodeInv'
BY DEF CodeInv, TypeOK, vars, W, Erasures, DataIdx, ParityIdx, Cell, ds, ps, Excused

LEMMA StepCode ==
  ASSUME CodeInv, [Next]_vars
  PROVE  CodeInv' /\ (pc # "encode" => Spares(marks') \/ UNCHANGED vars)
<1>1. CASE Encode BY <1>1, EncodeCode
<1>2. CASE Lose BY <1>2, LoseCode
<1>3. CASE Place BY <1>3, PlaceCode
<1>4. CASE Reduce BY <1>4, ReduceCode
<1>5. CASE Forward BY <1>5, ForwardCode
<1>6. CASE Back BY <1>6, BackCode
<1>7. CASE StartForward \/ StartBack \/ Decoded BY <1>7, TurnCode
<1>8. CASE UNCHANGED vars BY <1>8, StutterCode
<1> QED BY <1>1, <1>2, <1>3, <1>4, <1>5, <1>6, <1>7, <1>8 DEF Next

\* For every code and every data, whatever is lost: the loops of the decoder meet the
\* rows of the missing shards only, and the variables keep their types.
THEOREM InvarianceCode == Spec => []CodeInv
<1>1. Init => CodeInv
  BY InitCode
<1>2. CodeInv /\ [Next]_vars => CodeInv'
  BY StepCode
<1> QED BY <1>1, <1>2, PTL DEF Spec

\* For every code and every data, whatever is lost: the matrix of invert_mat (rs.c)
\* fits its workspace, and scal writes past the end of it only when the code has as
\* many parity as data shards and all its data shards are lost, by less than ds bytes.
THEOREM WorkspaceIsKept == Spec => []WorkspaceKept
<1>1. CodeInv => WorkspaceKept
  <2>1. SUFFICES ASSUME CodeInv PROVE WorkspaceKept
    OBVIOUS
  <2>2. code \in Codes /\ ds \in Nat /\ ps \in Nat
    BY <2>1, ShardsTyped DEF CodeInv
  <2>3. W \in Nat /\ W <= ds
    BY <2>2, ErasuresAre
  <2>4. W <= ps => W * W <= ds * ps
    BY <2>2, <2>3, SquareFits
  <2>5. ds * ps = ps * ds
    BY <2>2
  <2> QED BY <2>1, <2>4, <2>5 DEF CodeInv, Excused, WorkspaceKept
<1> QED BY <1>1, InvarianceCode, PTL

\* For every code and every data, whatever is lost: no step of reed_solomon_decode
\* and invert_mat (rs.c) writes a shard that was received.
THEOREM SurvivorsKept == Spec => SurvivorsUntouched
<1>1. CodeInv /\ [Next]_vars =>
        [pc # "encode" => \A s \in DOMAIN shards \ marks' : shards'[s] = shards[s]]_vars
  <2>1. SUFFICES ASSUME CodeInv, [Next]_vars, pc # "encode", ~UNCHANGED vars,
                        NEW s \in DOMAIN shards \ marks'
                 PROVE  shards'[s] = shards[s]
    OBVIOUS
  <2>2. Spares(marks')
    BY <2>1, StepCode
  <2>3. DOMAIN shards = Shard
    BY <2>1, ShardsTyped DEF CodeInv
  <2> QED BY <2>1, <2>2, <2>3 DEF Spares
<1> QED BY <1>1, InvarianceCode, PTL DEF Spec, SurvivorsUntouched

-----------------------------------------------------------------------------
(* Sequences, element by element *)

Ins(s, i, n) ==
  [j \in 1 .. Len(s) + 1 |-> IF j <= i THEN s[j] ELSE IF j = i + 1 THEN n ELSE s[j - 1]]
Rem(s, i) == [j \in 1 .. Len(s) - 1 |-> IF j < i THEN s[j] ELSE s[j + 1]]
Spl(s, i, t) ==
  [j \in 1 .. Len(s) + Len(t) |->
     IF j <= i THEN s[j] ELSE IF j <= i + Len(t) THEN t[j - i] ELSE s[j - Len(t)]]

LEMMA InsTypes ==
  ASSUME NEW S, NEW s \in Seq(S), NEW n \in S, NEW i \in 0 .. Len(s)
  PROVE  Ins(s, i, n) \in Seq(S) /\ Len(Ins(s, i, n)) = Len(s) + 1
BY DEF Ins

LEMMA RemTypes ==
  ASSUME NEW S, NEW s \in Seq(S), NEW i \in 1 .. Len(s)
  PROVE  Rem(s, i) \in Seq(S) /\ Len(Rem(s, i)) = Len(s) - 1
<1>1. Len(s) - 1 \in Nat
  OBVIOUS
<1>2. \A j \in 1 .. Len(s) - 1 : (IF j < i THEN s[j] ELSE s[j + 1]) \in S
  OBVIOUS
<1> QED BY <1>1, <1>2 DEF Rem

LEMMA SplTypes ==
  ASSUME NEW S, NEW s \in Seq(S), NEW t \in Seq(S), NEW i \in 0 .. Len(s)
  PROVE  Spl(s, i, t) \in Seq(S) /\ Len(Spl(s, i, t)) = Len(s) + Len(t)
BY DEF Spl

LEMMA InsFront ==
  ASSUME NEW S, NEW s \in Seq(S), NEW n \in S
  PROVE  Ins(s, 0, n) = <<n>> \o s
BY DEF Ins

LEMMA InsBack ==
  ASSUME NEW S, NEW s \in Seq(S), NEW n \in S
  PROVE  Ins(s, Len(s), n) = Append(s, n)
<1>1. Ins(s, Len(s), n) \in Seq(S) /\ Len(Ins(s, Len(s), n)) = Len(s) + 1
  BY InsTypes
<1>2. /\ Append(s, n) \in Seq(S) /\ Len(Append(s, n)) = Len(s) + 1
      /\ \A i \in 1 .. Len(s) : Append(s, n)[i] = s[i]
      /\ Append(s, n)[Len(s) + 1] = n
  BY AppendProperties
<1>3. \A i \in 1 .. Len(s) + 1 : Ins(s, Len(s), n)[i] = Append(s, n)[i]
  <2>1. ASSUME NEW i \in 1 .. Len(s) + 1 PROVE Ins(s, Len(s), n)[i] = Append(s, n)[i]
    <3>1. Ins(s, Len(s), n)[i] = IF i <= Len(s) THEN s[i] ELSE IF i = Len(s) + 1 THEN n ELSE s[i - 1]
      BY DEF Ins
    <3>2. i \in 1 .. Len(s) \/ i = Len(s) + 1
      OBVIOUS
    <3> QED BY <1>2, <3>1, <3>2
  <2> QED BY <2>1
<1> QED BY <1>1, <1>2, <1>3, SeqEqual

\* The two parts of a sequence around a place, with t between them.
Around(s, a, t, b) == SubSeq(s, 1, a) \o t \o SubSeq(s, b + 1, Len(s))

LEMMA Parts ==
  ASSUME NEW S, NEW s \in Seq(S), NEW t \in Seq(S), NEW a \in 0 .. Len(s), NEW b \in a .. Len(s)
  PROVE  /\ Around(s, a, t, b) \in Seq(S) /\ Len(Around(s, a, t, b)) = a + Len(t) + Len(s) - b
         /\ \A j \in 1 .. Len(Around(s, a, t, b)) :
              Around(s, a, t, b)[j] =
                IF j <= a THEN s[j] ELSE IF j <= a + Len(t) THEN t[j - a] ELSE s[j - a - Len(t) + b]
<1> DEFINE p == SubSeq(s, 1, a)
           q == SubSeq(s, b + 1, Len(s))
           r == p \o t \o q
<1>1. p \in Seq(S) /\ Len(p) = a /\ \A i \in 1 .. a : p[i] = s[i]
  <2>1. 1 \in Int /\ a \in Int /\ \A i \in 1 .. a : s[i] \in S
    OBVIOUS
  <2>2. /\ p \in Seq(S) /\ Len(p) = IF 1 <= a THEN a - 1 + 1 ELSE 0
        /\ \A i \in 1 .. a - 1 + 1 : p[i] = s[1 + i - 1]
    BY <2>1, SubSeqProperties
  <2> HIDE DEF p
  <2> QED BY <2>1, <2>2
<1>2. q \in Seq(S) /\ Len(q) = Len(s) - b /\ \A i \in 1 .. Len(s) - b : q[i] = s[b + i]
  <2> DEFINE c == b + 1
             d == Len(s)
  <2>1. c \in Int /\ d \in Int /\ \A i \in c .. d : s[i] \in S
    OBVIOUS
  <2>2. c = b + 1 /\ d = Len(s) /\ b \in Int /\ b <= d
    OBVIOUS
  <2> HIDE DEF c, d
  <2>3. /\ SubSeq(s, c, d) \in Seq(S) /\ Len(SubSeq(s, c, d)) = IF c <= d THEN d - c + 1 ELSE 0
        /\ \A i \in 1 .. d - c + 1 : SubSeq(s, c, d)[i] = s[c + i - 1]
    BY <2>1, SubSeqProperties
  <2>4. q = SubSeq(s, c, d)
    BY <2>2
  <2> HIDE DEF q
  <2>5. q \in Seq(S) /\ Len(q) = d - b
    BY <2>1, <2>2, <2>3, <2>4
  <2>6. ASSUME NEW i \in 1 .. d - b PROVE q[i] = s[b + i]
    <3>1. i \in 1 .. d - c + 1 /\ c + i - 1 = b + i
      BY <2>1, <2>2
    <3> QED BY <2>3, <2>4, <3>1
  <2> QED BY <2>2, <2>5, <2>6
<1> HIDE DEF p, q
<1>3. /\ p \o t \in Seq(S) /\ Len(p \o t) = a + Len(t)
      /\ \A i \in 1 .. a + Len(t) : (p \o t)[i] = IF i <= a THEN p[i] ELSE t[i - a]
  BY <1>1, ConcatProperties
<1>4. /\ r \in Seq(S) /\ Len(r) = a + Len(t) + Len(s) - b
      /\ \A i \in 1 .. Len(r) : r[i] = IF i <= a + Len(t) THEN (p \o t)[i] ELSE q[i - (a + Len(t))]
  <2> DEFINE v == p \o t
  <2>1. v \in Seq(S) /\ Len(v) = a + Len(t) /\ q \in Seq(S) /\ Len(q) = Len(s) - b
    BY <1>2, <1>3
  <2>2. Len(t) \in Nat /\ Len(s) \in Nat /\ a \in Nat /\ b \in Nat
    OBVIOUS
  <2> HIDE DEF v
  <2>3. /\ v \o q \in Seq(S) /\ Len(v \o q) = Len(v) + Len(q)
        /\ \A i \in 1 .. Len(v) + Len(q) : (v \o q)[i] = IF i <= Len(v) THEN v[i] ELSE q[i - Len(v)]
    <3>1. v \in Seq(S) /\ q \in Seq(S)
      BY <2>1
    <3> QED BY <3>1, ConcatProperties
  <2>4. Len(v \o q) = a + Len(t) + Len(s) - b
    BY <2>1, <2>2, <2>3
  <2>5. \A i \in 1 .. Len(v \o q) :
          (v \o q)[i] = IF i <= a + Len(t) THEN v[i] ELSE q[i - (a + Len(t))]
    BY <2>1, <2>3
  <2> QED BY <2>3, <2>4, <2>5 DEF v
<1>5. ASSUME NEW j \in 1 .. Len(r)
      PROVE  r[j] = IF j <= a THEN s[j] ELSE IF j <= a + Len(t) THEN t[j - a] ELSE s[j - a - Len(t) + b]
  <2>1. Len(t) \in Nat /\ Len(s) \in Nat /\ a \in Nat /\ b \in Nat /\ j \in Nat /\ j >= 1
    BY <1>4
  <2>5. r[j] = IF j <= a + Len(t) THEN (p \o t)[j] ELSE q[j - (a + Len(t))]
    BY <1>4
  <2>6. j <= a + Len(t) + Len(s) - b
    BY <1>4, <2>1
  <2> HIDE DEF r
  <2>2. CASE j <= a
    <3>1. j <= a + Len(t) /\ j \in 1 .. a + Len(t) /\ j \in 1 .. a
      BY <2>1, <2>2
    <3>2. r[j] = p[j]
      BY <1>3, <2>2, <2>5, <3>1, Zenon
    <3> QED BY <1>1, <2>2, <3>1, <3>2, Zenon
  <2>3. CASE ~(j <= a) /\ j <= a + Len(t)
    <3>1. j \in 1 .. a + Len(t)
      BY <2>1, <2>3
    <3> QED BY <1>3, <2>3, <2>5, <3>1, Zenon
  <2>4. CASE ~(j <= a + Len(t))
    <3>1. j - (a + Len(t)) \in 1 .. Len(s) - b
      BY <2>6, <2>1, <2>4
    <3>2. b + (j - (a + Len(t))) = j - a - Len(t) + b /\ ~(j <= a)
      BY <2>1, <2>4
    <3>3. r[j] = q[j - (a + Len(t))]
      BY <2>4, <2>5, Zenon
    <3>4. q[j - (a + Len(t))] = s[b + (j - (a + Len(t)))]
      BY <1>2, <3>1, Zenon
    <3> QED BY <2>4, <3>2, <3>3, <3>4
  <2> QED BY <2>2, <2>3, <2>4
<1> QED BY <1>4, <1>5 DEF p, q, Around

LEMMA InsIs ==
  ASSUME NEW S, NEW s \in Seq(S), NEW n \in S, NEW i \in 0 .. Len(s)
  PROVE  Ins(s, i, n) = InsertAt(s, i + 1, n)
<1>1. Ins(s, i, n) \in Seq(S) /\ Len(Ins(s, i, n)) = Len(s) + 1
  BY InsTypes
<1> DEFINE r == Around(s, i, <<n>>, i)
<1>2. /\ r \in Seq(S) /\ Len(r) = i + Len(<<n>>) + Len(s) - i
      /\ \A j \in 1 .. Len(r) :
           r[j] = IF j <= i THEN s[j] ELSE IF j <= i + Len(<<n>>) THEN <<n>>[j - i] ELSE s[j - i - Len(<<n>>) + i]
  <2> DEFINE t == <<n>>
  <2>1. t \in Seq(S) /\ i \in 0 .. Len(s) /\ i \in i .. Len(s)
    OBVIOUS
  <2>2. r = Around(s, i, t, i)
    OBVIOUS
  <2>3. Len(t) = Len(<<n>>) /\ \A j : t[j] = <<n>>[j]
    OBVIOUS
  <2> HIDE DEF t, r
  <2>4. /\ Around(s, i, t, i) \in Seq(S) /\ Len(Around(s, i, t, i)) = i + Len(t) + Len(s) - i
        /\ \A j \in 1 .. Len(Around(s, i, t, i)) :
             Around(s, i, t, i)[j] =
               IF j <= i THEN s[j] ELSE IF j <= i + Len(t) THEN t[j - i] ELSE s[j - i - Len(t) + i]
    BY <2>1, Parts
  <2> QED BY <2>2, <2>3, <2>4, Zenon
<1>3. InsertAt(s, i + 1, n) = r
  <2>1. (i + 1) - 1 = i
    OBVIOUS
  <2> QED BY <2>1 DEF InsertAt, Around
<1> HIDE DEF r
<1>4. Len(r) = Len(s) + 1
  BY <1>2
<1>5. ASSUME NEW j \in 1 .. Len(s) + 1 PROVE Ins(s, i, n)[j] = r[j]
  <2>1. Ins(s, i, n)[j] = IF j <= i THEN s[j] ELSE IF j = i + 1 THEN n ELSE s[j - 1]
    BY DEF Ins
  <2>2. r[j] = IF j <= i THEN s[j] ELSE IF j <= i + 1 THEN <<n>>[j - i] ELSE s[j - i - 1 + i]
    BY <1>2, <1>4
  <2>3. CASE j <= i
    BY <2>1, <2>2, <2>3
  <2>4. CASE j = i + 1
    <3>1. j - i = 1 /\ ~(j <= i) /\ j <= i + 1
      BY <2>4
    <3>2. r[j] = <<n>>[1]
      BY <2>2, <3>1, Zenon
    <3> QED BY <2>1, <2>4, <3>1, <3>2
  <2>5. CASE ~(j <= i + 1)
    <3>1. j - i - 1 + i = j - 1 /\ ~(j <= i) /\ j # i + 1
      BY <2>5
    <3> QED BY <2>1, <2>2, <2>5, <3>1
  <2> QED BY <2>3, <2>4, <2>5
<1>6. r \in Seq(S) /\ Len(Ins(s, i, n)) = Len(r) /\ \A j \in 1 .. Len(Ins(s, i, n)) : Ins(s, i, n)[j] = r[j]
  BY <1>1, <1>2, <1>4, <1>5
<1>7. Ins(s, i, n) = r
  BY <1>1, <1>6, SeqEqual
<1> QED BY <1>3, <1>7

LEMMA RemIs ==
  ASSUME NEW S, NEW s \in Seq(S), NEW i \in 1 .. Len(s)
  PROVE  Rem(s, i) = RemoveAt(s, i)
<1>1. Rem(s, i) \in Seq(S) /\ Len(Rem(s, i)) = Len(s) - 1
  BY RemTypes
<1> DEFINE a == i - 1
           r == Around(s, a, <<>>, i)
<1>2. a \in 0 .. Len(s) /\ i \in a .. Len(s) /\ a = i - 1
  OBVIOUS
<1> HIDE DEF a
<1>3. /\ r \in Seq(S) /\ Len(r) = a + Len(<<>>) + Len(s) - i
      /\ \A j \in 1 .. Len(r) :
           r[j] = IF j <= a THEN s[j] ELSE IF j <= a + Len(<<>>) THEN <<>>[j - a] ELSE s[j - a - Len(<<>>) + i]
  <2> DEFINE t == <<>>
  <2>1. t \in Seq(S)
    OBVIOUS
  <2>2. r = Around(s, a, t, i)
    OBVIOUS
  <2>3. Len(t) = Len(<<>>) /\ \A j : t[j] = <<>>[j]
    OBVIOUS
  <2> HIDE DEF t, r
  <2>4. /\ Around(s, a, t, i) \in Seq(S) /\ Len(Around(s, a, t, i)) = a + Len(t) + Len(s) - i
        /\ \A j \in 1 .. Len(Around(s, a, t, i)) :
             Around(s, a, t, i)[j] =
               IF j <= a THEN s[j] ELSE IF j <= a + Len(t) THEN t[j - a] ELSE s[j - a - Len(t) + i]
    <3>1. a \in 0 .. Len(s) /\ i \in a .. Len(s)
      BY <1>2
    <3> QED BY <2>1, <3>1, Parts, SMTT(30)
  <2> QED BY <2>2, <2>3, <2>4, Zenon
<1>4. RemoveAt(s, i) = r
  <2>1. SubSeq(s, 1, a) \in Seq(S)
    <3>1. 1 \in Int /\ a \in Int /\ \A j \in 1 .. a : s[j] \in S
      BY <1>2
    <3> QED BY <3>1, SubSeqProperties
  <2>2. SubSeq(s, 1, a) \o <<>> = SubSeq(s, 1, a)
    BY <2>1, ConcatEmptySeq
  <2> QED BY <1>2, <2>2 DEF RemoveAt, Around
<1> HIDE DEF r
<1>5. Len(r) = Len(s) - 1
  BY <1>2, <1>3
<1>6. ASSUME NEW j \in 1 .. Len(s) - 1 PROVE Rem(s, i)[j] = r[j]
  <2>1. Rem(s, i)[j] = IF j < i THEN s[j] ELSE s[j + 1]
    BY DEF Rem
  <2>2. r[j] = IF j <= a THEN s[j] ELSE s[j - a + i]
    <3>1. r[j] = IF j <= a THEN s[j] ELSE IF j <= a + 0 THEN <<>>[j - a] ELSE s[j - a - 0 + i]
      BY <1>3, <1>5
    <3>2. a + 0 = a /\ j - a - 0 + i = j - a + i
      BY <1>2
    <3> QED BY <3>1, <3>2
  <2>3. (j <= a <=> j < i) /\ j - a + i = j + 1
    BY <1>2
  <2>4. CASE j < i
    BY <2>1, <2>2, <2>3, <2>4
  <2>5. CASE ~(j < i)
    BY <2>1, <2>2, <2>3, <2>5
  <2> QED BY <2>4, <2>5
<1>7. r \in Seq(S) /\ Len(Rem(s, i)) = Len(r) /\ \A j \in 1 .. Len(Rem(s, i)) : Rem(s, i)[j] = r[j]
  BY <1>1, <1>3, <1>5, <1>6
<1>8. Rem(s, i) = r
  BY <1>1, <1>7, SeqEqual
<1> QED BY <1>4, <1>8

LEMMA SplFront ==
  ASSUME NEW S, NEW s \in Seq(S), NEW t \in Seq(S)
  PROVE  Spl(s, 0, t) = t \o s
<1>1. Spl(s, 0, t) \in Seq(S) /\ Len(Spl(s, 0, t)) = Len(s) + Len(t)
  BY SplTypes
<1>2. /\ t \o s \in Seq(S) /\ Len(t \o s) = Len(t) + Len(s)
      /\ \A j \in 1 .. Len(t) + Len(s) : (t \o s)[j] = IF j <= Len(t) THEN t[j] ELSE s[j - Len(t)]
  BY ConcatProperties
<1>3. ASSUME NEW j \in 1 .. Len(s) + Len(t) PROVE Spl(s, 0, t)[j] = (t \o s)[j]
  <2>1. Spl(s, 0, t)[j] = IF j <= 0 THEN s[j] ELSE IF j <= 0 + Len(t) THEN t[j - 0] ELSE s[j - Len(t)]
    BY DEF Spl
  <2>2. ~(j <= 0) /\ 0 + Len(t) = Len(t) /\ j - 0 = j /\ j \in 1 .. Len(t) + Len(s)
    OBVIOUS
  <2> QED BY <1>2, <2>1, <2>2
<1> QED BY <1>1, <1>2, <1>3, SeqEqual

LEMMA SplBack ==
  ASSUME NEW S, NEW s \in Seq(S), NEW t \in Seq(S)
  PROVE  Spl(s, Len(s), t) = s \o t
<1>1. Spl(s, Len(s), t) \in Seq(S) /\ Len(Spl(s, Len(s), t)) = Len(s) + Len(t)
  BY SplTypes
<1>2. /\ s \o t \in Seq(S) /\ Len(s \o t) = Len(s) + Len(t)
      /\ \A j \in 1 .. Len(s) + Len(t) : (s \o t)[j] = IF j <= Len(s) THEN s[j] ELSE t[j - Len(s)]
  BY ConcatProperties
<1>3. ASSUME NEW j \in 1 .. Len(s) + Len(t) PROVE Spl(s, Len(s), t)[j] = (s \o t)[j]
  <2>1. Spl(s, Len(s), t)[j] = IF j <= Len(s) THEN s[j] ELSE IF j <= Len(s) + Len(t) THEN t[j - Len(s)] ELSE s[j - Len(t)]
    BY DEF Spl
  <2>2. j <= Len(s) + Len(t)
    OBVIOUS
  <2> QED BY <1>2, <2>1, <2>2
<1> QED BY <1>1, <1>2, <1>3, SeqEqual

-----------------------------------------------------------------------------
(* Induction, and what a walk finds *)

\* Every set of numbers has a least one; for proofs by induction.
Smaller == {p \in Nat \X Nat : p[1] < p[2]}

LEMMA SmallerWellFounded == IsWellFoundedOn(Smaller, Nat)
BY NatLessThanWellFounded, Zenon DEF OpToRel, Smaller

LEMMA LeastNat ==
  ASSUME NEW T \in SUBSET Nat, T # {}
  PROVE  \E n \in T : \A m \in T : n <= m
<1>1. PICK n \in T : \A m \in T : ~(<<m, n>> \in Smaller)
  BY SmallerWellFounded, WFMin, Zenon
<1>2. ASSUME NEW m \in T PROVE n <= m
  <2>1. m \in Nat /\ n \in Nat /\ <<m, n>> \notin Smaller
    BY <1>1
  <2> QED BY <2>1 DEF Smaller
<1> QED BY <1>2

LEMMA Inductive ==
  ASSUME NEW T, 0 \in T, \A n \in Nat : n \in T => n + 1 \in T
  PROVE  Nat \subseteq T
<1>1. SUFFICES ASSUME Nat \ T # {} PROVE FALSE
  OBVIOUS
<1>2. PICK n \in Nat \ T : \A m \in Nat \ T : n <= m
  <2>1. Nat \ T \in SUBSET Nat
    OBVIOUS
  <2> QED BY <1>1, <2>1, LeastNat
<1>3. n # 0 /\ n - 1 \in Nat /\ ~(n <= n - 1) /\ n - 1 + 1 = n
  BY <1>2
<1>4. n - 1 \in T
  BY <1>2, <1>3
<1> QED BY <1>2, <1>3, <1>4

\* The elements of t, and z from there on.
Along(t, z, i) == IF i \in 1 .. Len(t) THEN t[i] ELSE z

\* The elements of E that N steps along ptr from h on meet.
Found(E, N, ptr, h) ==
  LET at[i \in 1 .. N] ==
        IF i = 1 THEN ptr[h] ELSE IF at[i - 1] \in E THEN ptr[at[i - 1]] ELSE at[i - 1]
  IN [i \in 1 .. Cardinality({j \in 1 .. N : at[j] \in E}) |-> at[i]]

\* ptr leads from h to the first element of t, from each to the next and on to z.
Leads(ptr, h, t, z) ==
  ptr[h] = Along(t, z, 1) /\ \A i \in 1 .. Len(t) : ptr[t[i]] = Along(t, z, i + 1)

\* A walk along pointers that lead from each element of t to the next and from
\* the last to a cell outside of E finds t.
LEMMA WalkFinds ==
  ASSUME NEW E, NEW N \in Nat, NEW ptr, NEW h, NEW z, z \notin E,
         NEW t \in Seq(E), Len(t) <= N,
         Leads(ptr, h, t, z)
  PROVE  Found(E, N, ptr, h) = t
<1>0. ptr[h] = Along(t, z, 1) /\ \A i \in 1 .. Len(t) : ptr[t[i]] = Along(t, z, i + 1)
  BY DEF Leads
<1> DEFINE Walked(f) ==
             f = [i \in 1 .. N |->
                    IF i = 1 THEN ptr[h] ELSE IF f[i - 1] \in E THEN ptr[f[i - 1]] ELSE f[i - 1]]
           at == CHOOSE f : Walked(f)
           w == [i \in 1 .. N |-> Along(t, z, i)]
<1>1. ASSUME NEW i \in 1 .. N, i # 1
      PROVE  Along(t, z, i) = IF Along(t, z, i - 1) \in E THEN ptr[Along(t, z, i - 1)] ELSE Along(t, z, i - 1)
  <2>1. i \in Nat /\ i - 1 \in Nat /\ i - 1 >= 1 /\ i - 1 + 1 = i
    BY <1>1
  <2>2. CASE i - 1 \in 1 .. Len(t)
    <3>1. Along(t, z, i - 1) = t[i - 1] /\ t[i - 1] \in E
      BY <2>2 DEF Along
    <3>2. ptr[t[i - 1]] = Along(t, z, i - 1 + 1)
      BY <1>0, <2>2
    <3> QED BY <2>1, <3>1, <3>2
  <2>3. CASE i - 1 \notin 1 .. Len(t)
    <3>1. i \notin 1 .. Len(t)
      BY <2>1, <2>3
    <3>2. Along(t, z, i - 1) = z /\ Along(t, z, i) = z
      BY <2>3, <3>1 DEF Along
    <3> QED BY <3>2
  <2> QED BY <2>2, <2>3
<1>2. Walked(w)
  <2>1. ASSUME NEW i \in 1 .. N
        PROVE  Along(t, z, i) = IF i = 1 THEN ptr[h] ELSE IF w[i - 1] \in E THEN ptr[w[i - 1]] ELSE w[i - 1]
    <3>1. CASE i = 1
      BY <1>0, <3>1
    <3>2. CASE i # 1
      <4>1. i - 1 \in 1 .. N
        BY <3>2
      <4>2. w[i - 1] = Along(t, z, i - 1)
        BY <4>1
      <4> QED BY <1>1, <3>2, <4>2
    <3> QED BY <3>1, <3>2
  <2> QED BY <2>1
<1>3. Walked(at)
  <2> HIDE DEF Walked, w
  <2> QED BY <1>2
<1> HIDE DEF at
<1>4. \A i \in 1 .. N : at[i] = IF i = 1 THEN ptr[h] ELSE IF at[i - 1] \in E THEN ptr[at[i - 1]] ELSE at[i - 1]
  BY <1>3
<1>5. ASSUME NEW i \in 1 .. N PROVE at[i] = Along(t, z, i)
  <2>1. SUFFICES ASSUME {j \in 1 .. N : at[j] # Along(t, z, j)} # {} PROVE FALSE
    OBVIOUS
  <2> DEFINE T == {j \in 1 .. N : at[j] # Along(t, z, j)}
  <2>2. PICK n \in T : \A m \in T : n <= m
    <3>1. T \in SUBSET Nat
      OBVIOUS
    <3> QED BY <2>1, <3>1, LeastNat
  <2>3. n \in 1 .. N /\ at[n] # Along(t, z, n)
    OBVIOUS
  <2>4. CASE n = 1
    BY <1>0, <1>4, <2>3, <2>4
  <2>5. CASE n # 1
    <3>1. n - 1 \in 1 .. N /\ ~(n <= n - 1)
      BY <2>3, <2>5
    <3>2. at[n - 1] = Along(t, z, n - 1)
      BY <2>2, <3>1
    <3> QED BY <1>1, <1>4, <2>3, <2>5, <3>2
  <2> QED BY <2>4, <2>5
<1>6. {j \in 1 .. N : at[j] \in E} = 1 .. Len(t)
  <2>1. ASSUME NEW j \in 1 .. N PROVE at[j] \in E <=> j \in 1 .. Len(t)
    BY <1>5 DEF Along
  <2>2. 1 .. Len(t) \subseteq 1 .. N
    OBVIOUS
  <2> QED BY <2>1, <2>2
<1>7. Cardinality(1 .. Len(t)) = Len(t)
  BY IntervalCounted
<1>8. [i \in 1 .. Cardinality({j \in 1 .. N : at[j] \in E}) |-> at[i]] = t
  <2>1. \A i \in 1 .. Len(t) : at[i] = t[i]
    BY <1>5 DEF Along
  <2>2. t = [i \in 1 .. Len(t) |-> t[i]]
    OBVIOUS
  <2> QED BY <1>6, <1>7, <2>1, <2>2
<1> QED BY <1>8, Zenon DEF at, Found

-----------------------------------------------------------------------------
(* IhList: what the stores of a function leave in the heap *)

Heap == [next : [ListCell -> ListCell \cup {Poison}], prev : [ListCell -> ListCell \cup {Poison}]]
PtrTo == ListCell \cup {Poison}

SetNext(m, a, v) == [m EXCEPT !.next[a] = v]
SetPrev(m, a, v) == [m EXCEPT !.prev[a] = v]
Poisoned(m, n) == [m EXCEPT !.next[n] = Poison, !.prev[n] = Poison]

\* A heap that is like m, but for two cells' next and two cells' prev.
Stored(m, r, a, av, b, bv, c, cv, d, dv) ==
  /\ r \in Heap
  /\ \A e \in ListCell :
       /\ r.next[e] = IF e = b THEN bv ELSE IF e = a THEN av ELSE m.next[e]
       /\ r.prev[e] = IF e = d THEN dv ELSE IF e = c THEN cv ELSE m.prev[e]

LEMMA HeapIs ==
  ASSUME NEW m \in Heap
  PROVE  /\ m.next \in [ListCell -> PtrTo] /\ m.prev \in [ListCell -> PtrTo]
         /\ \A e \in ListCell : m.next[e] \in PtrTo /\ m.prev[e] \in PtrTo
BY DEF Heap, PtrTo


LEMMA NextStore ==
  ASSUME NEW m \in Heap, NEW a, NEW v \in PtrTo
  PROVE  /\ SetNext(m, a, v) \in Heap
         /\ \A e \in ListCell : /\ SetNext(m, a, v).next[e] = IF e = a THEN v ELSE m.next[e]
                                /\ SetNext(m, a, v).prev[e] = m.prev[e]
<1> DEFINE f == [m.next EXCEPT ![a] = v]
           r == [m EXCEPT !.next = f]
<1>1. m.next \in [ListCell -> PtrTo] /\ m.prev \in [ListCell -> PtrTo]
  BY HeapIs
<1>2. f \in [ListCell -> PtrTo] /\ \A e \in ListCell : f[e] = IF e = a THEN v ELSE m.next[e]
  BY <1>1
<1>3. SetNext(m, a, v) = r
  BY DEF SetNext
<1> HIDE DEF f
<1>4. r.next = f /\ r.prev = m.prev /\ r \in Heap
  BY <1>1, <1>2 DEF Heap, PtrTo
<1> HIDE DEF r
<1> QED BY <1>2, <1>3, <1>4

LEMMA PrevStore ==
  ASSUME NEW m \in Heap, NEW a, NEW v \in PtrTo
  PROVE  /\ SetPrev(m, a, v) \in Heap
         /\ \A e \in ListCell : /\ SetPrev(m, a, v).prev[e] = IF e = a THEN v ELSE m.prev[e]
                                /\ SetPrev(m, a, v).next[e] = m.next[e]
<1> DEFINE f == [m.prev EXCEPT ![a] = v]
           r == [m EXCEPT !.prev = f]
<1>1. m.prev \in [ListCell -> PtrTo] /\ m.next \in [ListCell -> PtrTo]
  BY HeapIs
<1>2. f \in [ListCell -> PtrTo] /\ \A e \in ListCell : f[e] = IF e = a THEN v ELSE m.prev[e]
  BY <1>1
<1>3. SetPrev(m, a, v) = r
  BY DEF SetPrev
<1> HIDE DEF f
<1>4. r.prev = f /\ r.next = m.next /\ r \in Heap
  BY <1>1, <1>2 DEF Heap, PtrTo
<1> HIDE DEF r
<1> QED BY <1>2, <1>3, <1>4

LEMMA AddBetweenStores ==
  ASSUME NEW m \in Heap, NEW n \in ListCell, NEW p \in PtrTo, NEW y \in PtrTo
  PROVE  Stored(m, AddBetween(m, n, p, y), n, y, p, n, y, n, n, p)
<1>1. n \in PtrTo /\ p \in PtrTo /\ y \in PtrTo
  BY HeapIs DEF PtrTo
<1> DEFINE m1 == SetPrev(m, y, n)
           m2 == SetNext(m1, n, y)
           m3 == SetPrev(m2, n, p)
           m4 == SetNext(m3, p, n)
<1>2. AddBetween(m, n, p, y) = m4
  BY Zenon DEF AddBetween, SetNext, SetPrev
<1>3. /\ m1 \in Heap
      /\ \A d \in ListCell : m1.prev[d] = (IF d = y THEN n ELSE m.prev[d]) /\ m1.next[d] = m.next[d]
  BY <1>1, PrevStore
<1> HIDE DEF m1
<1>4. /\ m2 \in Heap
      /\ \A d \in ListCell : m2.next[d] = (IF d = n THEN y ELSE m1.next[d]) /\ m2.prev[d] = m1.prev[d]
  BY <1>1, <1>3, NextStore
<1> HIDE DEF m2
<1>5. /\ m3 \in Heap
      /\ \A d \in ListCell : m3.prev[d] = (IF d = n THEN p ELSE m2.prev[d]) /\ m3.next[d] = m2.next[d]
  BY <1>1, <1>4, PrevStore
<1> HIDE DEF m3
<1>6. /\ m4 \in Heap
      /\ \A d \in ListCell : m4.next[d] = (IF d = p THEN n ELSE m3.next[d]) /\ m4.prev[d] = m3.prev[d]
  BY <1>1, <1>5, NextStore
<1> HIDE DEF m4
<1> QED BY <1>2, <1>3, <1>4, <1>5, <1>6 DEF Stored

LEMMA InitHeadStores ==
  ASSUME NEW m \in Heap, NEW h \in ListCell
  PROVE  Stored(m, InitHead(m, h), h, h, h, h, h, h, h, h)
<1>1. h \in PtrTo
  BY HeapIs DEF PtrTo
<1> DEFINE m1 == SetNext(m, h, h)
           m2 == SetPrev(m1, h, h)
<1>2. InitHead(m, h) = m2
  BY Zenon DEF InitHead, SetNext, SetPrev
<1>3. /\ m1 \in Heap
      /\ \A d \in ListCell : m1.next[d] = (IF d = h THEN h ELSE m.next[d]) /\ m1.prev[d] = m.prev[d]
  BY <1>1, NextStore
<1> HIDE DEF m1
<1>4. /\ m2 \in Heap
      /\ \A d \in ListCell : m2.prev[d] = (IF d = h THEN h ELSE m1.prev[d]) /\ m2.next[d] = m1.next[d]
  BY <1>1, <1>3, PrevStore
<1> HIDE DEF m2
<1> QED BY <1>2, <1>3, <1>4 DEF Stored

LEMMA UnlinkStores ==
  ASSUME NEW m \in Heap, NEW n \in ListCell
  PROVE  Stored(m, Unlink(m, n), m.prev[n], m.next[n], m.prev[n], m.next[n],
                m.next[n], m.prev[n], m.next[n], m.prev[n])
<1> DEFINE p == m.prev[n]
           y == m.next[n]
<1>1. p \in PtrTo /\ y \in PtrTo
  BY HeapIs DEF PtrTo
<1>2. Unlink(m, n) = DelBetween(m, p, y)
  BY Zenon DEF Unlink
<1> HIDE DEF p, y
<1> DEFINE m1 == SetPrev(m, y, p)
           m2 == SetNext(m1, p, y)
<1>3. Unlink(m, n) = m2
  BY <1>2, Zenon DEF DelBetween, SetNext, SetPrev
<1>4. /\ m1 \in Heap
      /\ \A d \in ListCell : m1.prev[d] = (IF d = y THEN p ELSE m.prev[d]) /\ m1.next[d] = m.next[d]
  BY <1>1, PrevStore
<1> HIDE DEF m1
<1>5. /\ m2 \in Heap
      /\ \A d \in ListCell : m2.next[d] = (IF d = p THEN y ELSE m1.next[d]) /\ m2.prev[d] = m1.prev[d]
  BY <1>1, <1>4, NextStore
<1> HIDE DEF m2
<1>6. Stored(m, Unlink(m, n), p, y, p, y, y, p, y, p)
  BY <1>3, <1>4, <1>5 DEF Stored
<1> QED BY <1>6 DEF p, y

LEMMA PoisonStores ==
  ASSUME NEW m \in Heap, NEW n \in ListCell
  PROVE  Stored(m, Poisoned(m, n), n, Poison, n, Poison, n, Poison, n, Poison)
<1>1. Poison \in PtrTo
  BY HeapIs DEF PtrTo
<1> DEFINE m1 == SetNext(m, n, Poison)
           m2 == SetPrev(m1, n, Poison)
<1>2. Poisoned(m, n) = m2
  BY Zenon DEF Poisoned, SetNext, SetPrev
<1>3. /\ m1 \in Heap
      /\ \A d \in ListCell : m1.next[d] = (IF d = n THEN Poison ELSE m.next[d]) /\ m1.prev[d] = m.prev[d]
  BY <1>1, NextStore
<1> HIDE DEF m1
<1>4. /\ m2 \in Heap
      /\ \A d \in ListCell : m2.prev[d] = (IF d = n THEN Poison ELSE m1.prev[d]) /\ m2.next[d] = m1.next[d]
  BY <1>1, <1>3, PrevStore
<1> HIDE DEF m2
<1> QED BY <1>2, <1>3, <1>4 DEF Stored

LEMMA SpliceStores ==
  ASSUME NEW m \in Heap, NEW g \in ListCell, NEW p \in PtrTo, NEW y \in PtrTo
  PROVE  Stored(m, SpliceBetween(m, g, p, y), p, m.next[g], m.prev[g], y, m.next[g], p, y, m.prev[g])
<1> DEFINE a == m.next[g]
           b == m.prev[g]
<1>1. a \in PtrTo /\ b \in PtrTo
  BY HeapIs DEF PtrTo
<1>2. SpliceBetween(m, g, p, y) = [m EXCEPT !.prev[a] = p, !.next[p] = a, !.next[b] = y, !.prev[y] = b]
  BY Zenon DEF SpliceBetween
<1> HIDE DEF a, b
<1> DEFINE m1 == SetPrev(m, a, p)
           m2 == SetNext(m1, p, a)
           m3 == SetNext(m2, b, y)
           m4 == SetPrev(m3, y, b)
<1>3. SpliceBetween(m, g, p, y) = m4
  BY <1>2, Zenon DEF SetNext, SetPrev
<1>4. /\ m1 \in Heap
      /\ \A d \in ListCell : m1.prev[d] = (IF d = a THEN p ELSE m.prev[d]) /\ m1.next[d] = m.next[d]
  BY <1>1, PrevStore
<1> HIDE DEF m1
<1>5. /\ m2 \in Heap
      /\ \A d \in ListCell : m2.next[d] = (IF d = p THEN a ELSE m1.next[d]) /\ m2.prev[d] = m1.prev[d]
  BY <1>1, <1>4, NextStore
<1> HIDE DEF m2
<1>6. /\ m3 \in Heap
      /\ \A d \in ListCell : m3.next[d] = (IF d = b THEN y ELSE m2.next[d]) /\ m3.prev[d] = m2.prev[d]
  BY <1>1, <1>5, NextStore
<1> HIDE DEF m3
<1>7. /\ m4 \in Heap
      /\ \A d \in ListCell : m4.prev[d] = (IF d = y THEN b ELSE m3.prev[d]) /\ m4.next[d] = m3.next[d]
  BY <1>1, <1>6, PrevStore
<1> HIDE DEF m4
<1>8. Stored(m, SpliceBetween(m, g, p, y), p, a, b, y, a, p, y, b)
  BY <1>3, <1>4, <1>5, <1>6, <1>7 DEF Stored
<1> QED BY <1>8 DEF a, b

LEMMA DelIs ==
  ASSUME NEW m, NEW n
  PROVE  Del(m, n) = Poisoned(Unlink(m, n), n)
BY Zenon DEF Del, Poisoned

\* What o's neighbours and n hold after the replacement, when o is not its own neighbour.
LEMMA ReplaceStores ==
  ASSUME NEW m \in Heap, NEW o \in ListCell, NEW n \in ListCell, m.next[o] # o
  PROVE  Stored(m, Replace(m, o, n), n, m.next[o], m.prev[o], n, m.next[o], n, n, m.prev[o])
<1> DEFINE p == m.prev[o]
           y == m.next[o]
<1>1. p \in PtrTo /\ y \in PtrTo /\ n \in PtrTo /\ y # o /\ p = m.prev[o]
  BY HeapIs DEF PtrTo
<1> DEFINE m1 == SetNext(m, n, y)
           m2 == SetPrev(m1, y, n)
           q == m2.prev[o]
           m3 == SetPrev(m2, n, q)
           m4 == SetNext(m3, q, n)
<1>2. Replace(m, o, n) = m4
  BY Zenon DEF Replace, SetNext, SetPrev
<1> HIDE DEF p, y
<1>3. /\ m1 \in Heap
      /\ \A d \in ListCell : m1.next[d] = (IF d = n THEN y ELSE m.next[d]) /\ m1.prev[d] = m.prev[d]
  BY <1>1, NextStore
<1> HIDE DEF m1
<1>4. /\ m2 \in Heap
      /\ \A d \in ListCell : m2.prev[d] = (IF d = y THEN n ELSE m1.prev[d]) /\ m2.next[d] = m1.next[d]
  BY <1>1, <1>3, PrevStore
<1> HIDE DEF m2
<1>5. q = p
  BY <1>1, <1>3, <1>4
<1> HIDE DEF q
<1>6. /\ m3 \in Heap
      /\ \A d \in ListCell : m3.prev[d] = (IF d = n THEN p ELSE m2.prev[d]) /\ m3.next[d] = m2.next[d]
  BY <1>1, <1>4, <1>5, PrevStore
<1> HIDE DEF m3
<1>7. /\ m4 \in Heap
      /\ \A d \in ListCell : m4.next[d] = (IF d = p THEN n ELSE m3.next[d]) /\ m4.prev[d] = m3.prev[d]
  BY <1>1, <1>5, <1>6, NextStore
<1> HIDE DEF m4
<1>8. Stored(m, Replace(m, o, n), n, y, p, n, y, n, n, p)
  BY <1>2, <1>3, <1>4, <1>6, <1>7 DEF Stored
<1> QED BY <1>8 DEF p, y

\* ih_list_cut_position stores three next and three prev pointers.
CutsOff(m, r, g, h, e) ==
  /\ r \in Heap
  /\ \A c \in ListCell :
       /\ r.next[c] = IF c = h THEN m.next[e] ELSE IF c = e THEN g ELSE IF c = g THEN m.next[h] ELSE m.next[c]
       /\ r.prev[c] = IF c = m.next[e] THEN h ELSE IF c = g THEN e ELSE IF c = m.next[h] THEN g ELSE m.prev[c]

LEMMA CutStores ==
  ASSUME NEW m \in Heap, NEW g \in ListCell, NEW h \in ListCell, NEW e \in ListCell
  PROVE  CutsOff(m, CutAt(m, g, h, e), g, h, e)
<1> DEFINE y == m.next[h]
           z == m.next[e]
           m1 == SetNext(m, g, y)
           m2 == SetPrev(m1, y, g)
           m3 == SetPrev(m2, g, e)
           m4 == SetNext(m3, e, g)
           m5 == SetNext(m4, h, z)
           m6 == SetPrev(m5, z, h)
<1>1. y \in PtrTo /\ z \in PtrTo /\ g \in PtrTo /\ h \in PtrTo /\ e \in PtrTo
  BY HeapIs DEF PtrTo
<1>2. CutAt(m, g, h, e) = m6
  BY Zenon DEF CutAt, SetNext, SetPrev
<1> HIDE DEF y, z
<1>3. /\ m1 \in Heap
      /\ \A d \in ListCell : m1.next[d] = (IF d = g THEN y ELSE m.next[d]) /\ m1.prev[d] = m.prev[d]
  BY <1>1, NextStore
<1> HIDE DEF m1
<1>4. /\ m2 \in Heap
      /\ \A d \in ListCell : m2.prev[d] = (IF d = y THEN g ELSE m1.prev[d]) /\ m2.next[d] = m1.next[d]
  BY <1>1, <1>3, PrevStore
<1> HIDE DEF m2
<1>5. /\ m3 \in Heap
      /\ \A d \in ListCell : m3.prev[d] = (IF d = g THEN e ELSE m2.prev[d]) /\ m3.next[d] = m2.next[d]
  BY <1>1, <1>4, PrevStore
<1> HIDE DEF m3
<1>6. /\ m4 \in Heap
      /\ \A d \in ListCell : m4.next[d] = (IF d = e THEN g ELSE m3.next[d]) /\ m4.prev[d] = m3.prev[d]
  BY <1>1, <1>5, NextStore
<1> HIDE DEF m4
<1>7. /\ m5 \in Heap
      /\ \A d \in ListCell : m5.next[d] = (IF d = h THEN z ELSE m4.next[d]) /\ m5.prev[d] = m4.prev[d]
  BY <1>1, <1>6, NextStore
<1> HIDE DEF m5
<1>8. /\ m6 \in Heap
      /\ \A d \in ListCell : m6.prev[d] = (IF d = z THEN h ELSE m5.prev[d]) /\ m6.next[d] = m5.next[d]
  BY <1>1, <1>7, PrevStore
<1> HIDE DEF m6
<1>9. ASSUME NEW c \in ListCell
      PROVE  /\ m6.next[c] = IF c = h THEN z ELSE IF c = e THEN g ELSE IF c = g THEN y ELSE m.next[c]
             /\ m6.prev[c] = IF c = z THEN h ELSE IF c = g THEN e ELSE IF c = y THEN g ELSE m.prev[c]
  BY <1>3, <1>4, <1>5, <1>6, <1>7, <1>8
<1> QED BY <1>2, <1>8, <1>9 DEF CutsOff, y, z

-----------------------------------------------------------------------------
(* IhList: a head and its elements, in a ring *)

Single(s) == \A i, j \in 1 .. Len(s) : s[i] = s[j] => i = j

\* The pointers of h and of the elements of s form a ring in that order.
Linked(m, s, h) ==
  \A i \in 0 .. Len(s) : /\ m.next[Along(s, h, i)] = Along(s, h, i + 1)
                         /\ m.prev[Along(s, h, i + 1)] = Along(s, h, i)

LEMMA Kinds ==
  ASSUME NEW h \in Root, NEW n \in Node
  PROVE  h # n /\ h \in ListCell /\ n \in ListCell /\ h \notin Node /\ n \notin Root
BY ListAssumption DEF ListCell

LEMMA AlongTypes ==
  ASSUME NEW h \in Root, NEW s \in Seq(Node), NEW i \in Int
  PROVE  /\ Along(s, h, i) \in ListCell
         /\ i \in 1 .. Len(s) => Along(s, h, i) = s[i] /\ Along(s, h, i) \in Node
         /\ i \notin 1 .. Len(s) => Along(s, h, i) = h
<1>1. CASE i \in 1 .. Len(s)
  <2>1. s[i] \in Node
    BY <1>1
  <2> QED BY <1>1, <2>1 DEF Along, ListCell
<1>2. CASE i \notin 1 .. Len(s)
  BY <1>2 DEF Along, ListCell
<1> QED BY <1>1, <1>2

\* A head or the elements occur once in a round.
LEMMA AlongDistinct ==
  ASSUME NEW h \in Root, NEW s \in Seq(Node), Single(s), NEW i \in Int, NEW j \in Int,
         Along(s, h, i) = Along(s, h, j),
         (i \in 0 .. Len(s) /\ j \in 0 .. Len(s)) \/ (i \in 1 .. Len(s) + 1 /\ j \in 1 .. Len(s) + 1)
  PROVE  i = j
<1>1. CASE i \in 1 .. Len(s) /\ j \in 1 .. Len(s)
  BY <1>1 DEF Along, Single
<1>2. CASE i \in 1 .. Len(s) /\ j \notin 1 .. Len(s)
  BY <1>2, AlongTypes, Kinds
<1>3. CASE i \notin 1 .. Len(s) /\ j \in 1 .. Len(s)
  BY <1>3, AlongTypes, Kinds
<1>4. CASE i \notin 1 .. Len(s) /\ j \notin 1 .. Len(s)
  BY <1>4
<1> QED BY <1>1, <1>2, <1>3, <1>4

\* A cell that is neither the head nor an element is met nowhere.
LEMMA AlongNot ==
  ASSUME NEW s, NEW h, NEW n, n # h, \A i \in 1 .. Len(s) : s[i] # n, NEW i
  PROVE  Along(s, h, i) # n
BY DEF Along

LEMMA InsAlong ==
  ASSUME NEW S, NEW h, NEW s \in Seq(S), NEW n \in S, NEW q \in 0 .. Len(s),
         NEW i \in 0 .. Len(s) + 2
  PROVE  Along(Ins(s, q, n), h, i) =
           IF i <= q THEN Along(s, h, i) ELSE IF i = q + 1 THEN n ELSE Along(s, h, i - 1)
<1> DEFINE t == Ins(s, q, n)
<1>1. Len(t) = Len(s) + 1 /\ \A j \in 1 .. Len(s) + 1 :
        t[j] = IF j <= q THEN s[j] ELSE IF j = q + 1 THEN n ELSE s[j - 1]
  BY InsTypes DEF Ins
<1> HIDE DEF t
<1>2. Len(s) \in Nat
  OBVIOUS
<1>3. CASE i <= q
  <2>1. i \in 1 .. Len(t) <=> i \in 1 .. Len(s)
    BY <1>1, <1>2, <1>3
  <2>2. i \in 1 .. Len(s) => t[i] = s[i]
    BY <1>1, <1>2, <1>3
  <2> QED BY <1>3, <2>1, <2>2 DEF Along, t
<1>4. CASE i = q + 1
  <2>1. i \in 1 .. Len(t) /\ t[i] = n /\ ~(i <= q)
    BY <1>1, <1>2, <1>4
  <2> QED BY <1>4, <2>1 DEF Along, t
<1>5. CASE i > q + 1
  <2>1. i \in 1 .. Len(t) <=> i - 1 \in 1 .. Len(s)
    BY <1>1, <1>2, <1>5
  <2>2. i - 1 \in 1 .. Len(s) => t[i] = s[i - 1]
    BY <1>1, <1>2, <1>5
  <2>3. ~(i <= q) /\ i # q + 1
    BY <1>5
  <2> QED BY <2>1, <2>2, <2>3 DEF Along, t
<1> QED BY <1>2, <1>3, <1>4, <1>5

LEMMA RemAlong ==
  ASSUME NEW S, NEW h, NEW s \in Seq(S), NEW q \in 1 .. Len(s), NEW i \in 0 .. Len(s)
  PROVE  Along(Rem(s, q), h, i) = IF i < q THEN Along(s, h, i) ELSE Along(s, h, i + 1)
<1> DEFINE t == Rem(s, q)
<1>1. Len(t) = Len(s) - 1 /\ \A j \in 1 .. Len(s) - 1 : t[j] = IF j < q THEN s[j] ELSE s[j + 1]
  BY RemTypes DEF Rem
<1> HIDE DEF t
<1>2. Len(s) \in Nat
  OBVIOUS
<1>3. CASE i < q
  <2>1. i \in 1 .. Len(t) <=> i \in 1 .. Len(s)
    BY <1>1, <1>2, <1>3
  <2>2. i \in 1 .. Len(s) => t[i] = s[i]
    BY <1>1, <1>2, <1>3
  <2> QED BY <1>3, <2>1, <2>2 DEF Along, t
<1>4. CASE ~(i < q)
  <2>1. i \in 1 .. Len(t) <=> i + 1 \in 1 .. Len(s)
    BY <1>1, <1>2, <1>4
  <2>2. i + 1 \in 1 .. Len(s) => t[i] = s[i + 1]
    BY <1>1, <1>2, <1>4
  <2> QED BY <1>4, <2>1, <2>2 DEF Along, t
<1> QED BY <1>3, <1>4

LEMMA RepAlong ==
  ASSUME NEW h \in Root, NEW s \in Seq(Node), NEW n \in Node, NEW q \in 1 .. Len(s), NEW i \in Int
  PROVE  Along([s EXCEPT ![q] = n], h, i) = IF i = q THEN n ELSE Along(s, h, i)
<1>1. Len([s EXCEPT ![q] = n]) = Len(s) /\ \A j \in 1 .. Len(s) : [s EXCEPT ![q] = n][j] = IF j = q THEN n ELSE s[j]
  OBVIOUS
<1> QED BY <1>1 DEF Along

LEMMA SplAlong ==
  ASSUME NEW h \in Root, NEW s \in Seq(Node), NEW t \in Seq(Node), NEW q \in 0 .. Len(s),
         NEW i \in 0 .. Len(s) + Len(t) + 1
  PROVE  Along(Spl(s, q, t), h, i) =
           IF i <= q THEN Along(s, h, i) ELSE IF i <= q + Len(t) THEN t[i - q] ELSE Along(s, h, i - Len(t))
<1> DEFINE r == Spl(s, q, t)
<1>1. Len(r) = Len(s) + Len(t) /\ \A j \in 1 .. Len(s) + Len(t) :
        r[j] = IF j <= q THEN s[j] ELSE IF j <= q + Len(t) THEN t[j - q] ELSE s[j - Len(t)]
  BY SplTypes DEF Spl
<1> HIDE DEF r
<1>2. Len(s) \in Nat /\ Len(t) \in Nat
  OBVIOUS
<1>3. CASE i <= q
  <2>1. i \in 1 .. Len(r) <=> i \in 1 .. Len(s)
    BY <1>1, <1>2, <1>3
  <2>2. i \in 1 .. Len(s) => r[i] = s[i]
    BY <1>1, <1>2, <1>3
  <2> QED BY <1>3, <2>1, <2>2 DEF Along, r
<1>4. CASE ~(i <= q) /\ i <= q + Len(t)
  <2>1. i \in 1 .. Len(r) /\ r[i] = t[i - q]
    BY <1>1, <1>2, <1>4
  <2> QED BY <1>4, <2>1 DEF Along, r
<1>5. CASE ~(i <= q + Len(t))
  <2>1. i \in 1 .. Len(r) <=> i - Len(t) \in 1 .. Len(s)
    BY <1>1, <1>2, <1>5
  <2>2. i - Len(t) \in 1 .. Len(s) => r[i] = s[i - Len(t)]
    BY <1>1, <1>2, <1>5
  <2>3. ~(i <= q)
    BY <1>2, <1>5
  <2> QED BY <1>5, <2>1, <2>2, <2>3 DEF Along, r
<1> QED BY <1>2, <1>3, <1>4, <1>5

-----------------------------------------------------------------------------
(* IhList: the ring after the stores of each function *)

LEMMA InsLinked ==
  ASSUME NEW m \in Heap, NEW r, NEW h \in Root, NEW s \in Seq(Node), Single(s), Linked(m, s, h),
         NEW n \in Node, \A i \in 1 .. Len(s) : s[i] # n, NEW q \in 0 .. Len(s),
         NEW p, p = Along(s, h, q), NEW y, y = Along(s, h, q + 1),
         Stored(m, r, n, y, p, n, y, n, n, p)
  PROVE  Linked(r, Ins(s, q, n), h)
<1> DEFINE A(i) == Along(s, h, i)
           B(i) == Along(Ins(s, q, n), h, i)
<1>1. Len(s) \in Nat /\ Len(Ins(s, q, n)) = Len(s) + 1 /\ q \in Nat
  BY InsTypes
<1>2. ASSUME NEW i \in Int PROVE A(i) \in ListCell /\ A(i) # n
  BY AlongTypes, AlongNot, Kinds
<1>3. ASSUME NEW i \in 0 .. Len(s) + 2
      PROVE  B(i) = IF i <= q THEN A(i) ELSE IF i = q + 1 THEN n ELSE A(i - 1)
  BY InsAlong
<1>4. ASSUME NEW i \in 0 .. Len(s), i # q PROVE A(i) # p /\ A(i + 1) # y
  BY <1>4, AlongDistinct
<1>5. ASSUME NEW i \in 0 .. Len(s) PROVE m.next[A(i)] = A(i + 1) /\ m.prev[A(i + 1)] = A(i)
  BY DEF Linked
<1>6. n \in ListCell /\ p \in ListCell /\ y \in ListCell /\ p # n /\ y # n
  BY <1>1, <1>2, Kinds
<1>7. \A e \in ListCell : /\ r.next[e] = IF e = p THEN n ELSE IF e = n THEN y ELSE m.next[e]
                          /\ r.prev[e] = IF e = n THEN p ELSE IF e = y THEN n ELSE m.prev[e]
  BY DEF Stored
<1> HIDE DEF A, B
<1>8. ASSUME NEW i \in 0 .. Len(s), i # q PROVE r.next[A(i)] = A(i + 1) /\ r.prev[A(i + 1)] = A(i)
  <2>1. A(i) \in ListCell /\ A(i + 1) \in ListCell /\ A(i) # n /\ A(i + 1) # n
    BY <1>1, <1>2
  <2> QED BY <1>4, <1>5, <1>7, <1>8, <2>1
<1>9. ASSUME NEW i \in 0 .. Len(s) + 1 PROVE r.next[B(i)] = B(i + 1) /\ r.prev[B(i + 1)] = B(i)
  <2>1. i \in 0 .. Len(s) + 2 /\ i + 1 \in 0 .. Len(s) + 2 /\ i \in Nat
    BY <1>1
  <2>2. CASE i < q
    <3>1. B(i) = A(i) /\ B(i + 1) = A(i + 1) /\ i \in 0 .. Len(s) /\ i # q
      BY <1>1, <1>3, <2>1, <2>2
    <3> QED BY <1>8, <3>1
  <2>3. CASE i = q
    <3>1. B(i) = p /\ B(i + 1) = n
      BY <1>1, <1>3, <2>1, <2>3 DEF A
    <3> QED BY <1>6, <1>7, <3>1
  <2>4. CASE i = q + 1
    <3>1. B(i) = n /\ B(i + 1) = y
      <4>1. i + 1 - 1 = q + 1 /\ ~(i + 1 <= q) /\ i + 1 # q + 1 /\ ~(i <= q)
        BY <1>1, <2>4
      <4> QED BY <1>3, <2>1, <2>4, <4>1 DEF A
    <3> QED BY <1>6, <1>7, <3>1
  <2>5. CASE i > q + 1
    <3>1. i - 1 \in 0 .. Len(s) /\ i - 1 # q /\ i - 1 + 1 = i
      BY <1>1, <2>1, <2>5
    <3>2. B(i) = A(i - 1) /\ B(i + 1) = A(i)
      <4>1. i + 1 - 1 = i /\ ~(i + 1 <= q) /\ i + 1 # q + 1 /\ ~(i <= q) /\ i # q + 1
        BY <1>1, <2>1, <2>5
      <4> QED BY <1>3, <2>1, <4>1
    <3> QED BY <1>8, <3>1, <3>2
  <2> QED BY <1>1, <2>1, <2>2, <2>3, <2>4, <2>5
<1> QED BY <1>1, <1>9 DEF Linked, B

LEMMA RemLinked ==
  ASSUME NEW m \in Heap, NEW r, NEW h \in Root, NEW s \in Seq(Node), Single(s), Linked(m, s, h),
         NEW q \in 1 .. Len(s),
         NEW p, p = Along(s, h, q - 1), NEW y, y = Along(s, h, q + 1),
         Stored(m, r, p, y, p, y, y, p, y, p)
  PROVE  Linked(r, Rem(s, q), h)
<1> DEFINE A(i) == Along(s, h, i)
           B(i) == Along(Rem(s, q), h, i)
<1>1. Len(s) \in Nat /\ Len(Rem(s, q)) = Len(s) - 1 /\ q \in Nat /\ q >= 1
  BY RemTypes
<1>2. ASSUME NEW i \in Int PROVE A(i) \in ListCell
  BY AlongTypes
<1>3. ASSUME NEW i \in 0 .. Len(s) PROVE B(i) = IF i < q THEN A(i) ELSE A(i + 1)
  BY RemAlong
<1>4. ASSUME NEW i \in 0 .. Len(s), i # q - 1, i # q PROVE A(i) # p /\ A(i + 1) # y
  <2>1. i + 1 \in 1 .. Len(s) + 1 /\ q + 1 \in 1 .. Len(s) + 1 /\ q - 1 \in 0 .. Len(s) /\ i + 1 # q + 1
    BY <1>1, <1>4
  <2> QED BY <1>1, <1>4, <2>1, AlongDistinct
<1>5. ASSUME NEW i \in 0 .. Len(s) PROVE m.next[A(i)] = A(i + 1) /\ m.prev[A(i + 1)] = A(i)
  BY DEF Linked
<1>7. \A e \in ListCell : /\ r.next[e] = IF e = p THEN y ELSE m.next[e]
                          /\ r.prev[e] = IF e = y THEN p ELSE m.prev[e]
  BY DEF Stored
<1>6. p \in ListCell /\ y \in ListCell
  BY <1>1, <1>2
<1> HIDE DEF A, B
<1>8. ASSUME NEW i \in 0 .. Len(s), i # q - 1, i # q
      PROVE  r.next[A(i)] = A(i + 1) /\ r.prev[A(i + 1)] = A(i)
  <2>1. A(i) \in ListCell /\ A(i + 1) \in ListCell
    BY <1>1, <1>2
  <2> QED BY <1>4, <1>5, <1>7, <1>8, <2>1
<1>9. ASSUME NEW i \in 0 .. Len(s) - 1 PROVE r.next[B(i)] = B(i + 1) /\ r.prev[B(i + 1)] = B(i)
  <2>1. i \in 0 .. Len(s) /\ i + 1 \in 0 .. Len(s) /\ i \in Nat
    BY <1>1
  <2>2. CASE i < q - 1
    <3>1. B(i) = A(i) /\ B(i + 1) = A(i + 1) /\ i # q /\ i # q - 1
      BY <1>1, <1>3, <2>1, <2>2
    <3> QED BY <1>8, <2>1, <3>1
  <2>3. CASE i = q - 1
    <3>1. B(i) = p /\ B(i + 1) = y
      <4>1. i < q /\ ~(i + 1 < q) /\ i + 1 + 1 = q + 1
        BY <1>1, <2>3
      <4> QED BY <1>3, <2>1, <2>3, <4>1 DEF A
    <3> QED BY <1>6, <1>7, <3>1
  <2>4. CASE i > q - 1
    <3>1. B(i) = A(i + 1) /\ B(i + 1) = A(i + 1 + 1) /\ i + 1 # q /\ i + 1 # q - 1
      <4>1. ~(i < q) /\ ~(i + 1 < q) /\ i + 1 # q /\ i + 1 # q - 1
        BY <1>1, <2>1, <2>4
      <4> QED BY <1>3, <2>1, <4>1
    <3> QED BY <1>8, <2>1, <3>1
  <2> QED BY <1>1, <2>1, <2>2, <2>3, <2>4
<1> QED BY <1>1, <1>9 DEF Linked, B

LEMMA RepLinked ==
  ASSUME NEW m \in Heap, NEW r, NEW h \in Root, NEW s \in Seq(Node), Single(s), Linked(m, s, h),
         NEW n \in Node, \A i \in 1 .. Len(s) : s[i] # n, NEW q \in 1 .. Len(s),
         NEW p, p = Along(s, h, q - 1), NEW y, y = Along(s, h, q + 1),
         Stored(m, r, n, y, p, n, y, n, n, p)
  PROVE  Linked(r, [s EXCEPT ![q] = n], h)
<1> DEFINE A(i) == Along(s, h, i)
           B(i) == Along([s EXCEPT ![q] = n], h, i)
<1>1. Len(s) \in Nat /\ Len([s EXCEPT ![q] = n]) = Len(s) /\ q \in Nat /\ q >= 1
  OBVIOUS
<1>2. ASSUME NEW i \in Int PROVE A(i) \in ListCell /\ A(i) # n
  BY AlongTypes, AlongNot, Kinds
<1>3. ASSUME NEW i \in Int PROVE B(i) = IF i = q THEN n ELSE A(i)
  BY RepAlong
<1>4. ASSUME NEW i \in 0 .. Len(s), i # q - 1, i # q PROVE A(i) # p /\ A(i + 1) # y
  <2>1. i + 1 \in 1 .. Len(s) + 1 /\ q + 1 \in 1 .. Len(s) + 1 /\ q - 1 \in 0 .. Len(s) /\ i + 1 # q + 1
    BY <1>1, <1>4
  <2> QED BY <1>1, <1>4, <2>1, AlongDistinct
<1>5. ASSUME NEW i \in 0 .. Len(s) PROVE m.next[A(i)] = A(i + 1) /\ m.prev[A(i + 1)] = A(i)
  BY DEF Linked
<1>6. n \in ListCell /\ p \in ListCell /\ y \in ListCell /\ p # n /\ y # n
  BY <1>1, <1>2, Kinds
<1>7. \A e \in ListCell : /\ r.next[e] = IF e = p THEN n ELSE IF e = n THEN y ELSE m.next[e]
                          /\ r.prev[e] = IF e = n THEN p ELSE IF e = y THEN n ELSE m.prev[e]
  BY DEF Stored
<1> HIDE DEF A, B
<1>8. ASSUME NEW i \in 0 .. Len(s), i # q - 1, i # q
      PROVE  r.next[A(i)] = A(i + 1) /\ r.prev[A(i + 1)] = A(i)
  <2>1. A(i) \in ListCell /\ A(i + 1) \in ListCell /\ A(i) # n /\ A(i + 1) # n
    BY <1>1, <1>2
  <2> QED BY <1>4, <1>5, <1>7, <1>8, <2>1
<1>9. ASSUME NEW i \in 0 .. Len(s) PROVE r.next[B(i)] = B(i + 1) /\ r.prev[B(i + 1)] = B(i)
  <2>1. i \in Int /\ i + 1 \in Int
    OBVIOUS
  <2>2. CASE i # q - 1 /\ i # q
    <3>1. B(i) = A(i) /\ B(i + 1) = A(i + 1)
      BY <1>1, <1>3, <2>1, <2>2
    <3> QED BY <1>8, <2>2, <3>1
  <2>3. CASE i = q - 1
    <3>1. B(i) = p /\ B(i + 1) = n
      <4>1. i # q /\ i + 1 = q
        BY <1>1, <2>3
      <4> QED BY <1>3, <2>1, <2>3, <4>1 DEF A
    <3> QED BY <1>6, <1>7, <3>1
  <2>4. CASE i = q
    <3>1. B(i) = n /\ B(i + 1) = y
      <4>1. i + 1 # q /\ i + 1 = q + 1
        BY <1>1, <2>4
      <4> QED BY <1>3, <2>1, <2>4, <4>1 DEF A
    <3> QED BY <1>6, <1>7, <3>1
  <2> QED BY <2>2, <2>3, <2>4
<1> QED BY <1>1, <1>9 DEF Linked, B

LEMMA SplLinked ==
  ASSUME NEW m \in Heap, NEW r, NEW h \in Root, NEW g \in Root, g # h,
         NEW s \in Seq(Node), Single(s), Linked(m, s, h),
         NEW t \in Seq(Node), Single(t), Linked(m, t, g), t # <<>>,
         \A i \in 1 .. Len(s), j \in 1 .. Len(t) : s[i] # t[j],
         NEW q \in 0 .. Len(s),
         NEW p, p = Along(s, h, q), NEW y, y = Along(s, h, q + 1),
         NEW a, a = t[1], NEW b, b = t[Len(t)],
         Stored(m, r, p, a, b, y, a, p, y, b)
  PROVE  Linked(r, Spl(s, q, t), h)
<1> DEFINE A(i) == Along(s, h, i)
           B(i) == Along(Spl(s, q, t), h, i)
<1>1. Len(s) \in Nat /\ Len(t) \in Nat /\ Len(t) > 0 /\ Len(Spl(s, q, t)) = Len(s) + Len(t) /\ q \in Nat
  <2>1. Len(Spl(s, q, t)) = Len(s) + Len(t)
    BY SplTypes
  <2> QED BY <2>1
<1>2. ASSUME NEW i \in Int PROVE A(i) \in ListCell /\ \A j \in 1 .. Len(t) : A(i) # t[j]
  <2>1. ASSUME NEW j \in 1 .. Len(t) PROVE A(i) # t[j]
    <3>1. t[j] \in Node /\ t[j] # h /\ \A l \in 1 .. Len(s) : s[l] # t[j]
      BY Kinds
    <3> QED BY <3>1, AlongNot
  <2> QED BY <2>1, AlongTypes
<1>3. ASSUME NEW i \in 0 .. Len(s) + Len(t) + 1
      PROVE  B(i) = IF i <= q THEN A(i) ELSE IF i <= q + Len(t) THEN t[i - q] ELSE A(i - Len(t))
  BY SplAlong
<1>4. ASSUME NEW i \in 0 .. Len(s), i # q PROVE A(i) # p /\ A(i + 1) # y
  BY <1>4, AlongDistinct
<1>5. ASSUME NEW i \in 0 .. Len(s) PROVE m.next[A(i)] = A(i + 1) /\ m.prev[A(i + 1)] = A(i)
  BY DEF Linked
<1>6. p \in ListCell /\ y \in ListCell /\ \A j \in 1 .. Len(t) : p # t[j] /\ y # t[j]
  BY <1>1, <1>2
<1>7. \A e \in ListCell : /\ r.next[e] = IF e = b THEN y ELSE IF e = p THEN a ELSE m.next[e]
                          /\ r.prev[e] = IF e = y THEN b ELSE IF e = a THEN p ELSE m.prev[e]
  BY DEF Stored
<1>8. 1 \in 1 .. Len(t) /\ Len(t) \in 1 .. Len(t) /\ p # b /\ y # a /\ a \in ListCell /\ b \in ListCell
  <2>1. 1 \in 1 .. Len(t) /\ Len(t) \in 1 .. Len(t)
    BY <1>1
  <2> QED BY <1>6, <2>1 DEF ListCell
<1>9. ASSUME NEW j \in 1 .. Len(t), j + 1 \in 1 .. Len(t)
      PROVE  r.next[t[j]] = t[j + 1] /\ r.prev[t[j + 1]] = t[j]
  <2>1. Along(t, g, j) = t[j] /\ Along(t, g, j + 1) = t[j + 1]
    BY <1>9 DEF Along
  <2>2. m.next[t[j]] = t[j + 1] /\ m.prev[t[j + 1]] = t[j]
    <3>1. j \in 0 .. Len(t)
      BY <1>1
    <3> QED BY <2>1, <3>1 DEF Linked
  <2>3. t[j] # b /\ t[j + 1] # a
    <3>1. j # Len(t) /\ j + 1 # 1
      BY <1>9
    <3> QED BY <1>8, <1>9, <3>1 DEF Single
  <2>4. t[j] # p /\ t[j + 1] # y /\ t[j] \in ListCell /\ t[j + 1] \in ListCell
    BY <1>6, <1>9 DEF ListCell
  <2> QED BY <1>7, <2>2, <2>3, <2>4
<1> HIDE DEF A, B
<1>10. ASSUME NEW i \in 0 .. Len(s), i # q PROVE r.next[A(i)] = A(i + 1) /\ r.prev[A(i + 1)] = A(i)
  <2>1. A(i) \in ListCell /\ A(i + 1) \in ListCell /\ A(i) # b /\ A(i + 1) # a
    BY <1>1, <1>2, <1>8
  <2> QED BY <1>4, <1>5, <1>7, <1>10, <2>1
<1>11. ASSUME NEW i \in 0 .. Len(s) + Len(t) PROVE r.next[B(i)] = B(i + 1) /\ r.prev[B(i + 1)] = B(i)
  <2>1. i \in 0 .. Len(s) + Len(t) + 1 /\ i + 1 \in 0 .. Len(s) + Len(t) + 1 /\ i \in Nat
    BY <1>1
  <2>2. CASE i < q
    <3>1. B(i) = A(i) /\ B(i + 1) = A(i + 1) /\ i \in 0 .. Len(s) /\ i # q
      BY <1>1, <1>3, <2>1, <2>2
    <3> QED BY <1>10, <3>1
  <2>3. CASE i = q
    <3>1. B(i) = p /\ B(i + 1) = a
      <4>1. i <= q /\ ~(i + 1 <= q) /\ i + 1 <= q + Len(t) /\ i + 1 - q = 1
        BY <1>1, <2>3
      <4>2. B(i) = A(q)
        BY <1>3, <2>1, <2>3, <4>1
      <4>3. B(i + 1) = t[i + 1 - q]
        BY <1>3, <2>1, <4>1
      <4> QED BY <4>1, <4>2, <4>3 DEF A
    <3> QED BY <1>6, <1>7, <1>8, <3>1
  <2>4. CASE i > q /\ i < q + Len(t)
    <3>1. B(i) = t[i - q] /\ B(i + 1) = t[i - q + 1]
      <4>1. /\ ~(i <= q) /\ ~(i + 1 <= q) /\ i <= q + Len(t) /\ i + 1 <= q + Len(t)
            /\ i + 1 - q = i - q + 1
        BY <1>1, <2>1, <2>4
      <4> QED BY <1>3, <2>1, <4>1
    <3>2. i - q \in 1 .. Len(t) /\ i - q + 1 \in 1 .. Len(t)
      BY <1>1, <2>1, <2>4
    <3> QED BY <1>9, <3>1, <3>2
  <2>5. CASE i = q + Len(t)
    <3>1. B(i) = b /\ B(i + 1) = y
      <4>1. /\ ~(i <= q) /\ ~(i + 1 <= q) /\ i <= q + Len(t) /\ ~(i + 1 <= q + Len(t))
            /\ i - q = Len(t) /\ i + 1 - Len(t) = q + 1
        BY <1>1, <2>1, <2>5
      <4> QED BY <1>3, <2>1, <4>1 DEF A
    <3> QED BY <1>6, <1>7, <1>8, <3>1
  <2>6. CASE i > q + Len(t)
    <3>1. i - Len(t) \in 0 .. Len(s) /\ i - Len(t) # q
      BY <1>1, <2>1, <2>6
    <3>2. B(i) = A(i - Len(t)) /\ B(i + 1) = A(i - Len(t) + 1)
      <4>1. /\ ~(i <= q) /\ ~(i + 1 <= q) /\ ~(i <= q + Len(t)) /\ ~(i + 1 <= q + Len(t))
            /\ i + 1 - Len(t) = i - Len(t) + 1
        BY <1>1, <2>1, <2>6
      <4> QED BY <1>3, <2>1, <4>1
    <3> QED BY <1>10, <3>1, <3>2
  <2> QED BY <1>1, <2>1, <2>2, <2>3, <2>4, <2>5, <2>6
<1> QED BY <1>1, <1>11 DEF Linked, B

\* The first i elements of a sequence, and the others.
Pre(s, i) == [j \in 1 .. i |-> s[j]]
Post(s, i) == [j \in 1 .. Len(s) - i |-> s[i + j]]

LEMMA PreTypes ==
  ASSUME NEW S, NEW s \in Seq(S), NEW i \in 0 .. Len(s)
  PROVE  /\ Pre(s, i) \in Seq(S) /\ Len(Pre(s, i)) = i /\ \A j \in 1 .. i : Pre(s, i)[j] = s[j]
         /\ Post(s, i) \in Seq(S) /\ Len(Post(s, i)) = Len(s) - i
         /\ \A j \in 1 .. Len(s) - i : Post(s, i)[j] = s[i + j]
<1>1. i \in Nat /\ Len(s) - i \in Nat /\ \A j \in 1 .. i : s[j] \in S
  OBVIOUS
<1>2. \A j \in 1 .. Len(s) - i : s[i + j] \in S
  OBVIOUS
<1> QED BY <1>1, <1>2 DEF Pre, Post

LEMMA CutLinked ==
  ASSUME NEW m \in Heap, NEW h \in Root, NEW g \in Root, g # h,
         NEW s \in Seq(Node), Single(s), Linked(m, s, h), NEW q \in 1 .. Len(s)
  PROVE  /\ CutAt(m, g, h, s[q]) \in Heap
         /\ Linked(CutAt(m, g, h, s[q]), Pre(s, q), g) /\ Linked(CutAt(m, g, h, s[q]), Post(s, q), h)
         /\ \A c \in ListCell : c # g /\ c # h /\ (\A i \in 1 .. Len(s) : s[i] # c) =>
              /\ CutAt(m, g, h, s[q]).next[c] = m.next[c]
              /\ CutAt(m, g, h, s[q]).prev[c] = m.prev[c]
<1> DEFINE A(i) == Along(s, h, i)
           r == CutAt(m, g, h, s[q])
           B(i) == Along(Pre(s, q), g, i)
           C(i) == Along(Post(s, q), h, i)
           e == s[q]
           z == A(q + 1)
<1>0. /\ Len(Pre(s, q)) = q /\ \A j \in 1 .. q : Pre(s, q)[j] = s[j]
      /\ Len(Post(s, q)) = Len(s) - q /\ \A j \in 1 .. Len(s) - q : Post(s, q)[j] = s[q + j]
  <2>1. q \in 0 .. Len(s)
    OBVIOUS
  <2> QED BY <2>1, PreTypes
<1>1. Len(s) \in Nat /\ q \in Nat /\ q >= 1 /\ q <= Len(s)
  OBVIOUS
<1>2. ASSUME NEW i \in Int PROVE A(i) \in ListCell /\ A(i) # g /\ (i \in 1 .. Len(s) => A(i) = s[i] /\ A(i) # h)
  <2>1. g # h /\ \A j \in 1 .. Len(s) : s[j] # g
    BY Kinds
  <2> QED BY <2>1, AlongTypes, AlongNot, Kinds
<1>3. ASSUME NEW i \in 0 .. Len(s) PROVE m.next[A(i)] = A(i + 1) /\ m.prev[A(i + 1)] = A(i)
  BY DEF Linked
<1>4. A(0) = h /\ A(q) = e /\ m.next[h] = A(1) /\ m.next[e] = z
  <2>1. 0 \in Int /\ 0 \notin 1 .. Len(s) /\ q \in 1 .. Len(s) /\ q \in 0 .. Len(s) /\ 0 \in 0 .. Len(s) /\ 0 + 1 = 1
    BY <1>1
  <2>2. A(0) = h /\ A(q) = e
    BY <1>2, <2>1 DEF Along
  <2> QED BY <1>3, <2>1, <2>2
<1>5. /\ r \in Heap
      /\ \A c \in ListCell :
           /\ r.next[c] = IF c = h THEN z ELSE IF c = e THEN g ELSE IF c = g THEN A(1) ELSE m.next[c]
           /\ r.prev[c] = IF c = z THEN h ELSE IF c = g THEN e ELSE IF c = A(1) THEN g ELSE m.prev[c]
  <2>1. g \in ListCell /\ h \in ListCell /\ e \in ListCell
    BY DEF ListCell
  <2>2. CutsOff(m, r, g, h, e)
    BY <2>1, CutStores
  <2> HIDE DEF r, e, z, A
  <2> QED BY <1>4, <2>2 DEF CutsOff
<1>6. ASSUME NEW i \in 0 .. q + 1 PROVE B(i) = IF i \in 1 .. q THEN A(i) ELSE g
  <2>1. Len(Pre(s, q)) = q /\ \A j \in 1 .. q : Pre(s, q)[j] = s[j]
    BY <1>0
  <2>2. i \in 1 .. q => i \in 1 .. Len(s) /\ i \in Int
    BY <1>1
  <2> QED BY <1>2, <2>1, <2>2 DEF Along
<1>7. ASSUME NEW i \in 0 .. Len(s) - q + 1 PROVE C(i) = IF i = 0 THEN h ELSE A(q + i)
  <2>1. Len(Post(s, q)) = Len(s) - q /\ \A j \in 1 .. Len(s) - q : Post(s, q)[j] = s[q + j]
    BY <1>0
  <2>2. CASE i = 0
    BY <2>2 DEF Along
  <2>3. CASE i \in 1 .. Len(s) - q
    <3>1. q + i \in 1 .. Len(s)
      BY <1>1, <2>3
    <3> QED BY <2>1, <2>3, <3>1 DEF Along
  <2>4. CASE i = Len(s) - q + 1
    <3>1. q + i \notin 1 .. Len(s) /\ i \notin 1 .. Len(s) - q /\ i # 0
      BY <1>1, <2>4
    <3> QED BY <2>1, <2>4, <3>1 DEF Along
  <2> QED BY <1>1, <2>2, <2>3, <2>4
<1>8. ASSUME NEW i \in 1 .. Len(s), i # q PROVE A(i) # e
  BY <1>1, <1>4, <1>8, AlongDistinct
<1>9. ASSUME NEW i \in 1 .. Len(s) + 1 PROVE (i # 1 => A(i) # A(1)) /\ (i # q + 1 => A(i) # z)
  <2>1. 1 \in 1 .. Len(s) + 1 /\ q + 1 \in 1 .. Len(s) + 1
    BY <1>1
  <2> QED BY <2>1, AlongDistinct
<1>10. g \in ListCell /\ h \in ListCell /\ e \in ListCell /\ g # e /\ z # g /\ z \in ListCell
  <2>1. q \in 1 .. Len(s) /\ q + 1 \in Int
    BY <1>1
  <2> QED BY <1>2, <1>4, <2>1 DEF ListCell
<1> HIDE DEF A, B, C, r, e, z
<1>11. ASSUME NEW i \in 1 .. Len(s), i # q PROVE r.next[A(i)] = A(i + 1) /\ r.prev[A(i + 1)] = A(i)
  <2>1. i + 1 \in 1 .. Len(s) + 1 /\ i + 1 # 1 /\ i + 1 # q + 1 /\ i \in 0 .. Len(s)
    BY <1>1, <1>11
  <2>2. r.next[A(i)] = m.next[A(i)]
    BY <1>2, <1>5, <1>8, <1>11
  <2>3. r.prev[A(i + 1)] = m.prev[A(i + 1)]
    BY <1>2, <1>5, <1>9, <2>1
  <2> QED BY <1>3, <2>1, <2>2, <2>3
<1>12. ASSUME NEW i \in 0 .. q PROVE r.next[B(i)] = B(i + 1) /\ r.prev[B(i + 1)] = B(i)
  <2>1. i \in 0 .. q + 1 /\ i + 1 \in 0 .. q + 1
    OBVIOUS
  <2>2. CASE i = 0
    <3>1. B(0) = g /\ B(1) = A(1)
      BY <1>1, <1>6
    <3>2. A(1) # z /\ A(1) \in ListCell /\ A(1) # g
      BY <1>1, <1>2, <1>9
    <3> QED BY <1>5, <1>10, <2>2, <3>1, <3>2
  <2>3. CASE i \in 1 .. q - 1
    <3>1. B(i) = A(i) /\ B(i + 1) = A(i + 1)
      <4>1. i \in 1 .. q /\ i + 1 \in 1 .. q
        BY <1>1, <2>3
      <4> QED BY <1>6, <2>1, <4>1
    <3>2. i \in 1 .. Len(s) /\ i # q
      BY <1>1, <2>3
    <3> QED BY <1>11, <3>1, <3>2
  <2>4. CASE i = q
    <3>1. B(i) = e /\ B(i + 1) = g
      <4>1. i \in 1 .. q /\ i + 1 \notin 1 .. q
        BY <1>1, <2>4
      <4> QED BY <1>4, <1>6, <2>1, <2>4, <4>1
    <3>2. e # h
      BY <1>2, <1>4
    <3> QED BY <1>5, <1>10, <3>1, <3>2
  <2> QED BY <1>1, <2>2, <2>3, <2>4
<1>13. ASSUME NEW i \in 0 .. Len(s) - q PROVE r.next[C(i)] = C(i + 1) /\ r.prev[C(i + 1)] = C(i)
  <2>1. i \in 0 .. Len(s) - q + 1 /\ i + 1 \in 0 .. Len(s) - q + 1 /\ i \in Nat /\ q + (i + 1) = q + i + 1
    BY <1>1
  <2>2. CASE i = 0
    <3>1. C(i) = h /\ C(i + 1) = z
      BY <1>7, <2>1, <2>2 DEF z
    <3> QED BY <1>5, <1>10, <3>1
  <2>3. CASE i # 0
    <3>1. C(i) = A(q + i) /\ C(i + 1) = A(q + i + 1)
      BY <1>7, <2>1, <2>3
    <3>2. q + i \in 1 .. Len(s) /\ q + i # q
      BY <1>1, <2>1, <2>3
    <3> QED BY <1>11, <3>1, <3>2
  <2> QED BY <2>2, <2>3
<1>14. Len(Pre(s, q)) = q /\ Len(Post(s, q)) = Len(s) - q
  BY <1>0
<1>15. ASSUME NEW c \in ListCell, c # g, c # h, \A i \in 1 .. Len(s) : s[i] # c
       PROVE  r.next[c] = m.next[c] /\ r.prev[c] = m.prev[c]
  <2>1. \A i \in Int : A(i) # c
    BY <1>15, AlongNot DEF A
  <2>2. c # e /\ c # z /\ c # A(1)
    BY <1>1, <1>4, <2>1 DEF z
  <2> QED BY <1>5, <1>15, <2>2
<1>16. Linked(r, Pre(s, q), g)
  BY <1>12, <1>14 DEF Linked, B
<1>17. Linked(r, Post(s, q), h)
  BY <1>13, <1>14 DEF Linked, C
<1> QED BY <1>5, <1>15, <1>16, <1>17 DEF r, e

-----------------------------------------------------------------------------
(* IhList: all lists together                                                *)

\* No element is in two places.
Apart(R, L) ==
  \A g, h \in R : \A i \in 1 .. Len(L[g]), j \in 1 .. Len(L[h]) :
    L[g][i] = L[h][j] => g = h /\ i = j
Unlisted(R, L, n) == \A h \in R : \A i \in 1 .. Len(L[h]) : L[h][i] # n

\* The heap m holds the lists L; the heads of D are left pointing elsewhere.
Holds(m, D, L) ==
  /\ m \in Heap /\ D \subseteq Root /\ L \in [Root -> Seq(Node)]
  /\ \A h \in D : L[h] = <<>>
  /\ \A h \in Root \ D : Linked(m, L[h], h)
  /\ Apart(Root, L)

\* The cells of a list are as they were.
Same(m, r, s, h) ==
  \A i \in Int : /\ r.next[Along(s, h, i)] = m.next[Along(s, h, i)]
                 /\ r.prev[Along(s, h, i)] = m.prev[Along(s, h, i)]

LEMMA HoldsFacts ==
  ASSUME NEW m, NEW D, NEW L, Holds(m, D, L), NEW h \in Root \ D
  PROVE  /\ m \in Heap /\ L[h] \in Seq(Node) /\ Linked(m, L[h], h) /\ Single(L[h]) /\ h \in Root
         /\ Len(L[h]) \in Nat
BY DEF Holds, Apart, Single

LEMMA SameLinked ==
  ASSUME NEW m, NEW r, NEW s, Len(s) \in Nat, NEW h, Linked(m, s, h), Same(m, r, s, h)
  PROVE  Linked(r, s, h)
<1>1. ASSUME NEW i \in 0 .. Len(s)
      PROVE  r.next[Along(s, h, i)] = Along(s, h, i + 1) /\ r.prev[Along(s, h, i + 1)] = Along(s, h, i)
  <2>1. i \in Int /\ i + 1 \in Int
    OBVIOUS
  <2> QED BY <2>1 DEF Linked, Same
<1> QED BY <1>1 DEF Linked

LEMMA Changed ==
  ASSUME NEW m, NEW D, NEW L, Holds(m, D, L), NEW r \in Heap, NEW D2 \in SUBSET Root,
         NEW L2 \in [Root -> Seq(Node)], Apart(Root, L2), \A h \in D2 : L2[h] = <<>>,
         \A h \in Root \ D2 : Linked(r, L2[h], h) \/ (h \notin D /\ L2[h] = L[h] /\ Same(m, r, L[h], h))
  PROVE  Holds(r, D2, L2)
<1>1. ASSUME NEW h \in Root \ D2 PROVE Linked(r, L2[h], h)
  <2>1. CASE h \notin D /\ L2[h] = L[h] /\ Same(m, r, L[h], h)
    BY <2>1, HoldsFacts, SameLinked
  <2> QED BY <2>1
<1> QED BY <1>1 DEF Holds

\* Two lists have no cell in common.
LEMMA AlongApart ==
  ASSUME NEW L \in [Root -> Seq(Node)], Apart(Root, L), NEW g \in Root, NEW h \in Root, g # h,
         NEW i \in Int, NEW j \in Int
  PROVE  Along(L[g], g, i) # Along(L[h], h, j)
<1>1. L[g] \in Seq(Node) /\ L[h] \in Seq(Node)
  OBVIOUS
<1>2. CASE i \in 1 .. Len(L[g]) /\ j \in 1 .. Len(L[h])
  BY <1>2 DEF Along, Apart
<1>3. CASE i \in 1 .. Len(L[g]) /\ j \notin 1 .. Len(L[h])
  BY <1>1, <1>3, AlongTypes, Kinds
<1>4. CASE i \notin 1 .. Len(L[g]) /\ j \in 1 .. Len(L[h])
  BY <1>1, <1>4, AlongTypes, Kinds
<1>5. CASE i \notin 1 .. Len(L[g]) /\ j \notin 1 .. Len(L[h])
  BY <1>1, <1>5, AlongTypes
<1> QED BY <1>2, <1>3, <1>4, <1>5

LEMMA UnlistedAlong ==
  ASSUME NEW L \in [Root -> Seq(Node)], NEW n \in Node, Unlisted(Root, L, n), NEW g \in Root, NEW i
  PROVE  Along(L[g], g, i) # n
<1>1. g # n /\ \A j \in 1 .. Len(L[g]) : L[g][j] # n
  BY Kinds DEF Unlisted
<1> QED BY <1>1, AlongNot

\* What stores leave alone.
LEMMA StoredSame ==
  ASSUME NEW m, NEW r, NEW a, NEW av, NEW b, NEW bv, NEW c, NEW cv, NEW d, NEW dv,
         Stored(m, r, a, av, b, bv, c, cv, d, dv),
         NEW s \in Seq(Node), NEW g \in Root, \A i \in Int : Along(s, g, i) \notin {a, b, c, d}
  PROVE  Same(m, r, s, g)
<1>1. ASSUME NEW i \in Int
      PROVE  /\ r.next[Along(s, g, i)] = m.next[Along(s, g, i)]
             /\ r.prev[Along(s, g, i)] = m.prev[Along(s, g, i)]
  <2>1. Along(s, g, i) \in ListCell /\ Along(s, g, i) \notin {a, b, c, d}
    BY AlongTypes
  <2> QED BY <2>1 DEF Stored
<1> QED BY <1>1 DEF Same

\* A store into cells of no list.
LEMMA FreeStored ==
  ASSUME NEW m, NEW D, NEW L, Holds(m, D, L), NEW n \in Node, Unlisted(Root, L, n),
         NEW r, NEW v, NEW w, Stored(m, r, n, v, n, v, n, w, n, w)
  PROVE  Holds(r, D, L)
<1>1. r \in Heap
  BY DEF Stored
<1>2. ASSUME NEW h \in Root \ D PROVE Same(m, r, L[h], h)
  <2>1. \A i \in Int : Along(L[h], h, i) \notin {n, n, n, n}
    BY UnlistedAlong DEF Holds
  <2> QED BY <2>1, HoldsFacts, StoredSame
<1>3. D \in SUBSET Root /\ L \in [Root -> Seq(Node)] /\ Apart(Root, L) /\ \A h \in D : L[h] = <<>>
  BY DEF Holds
<1> QED BY <1>1, <1>2, <1>3, Changed

LEMMA InsApart ==
  ASSUME NEW R, NEW E, NEW L \in [R -> Seq(E)], Apart(R, L), NEW h \in R, NEW n \in E, Unlisted(R, L, n),
         NEW q \in 0 .. Len(L[h])
  PROVE  /\ [L EXCEPT ![h] = Ins(L[h], q, n)] \in [R -> Seq(E)]
         /\ Apart(R, [L EXCEPT ![h] = Ins(L[h], q, n)])
<1> DEFINE t == Ins(L[h], q, n)
           M == [L EXCEPT ![h] = t]
<1>1. /\ t \in Seq(E) /\ Len(t) = Len(L[h]) + 1
      /\ \A j \in 1 .. Len(L[h]) + 1 :
           t[j] = IF j <= q THEN L[h][j] ELSE IF j = q + 1 THEN n ELSE L[h][j - 1]
  BY InsTypes DEF Ins
<1> HIDE DEF t
<1>2. M \in [R -> Seq(E)] /\ M[h] = t /\ \A g \in R : g # h => M[g] = L[g]
  BY <1>1
<1> HIDE DEF M
<1>3. Len(L[h]) \in Nat /\ q \in Nat
  OBVIOUS
\* Where an element of the new list comes from.
<1>4. ASSUME NEW j \in 1 .. Len(t), j # q + 1
      PROVE  \E i \in 1 .. Len(L[h]) : t[j] = L[h][i] /\ i = IF j <= q THEN j ELSE j - 1
  <2>1. CASE j <= q
    <3>1. j \in 1 .. Len(L[h])
      BY <1>1, <1>3, <2>1
    <3> QED BY <1>1, <2>1, <3>1
  <2>2. CASE ~(j <= q)
    <3>1. j - 1 \in 1 .. Len(L[h])
      BY <1>1, <1>3, <1>4, <2>2
    <3> QED BY <1>1, <1>4, <2>2, <3>1
  <2> QED BY <2>1, <2>2
<1>5. ASSUME NEW j \in 1 .. Len(t), j = q + 1 PROVE t[j] = n
  BY <1>1, <1>3, <1>5
<1>6. \A g \in R : \A i \in 1 .. Len(L[g]) : L[g][i] # n
  BY DEF Unlisted
<1>10. \A i, j \in 1 .. Len(L[h]) : L[h][i] = L[h][j] => i = j
  BY DEF Apart
<1>7. ASSUME NEW i \in 1 .. Len(t), NEW j \in 1 .. Len(t), t[i] = t[j] PROVE i = j
  <2>1. CASE i = q + 1 \/ j = q + 1
    BY <1>4, <1>5, <1>6, <1>7, <2>1
  <2>2. CASE i # q + 1 /\ j # q + 1
    <3>1. PICK a \in 1 .. Len(L[h]) : t[i] = L[h][a] /\ a = IF i <= q THEN i ELSE i - 1
      BY <1>4, <2>2
    <3>2. PICK b \in 1 .. Len(L[h]) : t[j] = L[h][b] /\ b = IF j <= q THEN j ELSE j - 1
      BY <1>4, <2>2
    <3>3. a = b
      BY <1>7, <1>10, <3>1, <3>2
    <3> QED BY <1>1, <1>3, <2>2, <3>1, <3>2, <3>3
  <2> QED BY <2>1, <2>2
<1>8. ASSUME NEW g \in R, g # h, NEW i \in 1 .. Len(L[g]), NEW j \in 1 .. Len(t) PROVE L[g][i] # t[j]
  <2>1. CASE j = q + 1
    BY <1>5, <1>6, <2>1
  <2>2. CASE j # q + 1
    <3>1. PICK a \in 1 .. Len(L[h]) : t[j] = L[h][a]
      BY <1>4, <2>2
    <3>2. L[g][i] = L[h][a] => g = h
      BY DEF Apart
    <3> QED BY <1>8, <3>1, <3>2
  <2> QED BY <2>1, <2>2
<1>9. Apart(R, M)
  <2>1. ASSUME NEW a \in R, NEW b \in R, NEW i \in 1 .. Len(M[a]), NEW j \in 1 .. Len(M[b]), M[a][i] = M[b][j]
        PROVE  a = b /\ i = j
    <3>1. CASE a = h /\ b = h
      BY <1>2, <1>7, <2>1, <3>1
    <3>2. CASE a = h /\ b # h
      BY <1>2, <1>8, <2>1, <3>2
    <3>3. CASE a # h /\ b = h
      BY <1>2, <1>8, <2>1, <3>3
    <3>4. CASE a # h /\ b # h
      BY <1>2, <2>1, <3>4 DEF Apart
    <3> QED BY <3>1, <3>2, <3>3, <3>4
  <2> QED BY <2>1 DEF Apart
<1> QED BY <1>2, <1>9 DEF M, t

LEMMA ApartAt ==
  ASSUME NEW R, NEW L, Apart(R, L), NEW a \in R, NEW b \in R, NEW c \in 1 .. Len(L[a]), NEW d \in 1 .. Len(L[b]),
         L[a][c] = L[b][d]
  PROVE  a = b /\ c = d
BY DEF Apart

\* Every element of M is one of L, which from and at find.
Origins(R, L, M, from, at) ==
  /\ \A h \in R : \A i \in 1 .. Len(M[h]) :
       /\ from[h][i] \in R /\ at[h][i] \in 1 .. Len(L[from[h][i]])
       /\ M[h][i] = L[from[h][i]][at[h][i]]
  /\ \A g \in R : \A h \in R : \A i \in 1 .. Len(M[g]) : \A j \in 1 .. Len(M[h]) :
       from[g][i] = from[h][j] /\ at[g][i] = at[h][j] => g = h /\ i = j

\* A change that only drops elements and moves them keeps them apart.
LEMMA MovedApart ==
  ASSUME NEW R, NEW L, Apart(R, L), NEW M, NEW from, NEW at, Origins(R, L, M, from, at)
  PROVE  Apart(R, M)
<1>1. ASSUME NEW g \in R, NEW h \in R, NEW i \in 1 .. Len(M[g]), NEW j \in 1 .. Len(M[h]), M[g][i] = M[h][j]
      PROVE  g = h /\ i = j
  <2> DEFINE a == from[g][i]
             b == from[h][j]
             c == at[g][i]
             d == at[h][j]
  <2>1. a \in R /\ c \in 1 .. Len(L[a]) /\ M[g][i] = L[a][c]
    BY Zenon DEF Origins
  <2>2. b \in R /\ d \in 1 .. Len(L[b]) /\ M[h][j] = L[b][d]
    BY Zenon DEF Origins
  <2>3. a = b /\ c = d => g = h /\ i = j
    BY DEF Origins
  <2> HIDE DEF a, b, c, d
  <2>4. L[a][c] = L[b][d]
    BY <1>1, <2>1, <2>2
  <2>5. a = b /\ c = d
    BY <2>1, <2>2, <2>4, ApartAt
  <2> QED BY <2>3, <2>5
<1> QED BY <1>1 DEF Apart

LEMMA RemApart ==
  ASSUME NEW R, NEW E, NEW L \in [R -> Seq(E)], Apart(R, L), NEW h \in R, NEW q \in 1 .. Len(L[h])
  PROVE  /\ [L EXCEPT ![h] = Rem(L[h], q)] \in [R -> Seq(E)]
         /\ Apart(R, [L EXCEPT ![h] = Rem(L[h], q)])
         /\ Unlisted(R, [L EXCEPT ![h] = Rem(L[h], q)], L[h][q])
         /\ \A n : Unlisted(R, L, n) => Unlisted(R, [L EXCEPT ![h] = Rem(L[h], q)], n)
<1> DEFINE t == Rem(L[h], q)
           M == [L EXCEPT ![h] = t]
           from == [c \in R |-> [i \in 1 .. Len(M[c]) |-> c]]
           at == [c \in R |-> [i \in 1 .. Len(M[c]) |-> IF c = h /\ ~(i < q) THEN i + 1 ELSE i]]
<1>1. /\ t \in Seq(E) /\ Len(t) = Len(L[h]) - 1
      /\ \A j \in 1 .. Len(L[h]) - 1 : t[j] = IF j < q THEN L[h][j] ELSE L[h][j + 1]
  BY RemTypes DEF Rem
<1> HIDE DEF t
<1>2. M \in [R -> Seq(E)] /\ M[h] = t /\ \A g \in R : g # h => M[g] = L[g]
  BY <1>1
<1> HIDE DEF M
<1>3. Len(L[h]) \in Nat /\ q \in Nat /\ q >= 1 /\ q <= Len(L[h])
  OBVIOUS
<1>4. ASSUME NEW c \in R, NEW i \in 1 .. Len(M[c])
      PROVE  /\ from[c][i] = c
             /\ at[c][i] = IF c = h /\ ~(i < q) THEN i + 1 ELSE i
  OBVIOUS
<1> HIDE DEF from, at
<1>5. ASSUME NEW c \in R, NEW i \in 1 .. Len(M[c])
      PROVE  /\ from[c][i] \in R /\ at[c][i] \in 1 .. Len(L[from[c][i]])
             /\ M[c][i] = L[from[c][i]][at[c][i]]
             /\ c = h => at[c][i] # q
  <2>1. CASE c # h
    BY <1>2, <1>4, <2>1
  <2>2. CASE c = h
    <3>1. i \in 1 .. Len(L[h]) - 1 /\ M[c][i] = t[i]
      BY <1>1, <1>2, <2>2
    <3>2. from[c][i] = h /\ at[c][i] = IF i < q THEN i ELSE i + 1
      BY <1>4, <2>2
    <3>3. at[c][i] \in 1 .. Len(L[h]) /\ at[c][i] # q
      BY <1>3, <3>1, <3>2
    <3>4. t[i] = L[h][at[c][i]]
      BY <1>1, <3>1, <3>2
    <3> QED BY <2>2, <3>1, <3>2, <3>3, <3>4
  <2> QED BY <2>1, <2>2
<1>6. ASSUME NEW c \in R, NEW d \in R, NEW i \in 1 .. Len(M[c]), NEW j \in 1 .. Len(M[d]),
             from[c][i] = from[d][j], at[c][i] = at[d][j]
      PROVE  c = d /\ i = j
  <2>1. c = d
    BY <1>4, <1>6
  <2>2. i \in Int /\ j \in Int
    BY <1>2
  <2> QED BY <1>3, <1>4, <1>6, <2>1, <2>2
<1>7. Apart(R, M)
  <2>1. \A c \in R : \A i \in 1 .. Len(M[c]) :
          /\ from[c][i] \in R /\ at[c][i] \in 1 .. Len(L[from[c][i]])
          /\ M[c][i] = L[from[c][i]][at[c][i]]
    BY <1>5, Zenon
  <2>2. \A c \in R : \A d \in R : \A i \in 1 .. Len(M[c]) : \A j \in 1 .. Len(M[d]) :
          from[c][i] = from[d][j] /\ at[c][i] = at[d][j] => c = d /\ i = j
    BY <1>6
  <2>3. Origins(R, L, M, from, at)
    BY <2>1, <2>2, Zenon DEF Origins
  <2> QED BY <2>3, MovedApart
<1>8. Unlisted(R, M, L[h][q])
  <2>1. ASSUME NEW c \in R, NEW i \in 1 .. Len(M[c]) PROVE M[c][i] # L[h][q]
    <3> DEFINE a == at[c][i]
    <3>1. from[c][i] = c
      BY <1>4, Zenon
    <3>2. a \in 1 .. Len(L[from[c][i]]) /\ M[c][i] = L[from[c][i]][a] /\ (c = h => a # q)
      BY <1>5, Zenon
    <3> HIDE DEF a
    <3>3. a \in 1 .. Len(L[c]) /\ M[c][i] = L[c][a] /\ (c = h => a # q)
      BY <3>1, <3>2
    <3> QED BY <3>3 DEF Apart
  <2> QED BY <2>1 DEF Unlisted
<1>9. ASSUME NEW n, Unlisted(R, L, n) PROVE Unlisted(R, M, n)
  <2>1. ASSUME NEW c \in R, NEW i \in 1 .. Len(M[c]) PROVE M[c][i] # n
    <3>1. from[c][i] \in R /\ at[c][i] \in 1 .. Len(L[from[c][i]]) /\ M[c][i] = L[from[c][i]][at[c][i]]
      BY <1>5
    <3> QED BY <1>9, <3>1 DEF Unlisted
  <2> QED BY <2>1 DEF Unlisted
<1> QED BY <1>2, <1>7, <1>8, <1>9 DEF M, t

LEMMA RepIs ==
  ASSUME NEW S, NEW s \in Seq(S), NEW n \in S, NEW q \in 1 .. Len(s)
  PROVE  [s EXCEPT ![q] = n] = Ins(Rem(s, q), q - 1, n)
<1> DEFINE t == Rem(s, q)
           r == Ins(t, q - 1, n)
           v == [s EXCEPT ![q] = n]
<1>1. t \in Seq(S) /\ Len(t) = Len(s) - 1 /\ q - 1 \in 0 .. Len(t)
      /\ \A j \in 1 .. Len(s) - 1 : t[j] = IF j < q THEN s[j] ELSE s[j + 1]
  BY RemTypes DEF Rem
<1> HIDE DEF t
<1>2. r \in Seq(S) /\ Len(r) = Len(t) + 1
      /\ \A j \in 1 .. Len(t) + 1 : r[j] = IF j <= q - 1 THEN t[j] ELSE IF j = q - 1 + 1 THEN n ELSE t[j - 1]
  BY <1>1, InsTypes DEF Ins
<1>3. v \in Seq(S) /\ Len(v) = Len(s) /\ \A j \in 1 .. Len(s) : v[j] = IF j = q THEN n ELSE s[j]
  OBVIOUS
<1> HIDE DEF r, v
<1>4. ASSUME NEW j \in 1 .. Len(s) PROVE r[j] = v[j]
  <2>1. CASE j < q
    <3>1. j \in 1 .. Len(s) - 1 /\ j \in 1 .. Len(t) + 1 /\ j <= q - 1 /\ j # q
      BY <1>1, <2>1
    <3> QED BY <1>1, <1>2, <1>3, <2>1, <3>1
  <2>2. CASE j = q
    BY <1>1, <1>2, <1>3, <2>2
  <2>3. CASE j > q
    <3>1. j - 1 \in 1 .. Len(s) - 1 /\ ~(j - 1 < q) /\ j - 1 + 1 = j
      BY <2>3
    <3>2. ~(j <= q - 1) /\ j # q - 1 + 1 /\ j # q
      BY <2>3
    <3>3. r[j] = t[j - 1]
      BY <1>1, <1>2, <3>2
    <3> QED BY <1>1, <1>3, <3>1, <3>2, <3>3
  <2> QED BY <2>1, <2>2, <2>3
<1>5. Len(r) = Len(s)
  BY <1>1, <1>2
<1> QED BY <1>2, <1>3, <1>4, <1>5, SeqEqual DEF r, v, t

LEMMA ClearApart ==
  ASSUME NEW L \in [Root -> Seq(Node)], Apart(Root, L), NEW h \in Root
  PROVE  [L EXCEPT ![h] = <<>>] \in [Root -> Seq(Node)] /\ Apart(Root, [L EXCEPT ![h] = <<>>])
<1> DEFINE M == [L EXCEPT ![h] = <<>>]
<1>1. M \in [Root -> Seq(Node)] /\ M[h] = <<>> /\ \A g \in Root : g # h => M[g] = L[g]
  OBVIOUS
<1> HIDE DEF M
<1>2. ASSUME NEW c \in Root, NEW d \in Root, NEW i \in 1 .. Len(M[c]), NEW j \in 1 .. Len(M[d]), M[c][i] = M[d][j]
      PROVE  c = d /\ i = j
  <2>1. c # h /\ d # h
    BY <1>1
  <2> QED BY <1>1, <1>2, <2>1 DEF Apart
<1> QED BY <1>1, <1>2 DEF Apart, M

LEMMA SplApart ==
  ASSUME NEW R, NEW E, NEW L \in [R -> Seq(E)], Apart(R, L), NEW g \in R, NEW h \in R, g # h, NEW q \in 0 .. Len(L[h])
  PROVE  /\ [L EXCEPT ![g] = <<>>, ![h] = Spl(L[h], q, L[g])] \in [R -> Seq(E)]
         /\ Apart(R, [L EXCEPT ![g] = <<>>, ![h] = Spl(L[h], q, L[g])])
<1> DEFINE s == L[h]
           t == L[g]
           r == Spl(s, q, t)
           M == [L EXCEPT ![g] = <<>>, ![h] = r]
           from == [c \in R |-> [i \in 1 .. Len(M[c]) |->
                      IF c = h /\ ~(i <= q) /\ i <= q + Len(t) THEN g ELSE c]]
           at == [c \in R |-> [i \in 1 .. Len(M[c]) |->
                    IF c # h \/ i <= q THEN i ELSE IF i <= q + Len(t) THEN i - q ELSE i - Len(t)]]
<1>1. s \in Seq(E) /\ t \in Seq(E) /\ Len(s) \in Nat /\ Len(t) \in Nat /\ q \in Nat /\ q <= Len(s)
  OBVIOUS
<1>2. /\ r \in Seq(E) /\ Len(r) = Len(s) + Len(t)
      /\ \A j \in 1 .. Len(s) + Len(t) :
           r[j] = IF j <= q THEN s[j] ELSE IF j <= q + Len(t) THEN t[j - q] ELSE s[j - Len(t)]
  BY SplTypes DEF Spl
<1> HIDE DEF r
<1>3. M \in [R -> Seq(E)] /\ M[h] = r /\ M[g] = <<>> /\ \A c \in R : c # h /\ c # g => M[c] = L[c]
  <2> DEFINE K == [L EXCEPT ![g] = <<>>]
  <2>1. K \in [R -> Seq(E)] /\ K[g] = <<>> /\ \A c \in R : c # g => K[c] = L[c]
    OBVIOUS
  <2>2. M = [K EXCEPT ![h] = r]
    OBVIOUS
  <2> HIDE DEF K, M
  <2> QED BY <1>2, <2>1, <2>2
<1> HIDE DEF M
<1>4. ASSUME NEW c \in R, NEW i \in 1 .. Len(M[c])
      PROVE  /\ from[c][i] = IF c = h /\ ~(i <= q) /\ i <= q + Len(t) THEN g ELSE c
             /\ at[c][i] = IF c # h \/ i <= q THEN i ELSE IF i <= q + Len(t) THEN i - q ELSE i - Len(t)
  OBVIOUS
<1> HIDE DEF from, at
<1>5. ASSUME NEW c \in R, NEW i \in 1 .. Len(M[c])
      PROVE  /\ from[c][i] \in R /\ at[c][i] \in 1 .. Len(L[from[c][i]])
             /\ M[c][i] = L[from[c][i]][at[c][i]]
  <2>1. CASE c # h
    <3>1. c # g /\ from[c][i] = c /\ at[c][i] = i
      BY <1>3, <1>4, <2>1
    <3> QED BY <1>3, <2>1, <3>1
  <2>2. CASE c = h
    <3> DEFINE a == at[c][i]
    <3>1. i \in 1 .. Len(s) + Len(t) /\ M[c][i] = r[i] /\ i \in Nat /\ i >= 1
      BY <1>1, <1>2, <1>3, <2>2
    <3>2. CASE i <= q
      <4>1. from[c][i] = h /\ a = i
        BY <1>4, <2>2, <3>2
      <4>2. r[i] = s[i] /\ i \in 1 .. Len(s)
        BY <1>1, <1>2, <3>1, <3>2
      <4> QED BY <3>1, <4>1, <4>2
    <3>3. CASE ~(i <= q) /\ i <= q + Len(t)
      <4>1. from[c][i] = g /\ a = i - q
        BY <1>4, <2>2, <3>3
      <4>2. r[i] = t[i - q] /\ i - q \in 1 .. Len(t)
        BY <1>1, <1>2, <3>1, <3>3
      <4> QED BY <3>1, <4>1, <4>2
    <3>4. CASE ~(i <= q + Len(t))
      <4>1. from[c][i] = h /\ a = i - Len(t) /\ ~(i <= q)
        BY <1>1, <1>4, <2>2, <3>1, <3>4
      <4>2. r[i] = s[i - Len(t)] /\ i - Len(t) \in 1 .. Len(s)
        BY <1>1, <1>2, <3>1, <3>4, <4>1
      <4> QED BY <3>1, <4>1, <4>2
    <3> QED BY <3>2, <3>3, <3>4
  <2> QED BY <2>1, <2>2
<1>6. ASSUME NEW c \in R, NEW d \in R, NEW i \in 1 .. Len(M[c]), NEW j \in 1 .. Len(M[d]),
             from[c][i] = from[d][j], at[c][i] = at[d][j]
      PROVE  c = d /\ i = j
  <2>1. c # g /\ d # g
    BY <1>3
  <2>2. c = d
    BY <1>4, <1>6, <2>1
  <2>3. i \in Int /\ j \in Int
    BY <1>3
  <2>4. CASE c # h
    <3>1. at[c][i] = i /\ at[d][j] = j
      BY <1>4, <2>2, <2>4
    <3> QED BY <1>6, <2>2, <3>1
  <2>5. CASE c = h
    <3>1. /\ h = IF ~(i <= q) /\ i <= q + Len(t) THEN g ELSE h
          /\ h = IF ~(j <= q) /\ j <= q + Len(t) THEN g ELSE h
          \/ /\ g = IF ~(i <= q) /\ i <= q + Len(t) THEN g ELSE h
             /\ g = IF ~(j <= q) /\ j <= q + Len(t) THEN g ELSE h
      BY <1>4, <1>6, <2>2, <2>5
    <3>2. /\ at[c][i] = IF i <= q THEN i ELSE IF i <= q + Len(t) THEN i - q ELSE i - Len(t)
          /\ at[d][j] = IF j <= q THEN j ELSE IF j <= q + Len(t) THEN j - q ELSE j - Len(t)
      BY <1>4, <2>2, <2>5
    <3>3. (~(i <= q) /\ i <= q + Len(t)) <=> (~(j <= q) /\ j <= q + Len(t))
      BY <3>1
    <3>4. CASE i <= q
      <4>1. at[c][i] = i /\ at[c][i] <= q
        BY <3>2, <3>4
      <4>2. CASE j <= q
        BY <1>6, <2>2, <3>2, <4>1, <4>2
      <4>3. CASE ~(j <= q)
        <5>1. ~(j <= q + Len(t))
          BY <3>3, <3>4, <4>3
        <5>2. at[d][j] = j - Len(t)
          BY <3>2, <4>3, <5>1
        <5>3. i = j - Len(t)
          BY <1>6, <4>1, <5>2
        <5> QED BY <1>1, <2>3, <3>4, <5>1, <5>3
      <4> QED BY <4>2, <4>3
    <3>5. CASE ~(i <= q) /\ i <= q + Len(t)
      <4>1. at[c][i] = i - q /\ at[d][j] = j - q
        BY <3>2, <3>3, <3>5
      <4> QED BY <1>1, <1>6, <2>2, <2>3, <4>1
    <3>6. CASE ~(i <= q) /\ ~(i <= q + Len(t))
      <4>1. at[c][i] = i - Len(t)
        BY <3>2, <3>6
      <4>2. CASE j <= q
        <5>1. at[d][j] = j
          BY <3>2, <4>2
        <5>2. i - Len(t) = j
          BY <1>6, <4>1, <5>1
        <5> QED BY <1>1, <2>3, <3>6, <4>2, <5>2
      <4>3. CASE ~(j <= q)
        <5>1. at[d][j] = j - Len(t)
          BY <3>2, <3>3, <3>6, <4>3
        <5> QED BY <1>1, <1>6, <2>2, <2>3, <4>1, <5>1
      <4> QED BY <4>2, <4>3
    <3> QED BY <2>2, <3>4, <3>5, <3>6
  <2> QED BY <2>4, <2>5
<1>7. \A c \in R : \A i \in 1 .. Len(M[c]) :
          /\ from[c][i] \in R /\ at[c][i] \in 1 .. Len(L[from[c][i]])
          /\ M[c][i] = L[from[c][i]][at[c][i]]
  BY <1>5, Zenon
<1>8. \A c \in R : \A d \in R : \A i \in 1 .. Len(M[c]) : \A j \in 1 .. Len(M[d]) :
          from[c][i] = from[d][j] /\ at[c][i] = at[d][j] => c = d /\ i = j
  BY <1>6
<1>9. Apart(R, M)
  <2>1. Origins(R, L, M, from, at)
    BY <1>7, <1>8, Zenon DEF Origins
  <2> QED BY <2>1, MovedApart
<1> QED BY <1>3, <1>9 DEF M, r, s, t

LEMMA CutApart ==
  ASSUME NEW L \in [Root -> Seq(Node)], Apart(Root, L), NEW g \in Root, NEW h \in Root, g # h, NEW q \in 1 .. Len(L[h])
  PROVE  /\ [L EXCEPT ![g] = Pre(L[h], q), ![h] = Post(L[h], q)] \in [Root -> Seq(Node)]
         /\ Apart(Root, [L EXCEPT ![g] = Pre(L[h], q), ![h] = Post(L[h], q)])
<1> DEFINE s == L[h]
           a == Pre(s, q)
           b == Post(s, q)
           M == [L EXCEPT ![g] = a, ![h] = b]
           from == [c \in Root |-> [i \in 1 .. Len(M[c]) |-> IF c = g THEN h ELSE c]]
           at == [c \in Root |-> [i \in 1 .. Len(M[c]) |-> IF c = h THEN q + i ELSE i]]
<1>1. s \in Seq(Node) /\ Len(s) \in Nat /\ q \in Nat /\ q >= 1 /\ q <= Len(s)
  OBVIOUS
<1>2. /\ a \in Seq(Node) /\ Len(a) = q /\ \A j \in 1 .. q : a[j] = s[j]
      /\ b \in Seq(Node) /\ Len(b) = Len(s) - q /\ \A j \in 1 .. Len(s) - q : b[j] = s[q + j]
  <2>1. q \in 0 .. Len(s) /\ s \in Seq(Node)
    BY <1>1
  <2> HIDE DEF s
  <2> QED BY <2>1, PreTypes
<1> HIDE DEF a, b
<1>3. M \in [Root -> Seq(Node)] /\ M[h] = b /\ M[g] = a /\ \A c \in Root : c # h /\ c # g => M[c] = L[c]
  BY <1>2
<1> HIDE DEF M
<1>4. ASSUME NEW c \in Root, NEW i \in 1 .. Len(M[c])
      PROVE  from[c][i] = (IF c = g THEN h ELSE c) /\ at[c][i] = (IF c = h THEN q + i ELSE i)
  OBVIOUS
<1> HIDE DEF from, at
<1>5. ASSUME NEW c \in Root, NEW i \in 1 .. Len(M[c])
      PROVE  /\ from[c][i] \in Root /\ at[c][i] \in 1 .. Len(L[from[c][i]])
             /\ M[c][i] = L[from[c][i]][at[c][i]]
  <2>1. CASE c # h /\ c # g
    <3>1. from[c][i] = c /\ at[c][i] = i
      BY <1>4, <2>1
    <3> QED BY <1>3, <2>1, <3>1
  <2>2. CASE c = h
    <3>1. from[c][i] = h /\ at[c][i] = q + i /\ i \in 1 .. Len(s) - q /\ M[c][i] = b[i]
      BY <1>2, <1>3, <1>4, <2>2
    <3>2. q + i \in 1 .. Len(s) /\ b[i] = s[q + i]
      BY <1>1, <1>2, <3>1
    <3> QED BY <3>1, <3>2
  <2>3. CASE c = g
    <3>1. from[c][i] = h /\ at[c][i] = i /\ i \in 1 .. q /\ M[c][i] = a[i]
      BY <1>2, <1>3, <1>4, <2>3
    <3>2. i \in 1 .. Len(s) /\ a[i] = s[i]
      BY <1>1, <1>2, <3>1
    <3> QED BY <3>1, <3>2
  <2> QED BY <2>1, <2>2, <2>3
<1>6. ASSUME NEW c \in Root, NEW d \in Root, NEW i \in 1 .. Len(M[c]), NEW j \in 1 .. Len(M[d]),
             from[c][i] = from[d][j], at[c][i] = at[d][j]
      PROVE  c = d /\ i = j
  <2>1. /\ (IF c = g THEN h ELSE c) = (IF d = g THEN h ELSE d)
        /\ (IF c = h THEN q + i ELSE i) = (IF d = h THEN q + j ELSE j)
    BY <1>4, <1>6
  <2>2. i \in Int /\ j \in Int /\ i >= 1 /\ j >= 1 /\ (c = g => i <= q) /\ (d = g => j <= q)
    BY <1>2, <1>3
  <2>3. CASE c = d
    BY <1>1, <2>1, <2>2, <2>3
  <2>4. CASE c = g /\ d = h
    BY <1>1, <2>1, <2>2, <2>4
  <2>5. CASE c = h /\ d = g
    BY <1>1, <2>1, <2>2, <2>5
  <2> QED BY <2>1, <2>3, <2>4, <2>5
<1>7. \A c \in Root : \A i \in 1 .. Len(M[c]) :
          /\ from[c][i] \in Root /\ at[c][i] \in 1 .. Len(L[from[c][i]])
          /\ M[c][i] = L[from[c][i]][at[c][i]]
  BY <1>5, Zenon
<1>8. \A c \in Root : \A d \in Root : \A i \in 1 .. Len(M[c]) : \A j \in 1 .. Len(M[d]) :
          from[c][i] = from[d][j] /\ at[c][i] = at[d][j] => c = d /\ i = j
  BY <1>6
<1>9. Apart(Root, M)
  <2>1. Origins(Root, L, M, from, at)
    BY <1>7, <1>8, Zenon DEF Origins
  <2> QED BY <2>1, MovedApart
<1> QED BY <1>3, <1>9 DEF M, a, b, s

\* What an element's insertion, removal and replacement, a splice and a cut make
\* of all the lists.
LEMMA InsHolds ==
  ASSUME NEW m, NEW D, NEW L, Holds(m, D, L), NEW h \in Root \ D, NEW n \in Node, Unlisted(Root, L, n),
         NEW q \in 0 .. Len(L[h]), NEW p, p = Along(L[h], h, q), NEW y, y = Along(L[h], h, q + 1),
         NEW r, Stored(m, r, n, y, p, n, y, n, n, p)
  PROVE  Holds(r, D, [L EXCEPT ![h] = Ins(L[h], q, n)])
<1> DEFINE M == [L EXCEPT ![h] = Ins(L[h], q, n)]
<1>1. D \in SUBSET Root /\ L \in [Root -> Seq(Node)] /\ Apart(Root, L) /\ m \in Heap /\ \A g \in D : L[g] = <<>>
  BY DEF Holds
<1>2. M \in [Root -> Seq(Node)] /\ Apart(Root, M)
  BY <1>1, InsApart
<1>3. r \in Heap
  BY DEF Stored
<1>4. L[h] \in Seq(Node) /\ Single(L[h]) /\ Linked(m, L[h], h)
  BY HoldsFacts
<1>5. \A i \in 1 .. Len(L[h]) : L[h][i] # n
  BY DEF Unlisted
<1>6. Linked(r, Ins(L[h], q, n), h)
  BY <1>1, <1>4, <1>5, InsLinked
<1>7. M[h] = Ins(L[h], q, n) /\ \A g \in Root : g # h => M[g] = L[g]
  BY <1>1
<1>8. ASSUME NEW g \in Root, g # h PROVE Same(m, r, L[g], g)
  <2>1. \A i \in Int : Along(L[g], g, i) \notin {n, p, y, n}
    <3>1. q \in Int /\ q + 1 \in Int
      OBVIOUS
    <3> QED BY <1>1, <1>8, <3>1, AlongApart, UnlistedAlong
  <2>2. L[g] \in Seq(Node)
    BY <1>1
  <2> QED BY <2>1, <2>2, StoredSame
<1> HIDE DEF M
<1>9. \A g \in D : M[g] = <<>>
  BY <1>1, <1>7
<1>10. \A g \in Root \ D : Linked(r, M[g], g) \/ (g \notin D /\ M[g] = L[g] /\ Same(m, r, L[g], g))
  BY <1>6, <1>7, <1>8
<1>11. Holds(r, D, M)
  BY <1>1, <1>2, <1>3, <1>9, <1>10, Changed
<1> QED BY <1>11 DEF M

LEMMA RemHolds ==
  ASSUME NEW m, NEW D, NEW L, Holds(m, D, L), NEW h \in Root \ D,
         NEW q \in 1 .. Len(L[h]), NEW p, p = Along(L[h], h, q - 1), NEW y, y = Along(L[h], h, q + 1),
         NEW r, Stored(m, r, p, y, p, y, y, p, y, p)
  PROVE  Holds(r, D, [L EXCEPT ![h] = Rem(L[h], q)])
<1> DEFINE M == [L EXCEPT ![h] = Rem(L[h], q)]
<1>1. D \in SUBSET Root /\ L \in [Root -> Seq(Node)] /\ Apart(Root, L) /\ m \in Heap /\ \A g \in D : L[g] = <<>>
  BY DEF Holds
<1>2. M \in [Root -> Seq(Node)] /\ Apart(Root, M)
  BY <1>1, RemApart
<1>3. r \in Heap
  BY DEF Stored
<1>4. L[h] \in Seq(Node) /\ Single(L[h]) /\ Linked(m, L[h], h)
  BY HoldsFacts
<1>6. Linked(r, Rem(L[h], q), h)
  BY <1>1, <1>4, RemLinked
<1>7. M[h] = Rem(L[h], q) /\ \A g \in Root : g # h => M[g] = L[g]
  BY <1>1
<1>8. ASSUME NEW g \in Root, g # h PROVE Same(m, r, L[g], g)
  <2>1. \A i \in Int : Along(L[g], g, i) \notin {p, p, y, y}
    <3>1. q - 1 \in Int /\ q + 1 \in Int
      OBVIOUS
    <3> QED BY <1>1, <1>8, <3>1, AlongApart
  <2>2. L[g] \in Seq(Node)
    BY <1>1
  <2> QED BY <2>1, <2>2, StoredSame
<1> HIDE DEF M
<1>9. \A g \in D : M[g] = <<>>
  BY <1>1, <1>7
<1>10. \A g \in Root \ D : Linked(r, M[g], g) \/ (g \notin D /\ M[g] = L[g] /\ Same(m, r, L[g], g))
  BY <1>6, <1>7, <1>8
<1>11. Holds(r, D, M)
  BY <1>1, <1>2, <1>3, <1>9, <1>10, Changed
<1> QED BY <1>11 DEF M

LEMMA RepApart ==
  ASSUME NEW L \in [Root -> Seq(Node)], Apart(Root, L), NEW h \in Root, NEW n \in Node, Unlisted(Root, L, n),
         NEW q \in 1 .. Len(L[h])
  PROVE  /\ [L EXCEPT ![h] = [L[h] EXCEPT ![q] = n]] \in [Root -> Seq(Node)]
         /\ Apart(Root, [L EXCEPT ![h] = [L[h] EXCEPT ![q] = n]])
         /\ Unlisted(Root, [L EXCEPT ![h] = [L[h] EXCEPT ![q] = n]], L[h][q])
<1> DEFINE K == [L EXCEPT ![h] = Rem(L[h], q)]
           M == [L EXCEPT ![h] = [L[h] EXCEPT ![q] = n]]
<1>1. K \in [Root -> Seq(Node)] /\ Apart(Root, K) /\ Unlisted(Root, K, n)
  BY RemApart
<1>2. L[h] \in Seq(Node) /\ Len(L[h]) \in Nat /\ L[h][q] \in Node
  OBVIOUS
<1>3. K[h] = Rem(L[h], q) /\ Len(K[h]) = Len(L[h]) - 1 /\ q - 1 \in 0 .. Len(K[h])
  BY <1>2, RemTypes
<1>4. M = [K EXCEPT ![h] = Ins(K[h], q - 1, n)]
  <2>1. [L[h] EXCEPT ![q] = n] = Ins(K[h], q - 1, n)
    <3>1. [L[h] EXCEPT ![q] = n] = Ins(Rem(L[h], q), q - 1, n)
      <4> DEFINE s == L[h]
      <4>1. s \in Seq(Node) /\ q \in 1 .. Len(s)
        BY <1>2
      <4>2. [s EXCEPT ![q] = n] = Ins(Rem(s, q), q - 1, n)
        <5> HIDE DEF s
        <5> QED BY <4>1, RepIs
      <4> QED BY <4>2
    <3> QED BY <1>3, <3>1
  <2> HIDE DEF M
  <2>2. M = [L EXCEPT ![h] = Ins(K[h], q - 1, n)]
    BY <2>1 DEF M
  <2>3. \A v : [L EXCEPT ![h] = v] = [K EXCEPT ![h] = v]
    OBVIOUS
  <2> HIDE DEF K
  <2> QED BY <2>2, <2>3
<1> HIDE DEF K
<1>5. [K EXCEPT ![h] = Ins(K[h], q - 1, n)] \in [Root -> Seq(Node)] /\ Apart(Root, [K EXCEPT ![h] = Ins(K[h], q - 1, n)])
  BY <1>1, <1>3, InsApart
<1>6. Unlisted(Root, M, L[h][q])
  <2>1. ASSUME NEW c \in Root, NEW i \in 1 .. Len(M[c]) PROVE M[c][i] # L[h][q]
    <3>1. CASE c = h
      <4>1. Len(M[c]) = Len(L[h]) /\ M[c][i] = IF i = q THEN n ELSE L[h][i]
        BY <1>2, <3>1
      <4> QED BY <3>1, <4>1 DEF Apart, Unlisted
    <3>2. CASE c # h
      <4>1. M[c] = L[c]
        BY <3>2
      <4> QED BY <2>1, <3>2, <4>1 DEF Apart
    <3> QED BY <3>1, <3>2
  <2> QED BY <2>1 DEF Unlisted
<1> QED BY <1>4, <1>5, <1>6

LEMMA RepHolds ==
  ASSUME NEW m, NEW D, NEW L, Holds(m, D, L), NEW h \in Root \ D, NEW n \in Node, Unlisted(Root, L, n),
         NEW q \in 1 .. Len(L[h]), NEW p, p = Along(L[h], h, q - 1), NEW y, y = Along(L[h], h, q + 1),
         NEW r, Stored(m, r, n, y, p, n, y, n, n, p)
  PROVE  Holds(r, D, [L EXCEPT ![h] = [L[h] EXCEPT ![q] = n]])
<1> DEFINE M == [L EXCEPT ![h] = [L[h] EXCEPT ![q] = n]]
<1>1. D \in SUBSET Root /\ L \in [Root -> Seq(Node)] /\ Apart(Root, L) /\ m \in Heap /\ \A g \in D : L[g] = <<>>
  BY DEF Holds
<1>2. M \in [Root -> Seq(Node)] /\ Apart(Root, M)
  BY <1>1, RepApart
<1>3. r \in Heap
  BY DEF Stored
<1>4. L[h] \in Seq(Node) /\ Single(L[h]) /\ Linked(m, L[h], h)
  BY HoldsFacts
<1>5. \A i \in 1 .. Len(L[h]) : L[h][i] # n
  BY DEF Unlisted
<1>6. Linked(r, [L[h] EXCEPT ![q] = n], h)
  BY <1>1, <1>4, <1>5, RepLinked
<1>7. M[h] = [L[h] EXCEPT ![q] = n] /\ \A g \in Root : g # h => M[g] = L[g]
  BY <1>1
<1>8. ASSUME NEW g \in Root, g # h PROVE Same(m, r, L[g], g)
  <2>1. \A i \in Int : Along(L[g], g, i) \notin {n, p, y, n}
    <3>1. q - 1 \in Int /\ q + 1 \in Int
      OBVIOUS
    <3> QED BY <1>1, <1>8, <3>1, AlongApart, UnlistedAlong
  <2>2. L[g] \in Seq(Node)
    BY <1>1
  <2> QED BY <2>1, <2>2, StoredSame
<1> HIDE DEF M
<1>9. \A g \in D : M[g] = <<>>
  BY <1>1, <1>7
<1>10. \A g \in Root \ D : Linked(r, M[g], g) \/ (g \notin D /\ M[g] = L[g] /\ Same(m, r, L[g], g))
  BY <1>6, <1>7, <1>8
<1>11. Holds(r, D, M)
  BY <1>1, <1>2, <1>3, <1>9, <1>10, Changed
<1> QED BY <1>11 DEF M

LEMMA SplHolds ==
  ASSUME NEW m, NEW D, NEW L, Holds(m, D, L), NEW h \in Root \ D, NEW g \in Root \ D, g # h, L[g] # <<>>,
         NEW q \in 0 .. Len(L[h]), NEW p, p = Along(L[h], h, q), NEW y, y = Along(L[h], h, q + 1),
         NEW a, a = L[g][1], NEW b, b = L[g][Len(L[g])],
         NEW r, Stored(m, r, p, a, b, y, a, p, y, b)
  PROVE  Holds(r, D \cup {g}, [L EXCEPT ![g] = <<>>, ![h] = Spl(L[h], q, L[g])])
<1> DEFINE M == [L EXCEPT ![g] = <<>>, ![h] = Spl(L[h], q, L[g])]
<1>1. D \in SUBSET Root /\ L \in [Root -> Seq(Node)] /\ Apart(Root, L) /\ m \in Heap /\ \A c \in D : L[c] = <<>>
  BY DEF Holds
<1>2. M \in [Root -> Seq(Node)] /\ Apart(Root, M)
  BY <1>1, SplApart
<1>3. r \in Heap
  BY DEF Stored
<1>4. /\ L[h] \in Seq(Node) /\ Single(L[h]) /\ Linked(m, L[h], h)
      /\ L[g] \in Seq(Node) /\ Single(L[g]) /\ Linked(m, L[g], g)
  BY HoldsFacts
<1>5. \A i \in 1 .. Len(L[h]), j \in 1 .. Len(L[g]) : L[h][i] # L[g][j]
  BY <1>1 DEF Apart
<1>6. Linked(r, Spl(L[h], q, L[g]), h)
  BY <1>1, <1>4, <1>5, SplLinked
<1>7. M[h] = Spl(L[h], q, L[g]) /\ M[g] = <<>> /\ \A c \in Root : c # h /\ c # g => M[c] = L[c]
  BY <1>1
<1>8. ASSUME NEW c \in Root, c # h, c # g PROVE Same(m, r, L[c], c)
  <2>1. \A i \in Int : Along(L[c], c, i) \notin {p, b, a, y}
    <3>1. q \in Int /\ q + 1 \in Int /\ 1 \in Int /\ Len(L[g]) \in Int /\ 1 \in 1 .. Len(L[g]) /\ Len(L[g]) \in 1 .. Len(L[g])
      BY <1>4
    <3>2. a = Along(L[g], g, 1) /\ b = Along(L[g], g, Len(L[g]))
      BY <3>1 DEF Along
    <3> QED BY <1>1, <1>8, <3>1, <3>2, AlongApart
  <2>2. L[c] \in Seq(Node)
    BY <1>1
  <2> QED BY <2>1, <2>2, StoredSame
<1> HIDE DEF M
<1>9. \A c \in D \cup {g} : M[c] = <<>>
  BY <1>1, <1>7
<1>10. \A c \in Root \ (D \cup {g}) : Linked(r, M[c], c) \/ (c \notin D /\ M[c] = L[c] /\ Same(m, r, L[c], c))
  BY <1>6, <1>7, <1>8
<1>11. D \cup {g} \in SUBSET Root
  BY <1>1
<1>12. Holds(r, D \cup {g}, M)
  BY <1>1, <1>2, <1>3, <1>9, <1>10, <1>11, Changed
<1> QED BY <1>12 DEF M

LEMMA CutHolds ==
  ASSUME NEW m, NEW D, NEW L, Holds(m, D, L), NEW h \in Root \ D, NEW g \in Root, g # h,
         NEW q \in 1 .. Len(L[h])
  PROVE  Holds(CutAt(m, g, h, L[h][q]), D \ {g}, [L EXCEPT ![g] = Pre(L[h], q), ![h] = Post(L[h], q)])
<1> DEFINE M == [L EXCEPT ![g] = Pre(L[h], q), ![h] = Post(L[h], q)]
           r == CutAt(m, g, h, L[h][q])
<1>1. D \in SUBSET Root /\ L \in [Root -> Seq(Node)] /\ Apart(Root, L) /\ m \in Heap /\ \A c \in D : L[c] = <<>>
  BY DEF Holds
<1>2. M \in [Root -> Seq(Node)] /\ Apart(Root, M)
  BY <1>1, CutApart
<1>4. L[h] \in Seq(Node) /\ Single(L[h]) /\ Linked(m, L[h], h)
  BY HoldsFacts
<1>6. /\ r \in Heap /\ Linked(r, Pre(L[h], q), g) /\ Linked(r, Post(L[h], q), h)
      /\ \A c \in ListCell : c # g /\ c # h /\ (\A i \in 1 .. Len(L[h]) : L[h][i] # c) =>
           r.next[c] = m.next[c] /\ r.prev[c] = m.prev[c]
  BY <1>1, <1>4, CutLinked
<1>7. M[h] = Post(L[h], q) /\ M[g] = Pre(L[h], q) /\ \A c \in Root : c # h /\ c # g => M[c] = L[c]
  BY <1>1
<1> HIDE DEF M, r
<1>8. ASSUME NEW c \in Root, c # h, c # g, c \notin D PROVE Same(m, r, L[c], c)
  <2>1. L[c] \in Seq(Node) /\ L[g] \in Seq(Node)
    BY <1>1
  <2>2. ASSUME NEW i \in Int
        PROVE  /\ r.next[Along(L[c], c, i)] = m.next[Along(L[c], c, i)]
               /\ r.prev[Along(L[c], c, i)] = m.prev[Along(L[c], c, i)]
    <3>1. Along(L[c], c, i) \in ListCell
      BY <2>1, AlongTypes
    <3>2. Along(L[c], c, i) # g /\ Along(L[c], c, i) # h
      BY <1>8, <2>1, AlongTypes, Kinds
    <3>3. \A j \in 1 .. Len(L[h]) : L[h][j] # Along(L[c], c, i)
      <4>1. ASSUME NEW j \in 1 .. Len(L[h]) PROVE L[h][j] = Along(L[h], h, j) /\ j \in Int
        BY DEF Along
      <4> QED BY <1>1, <1>8, <4>1, AlongApart
    <3> QED BY <1>6, <3>1, <3>2, <3>3
  <2> QED BY <2>2 DEF Same
<1>9. \A c \in D \ {g} : M[c] = <<>>
  BY <1>1, <1>7
<1>10. \A c \in Root \ (D \ {g}) : Linked(r, M[c], c) \/ (c \notin D /\ M[c] = L[c] /\ Same(m, r, L[c], c))
  BY <1>6, <1>7, <1>8
<1>11. D \ {g} \in SUBSET Root
  BY <1>1
<1>12. Holds(r, D \ {g}, M)
  BY <1>1, <1>2, <1>6, <1>9, <1>10, <1>11, Changed
<1> QED BY <1>12 DEF M, r

LEMMA HeadHolds ==
  ASSUME NEW m, NEW D, NEW L, Holds(m, D, L), NEW h \in Root
  PROVE  Holds(InitHead(m, h), D \ {h}, [L EXCEPT ![h] = <<>>])
<1> DEFINE M == [L EXCEPT ![h] = <<>>]
           r == InitHead(m, h)
<1>1. D \in SUBSET Root /\ L \in [Root -> Seq(Node)] /\ Apart(Root, L) /\ m \in Heap /\ \A c \in D : L[c] = <<>>
  BY DEF Holds
<1>2. M \in [Root -> Seq(Node)] /\ Apart(Root, M)
  BY <1>1, ClearApart
<1>3. h \in ListCell
  BY DEF ListCell
<1>4. Stored(m, r, h, h, h, h, h, h, h, h)
  BY <1>1, <1>3, InitHeadStores
<1>5. r \in Heap /\ r.next[h] = h /\ r.prev[h] = h
  BY <1>3, <1>4 DEF Stored
<1>6. Linked(r, <<>>, h)
  BY <1>5 DEF Linked, Along
<1>7. M[h] = <<>> /\ \A c \in Root : c # h => M[c] = L[c]
  BY <1>1
<1>8. ASSUME NEW c \in Root, c # h PROVE Same(m, r, L[c], c)
  <2>1. L[c] \in Seq(Node)
    BY <1>1
  <2>2. \A i \in Int : Along(L[c], c, i) \notin {h, h, h, h}
    BY <1>8, <2>1, AlongTypes, Kinds
  <2> QED BY <1>4, <2>1, <2>2, StoredSame
<1> HIDE DEF M, r
<1>9. \A c \in D \ {h} : M[c] = <<>>
  BY <1>1, <1>7
<1>10. \A c \in Root \ (D \ {h}) : Linked(r, M[c], c) \/ (c \notin D /\ M[c] = L[c] /\ Same(m, r, L[c], c))
  BY <1>6, <1>7, <1>8
<1>11. D \ {h} \in SUBSET Root
  BY <1>1
<1>12. Holds(r, D \ {h}, M)
  BY <1>1, <1>2, <1>5, <1>9, <1>10, <1>11, Changed
<1> QED BY <1>12 DEF M, r

-----------------------------------------------------------------------------
(* IhList: what a walk finds, and what each function does to the lists *)

LEMMA CellsSuffice ==
  ASSUME NEW E, IsFiniteSet(E), NEW S \in SUBSET E, NEW s \in Seq(S), Single(s)
  PROVE  Cardinality(E) \in Nat /\ Len(s) <= Cardinality(E)
<1>1. Cardinality(E) \in Nat
  BY FS_CardinalityType
<1>2. s \in Injection(1 .. Len(s), E)
  <2>1. s \in [1 .. Len(s) -> E]
    OBVIOUS
  <2> QED BY <2>1 DEF Injection, IsInjective, Single
<1>3. Cardinality(1 .. Len(s)) <= Cardinality(E)
  BY <1>2, FS_Injection
<1>4. Cardinality(1 .. Len(s)) = Len(s)
  BY IntervalCounted
<1> QED BY <1>1, <1>3, <1>4

LEMMA WalkIs ==
  ASSUME NEW ptr, NEW h \in Root, NEW t \in Seq(Node), Len(t) <= Cardinality(ListCell),
         ptr[h] = Along(t, h, 1), \A i \in 1 .. Len(t) : ptr[t[i]] = Along(t, h, i + 1)
  PROVE  Walk(ptr, h) = t
<1>1. Cardinality(ListCell) \in Nat /\ h \notin Node
  BY ListAssumption, FS_CardinalityType
<1>2. Walk(ptr, h) = Found(Node, Cardinality(ListCell), ptr, h)
  BY Zenon DEF Walk, Found
<1>3. Leads(ptr, h, t, h)
  BY DEF Leads
<1> QED BY <1>1, <1>2, <1>3, WalkFinds

\* Both walks of a list.
LEMMA Walks ==
  ASSUME NEW m, NEW D, NEW L, Holds(m, D, L), NEW h \in Root \ D
  PROVE  Walk(m.next, h) = L[h] /\ Walk(m.prev, h) = Reverse(L[h])
<1> DEFINE s == L[h]
           t == Reverse(s)
           N == Len(s)
<1>1. s \in Seq(Node) /\ Single(s) /\ Linked(m, s, h) /\ N \in Nat /\ h \in Root
  BY HoldsFacts
<1> HIDE DEF s
<1>2. N <= Cardinality(ListCell)
  <2>1. IsFiniteSet(ListCell) /\ Node \in SUBSET ListCell
    BY ListAssumption DEF ListCell
  <2> QED BY <1>1, <2>1, CellsSuffice
<1>3. \A i \in 0 .. N : m.next[Along(s, h, i)] = Along(s, h, i + 1) /\ m.prev[Along(s, h, i + 1)] = Along(s, h, i)
  BY <1>1 DEF Linked
<1>4. \A i \in 1 .. N : Along(s, h, i) = s[i]
  BY DEF Along
<1>5. Along(s, h, 0) = h /\ Along(s, h, N + 1) = h
  BY <1>1 DEF Along
<1>6. Walk(m.next, h) = s
  <2>1. m.next[h] = Along(s, h, 1)
    BY <1>1, <1>3, <1>5
  <2>2. \A i \in 1 .. Len(s) : m.next[s[i]] = Along(s, h, i + 1)
    BY <1>1, <1>3, <1>4
  <2> QED BY <1>1, <1>2, <2>1, <2>2, WalkIs
<1>7. t \in Seq(Node) /\ Len(t) = N /\ \A i \in 1 .. N : t[i] = s[N - i + 1]
  <2>1. \A i \in 1 .. N : s[N - i + 1] \in Node
    BY <1>1
  <2> QED BY <1>1, <2>1 DEF Reverse
<1> HIDE DEF t, N
<1>8. ASSUME NEW i \in 0 .. N + 1 PROVE Along(t, h, i) = Along(s, h, N - i + 1)
  <2>1. CASE i \in 1 .. N
    <3>1. N - i + 1 \in 1 .. N
      BY <1>1, <2>1
    <3> QED BY <1>4, <1>7, <2>1, <3>1 DEF Along
  <2>2. CASE i = 0 \/ i = N + 1
    <3>1. i \notin 1 .. N /\ (N - i + 1 = N + 1 \/ N - i + 1 = 0)
      BY <1>1, <2>2
    <3>2. Along(t, h, i) = h
      BY <1>7, <3>1 DEF Along
    <3> QED BY <1>5, <3>1, <3>2
  <2> QED BY <1>1, <2>1, <2>2
<1>9. m.prev[h] = Along(t, h, 1)
  <2>1. 1 \in 0 .. N + 1 /\ N - 1 + 1 = N /\ N \in 0 .. N
    BY <1>1
  <2>2. Along(t, h, 1) = Along(s, h, N)
    BY <1>8, <2>1
  <2> QED BY <1>3, <1>5, <2>1, <2>2
<1>10. ASSUME NEW i \in 1 .. Len(t) PROVE m.prev[t[i]] = Along(t, h, i + 1)
  <2>1. /\ i \in 1 .. N /\ i + 1 \in 0 .. N + 1 /\ N - i \in 0 .. N /\ N - (i + 1) + 1 = N - i
        /\ N - i + 1 \in 1 .. N
    BY <1>1, <1>7
  <2>2. t[i] = Along(s, h, N - i + 1)
    BY <1>4, <1>7, <2>1
  <2>3. Along(t, h, i + 1) = Along(s, h, N - i)
    BY <1>8, <2>1
  <2> QED BY <1>3, <2>1, <2>2, <2>3
<1>11. Walk(m.prev, h) = t
  <2>1. Len(t) <= Cardinality(ListCell)
    BY <1>2, <1>7
  <2> QED BY <1>1, <1>7, <1>9, <1>10, <2>1, WalkIs
<1> QED BY <1>6, <1>11 DEF t, s

\* What the pointers of a list's cells are.
LEMMA Neighbours ==
  ASSUME NEW m, NEW D, NEW L, Holds(m, D, L), NEW h \in Root \ D
  PROVE  /\ m.next[h] = Along(L[h], h, 1) /\ m.prev[h] = Along(L[h], h, Len(L[h]))
         /\ \A q \in 1 .. Len(L[h]) : /\ m.next[L[h][q]] = Along(L[h], h, q + 1)
                                      /\ m.prev[L[h][q]] = Along(L[h], h, q - 1)
<1> DEFINE s == L[h]
<1>1. s \in Seq(Node) /\ Linked(m, s, h) /\ Len(s) \in Nat
  BY HoldsFacts
<1> HIDE DEF s
<1>2. \A i \in 0 .. Len(s) : m.next[Along(s, h, i)] = Along(s, h, i + 1) /\ m.prev[Along(s, h, i + 1)] = Along(s, h, i)
  BY <1>1 DEF Linked
<1>3. m.next[h] = Along(s, h, 1) /\ m.prev[h] = Along(s, h, Len(s))
  <2>1. Along(s, h, 0) = h /\ Along(s, h, Len(s) + 1) = h
    BY <1>1 DEF Along
  <2>2. 0 \in 0 .. Len(s) /\ Len(s) \in 0 .. Len(s) /\ 0 + 1 = 1
    BY <1>1
  <2> QED BY <1>2, <2>1, <2>2
<1>4. ASSUME NEW q \in 1 .. Len(s)
      PROVE  m.next[s[q]] = Along(s, h, q + 1) /\ m.prev[s[q]] = Along(s, h, q - 1)
  <2>1. Along(s, h, q) = s[q]
    BY DEF Along
  <2>2. q \in 0 .. Len(s) /\ q - 1 \in 0 .. Len(s) /\ q - 1 + 1 = q
    BY <1>1
  <2>3. m.next[Along(s, h, q)] = Along(s, h, q + 1)
    BY <1>2, <2>2
  <2>4. m.prev[Along(s, h, q - 1 + 1)] = Along(s, h, q - 1)
    BY <1>2, <2>2
  <2> QED BY <2>1, <2>2, <2>3, <2>4
<1> QED BY <1>3, <1>4 DEF s

LEMMA AddHeadHolds ==
  ASSUME NEW m, NEW D, NEW L, Holds(m, D, L), NEW h \in Root \ D, NEW n \in Node, Unlisted(Root, L, n)
  PROVE  Holds(AddHead(m, n, h), D, [L EXCEPT ![h] = <<n>> \o L[h]])
<1> DEFINE y == m.next[h]
<1>1. m \in Heap /\ L[h] \in Seq(Node) /\ Len(L[h]) \in Nat /\ h \in Root /\ h \in ListCell /\ n \in ListCell
  BY HoldsFacts, Kinds
<1>2. h = Along(L[h], h, 0) /\ y = Along(L[h], h, 0 + 1) /\ 0 \in 0 .. Len(L[h])
  BY <1>1, Neighbours DEF Along
<1>3. y \in PtrTo /\ h \in PtrTo
  BY <1>1, HeapIs DEF PtrTo
<1> HIDE DEF y
<1>4. Stored(m, AddBetween(m, n, h, y), n, y, h, n, y, n, n, h)
  BY <1>1, <1>3, AddBetweenStores
<1>5. Holds(AddBetween(m, n, h, y), D, [L EXCEPT ![h] = Ins(L[h], 0, n)])
  BY <1>2, <1>4, InsHolds
<1>6. Ins(L[h], 0, n) = <<n>> \o L[h]
  BY <1>1, InsFront
<1>7. AddHead(m, n, h) = AddBetween(m, n, h, y)
  BY Zenon DEF AddHead, y
<1> QED BY <1>5, <1>6, <1>7, Zenon

LEMMA AddTailHolds ==
  ASSUME NEW m, NEW D, NEW L, Holds(m, D, L), NEW h \in Root \ D, NEW n \in Node, Unlisted(Root, L, n)
  PROVE  Holds(AddTail(m, n, h), D, [L EXCEPT ![h] = Append(L[h], n)])
<1> DEFINE p == m.prev[h]
           N == Len(L[h])
<1>1. m \in Heap /\ L[h] \in Seq(Node) /\ N \in Nat /\ h \in Root /\ h \in ListCell /\ n \in ListCell
  BY HoldsFacts, Kinds
<1>2. p = Along(L[h], h, N) /\ h = Along(L[h], h, N + 1) /\ N \in 0 .. Len(L[h])
  BY <1>1, Neighbours DEF Along
<1>3. p \in PtrTo /\ h \in PtrTo
  BY <1>1, HeapIs DEF PtrTo
<1> HIDE DEF p
<1>4. Stored(m, AddBetween(m, n, p, h), n, h, p, n, h, n, n, p)
  BY <1>1, <1>3, AddBetweenStores
<1>6. Ins(L[h], N, n) = Append(L[h], n)
  BY <1>1, InsBack
<1> HIDE DEF N
<1>5. Holds(AddBetween(m, n, p, h), D, [L EXCEPT ![h] = Ins(L[h], N, n)])
  BY <1>2, <1>4, InsHolds
<1>7. AddTail(m, n, h) = AddBetween(m, n, p, h)
  BY Zenon DEF AddTail, p
<1> QED BY <1>5, <1>6, <1>7, Zenon

LEMMA UnlinkHolds ==
  ASSUME NEW m, NEW D, NEW L, Holds(m, D, L), NEW h \in Root \ D, NEW q \in 1 .. Len(L[h]), NEW n, n = L[h][q]
  PROVE  Holds(Unlink(m, n), D, [L EXCEPT ![h] = Rem(L[h], q)])
<1> DEFINE p == m.prev[n]
           y == m.next[n]
<1>1. m \in Heap /\ L[h] \in Seq(Node) /\ n \in ListCell
  <2>1. m \in Heap /\ L[h] \in Seq(Node)
    BY HoldsFacts
  <2>2. n \in Node
    BY <2>1
  <2> QED BY <2>1, <2>2 DEF ListCell
<1>2. p = Along(L[h], h, q - 1) /\ y = Along(L[h], h, q + 1)
  BY Neighbours
<1>3. Stored(m, Unlink(m, n), p, y, p, y, y, p, y, p)
  BY <1>1, UnlinkStores
<1> HIDE DEF p, y
<1> QED BY <1>2, <1>3, RemHolds

\* What is taken out of a list is in none.
LEMMA UnlinkUnlisted ==
  ASSUME NEW m, NEW D, NEW L, Holds(m, D, L), NEW h \in Root \ D, NEW q \in 1 .. Len(L[h]), NEW n, n = L[h][q]
  PROVE  n \in Node /\ Unlisted(Root, [L EXCEPT ![h] = Rem(L[h], q)], n)
<1>1. L \in [Root -> Seq(Node)] /\ Apart(Root, L)
  BY DEF Holds
<1>2. n \in Node
  BY <1>1
<1> QED BY <1>1, <1>2, RemApart

LEMMA PoisonHolds ==
  ASSUME NEW m, NEW D, NEW L, Holds(m, D, L), NEW n \in Node, Unlisted(Root, L, n)
  PROVE  Holds(Poisoned(m, n), D, L)
<1>1. m \in Heap /\ n \in ListCell
  BY DEF Holds, ListCell
<1>2. Stored(m, Poisoned(m, n), n, Poison, n, Poison, n, Poison, n, Poison)
  BY <1>1, PoisonStores
<1> QED BY <1>2, FreeStored

LEMMA InitFreeHolds ==
  ASSUME NEW m, NEW D, NEW L, Holds(m, D, L), NEW n \in Node, Unlisted(Root, L, n)
  PROVE  Holds(InitHead(m, n), D, L)
<1>1. m \in Heap /\ n \in ListCell
  BY DEF Holds, ListCell
<1>2. Stored(m, InitHead(m, n), n, n, n, n, n, n, n, n)
  BY <1>1, InitHeadStores
<1> QED BY <1>2, FreeStored

LEMMA DelHolds ==
  ASSUME NEW m, NEW D, NEW L, Holds(m, D, L), NEW h \in Root \ D, NEW q \in 1 .. Len(L[h]), NEW n, n = L[h][q]
  PROVE  Holds(Del(m, n), D, [L EXCEPT ![h] = Rem(L[h], q)])
<1> DEFINE M == [L EXCEPT ![h] = Rem(L[h], q)]
<1>1. Holds(Unlink(m, n), D, M)
  BY UnlinkHolds
<1>2. n \in Node /\ Unlisted(Root, M, n)
  BY UnlinkUnlisted
<1> HIDE DEF M
<1>3. Holds(Poisoned(Unlink(m, n), n), D, M)
  BY <1>1, <1>2, PoisonHolds
<1>4. Del(m, n) = Poisoned(Unlink(m, n), n)
  BY DelIs
<1> QED BY <1>3, <1>4, Zenon DEF M

LEMMA ReplaceHolds ==
  ASSUME NEW m, NEW D, NEW L, Holds(m, D, L), NEW h \in Root \ D, NEW q \in 1 .. Len(L[h]), NEW o, o = L[h][q],
         NEW n \in Node, Unlisted(Root, L, n)
  PROVE  Holds(Replace(m, o, n), D, [L EXCEPT ![h] = [L[h] EXCEPT ![q] = n]])
<1> DEFINE p == m.prev[o]
           y == m.next[o]
<1>1. /\ m \in Heap /\ L[h] \in Seq(Node) /\ Single(L[h]) /\ h \in Root /\ Len(L[h]) \in Nat
      /\ n \in ListCell /\ o \in Node /\ o \in ListCell
  <2>1. m \in Heap /\ L[h] \in Seq(Node) /\ Single(L[h]) /\ h \in Root /\ Len(L[h]) \in Nat
    BY HoldsFacts
  <2>2. o \in Node
    BY <2>1
  <2> QED BY <2>1, <2>2 DEF ListCell
<1>2. p = Along(L[h], h, q - 1) /\ y = Along(L[h], h, q + 1)
  BY Neighbours
<1>3. y # o
  <2>1. o = Along(L[h], h, q)
    BY DEF Along
  <2>2. q \in 1 .. Len(L[h]) + 1 /\ q + 1 \in 1 .. Len(L[h]) + 1 /\ q \in Int /\ q + 1 \in Int /\ q # q + 1
    BY <1>1
  <2> QED BY <1>1, <1>2, <2>1, <2>2, AlongDistinct
<1>4. Stored(m, Replace(m, o, n), n, y, p, n, y, n, n, p)
  BY <1>1, <1>3, ReplaceStores
<1> HIDE DEF p, y
<1> QED BY <1>2, <1>4, RepHolds

LEMMA SpliceHolds ==
  ASSUME NEW m, NEW D, NEW L, Holds(m, D, L), NEW h \in Root \ D, NEW g \in Root \ D, g # h, L[g] # <<>>
  PROVE  /\ Holds(SpliceBetween(m, g, h, m.next[h]), D \cup {g}, [L EXCEPT ![g] = <<>>, ![h] = L[g] \o L[h]])
         /\ Holds(SpliceBetween(m, g, m.prev[h], h), D \cup {g}, [L EXCEPT ![g] = <<>>, ![h] = L[h] \o L[g]])
<1> DEFINE a == m.next[g]
           b == m.prev[g]
           p == m.prev[h]
           y == m.next[h]
           N == Len(L[h])
<1>1. /\ m \in Heap /\ L[h] \in Seq(Node) /\ L[g] \in Seq(Node) /\ h \in Root /\ g \in Root /\ N \in Nat
      /\ h \in ListCell /\ g \in ListCell
  BY HoldsFacts DEF ListCell
<1>2. 1 \in 1 .. Len(L[g]) /\ Len(L[g]) \in 1 .. Len(L[g])
  BY <1>1
<1>3. a = L[g][1] /\ b = L[g][Len(L[g])]
  <2>1. a = Along(L[g], g, 1) /\ b = Along(L[g], g, Len(L[g]))
    BY Neighbours
  <2> QED BY <1>2, <2>1 DEF Along
<1>4. p = Along(L[h], h, N) /\ h = Along(L[h], h, N + 1) /\ h = Along(L[h], h, 0) /\ y = Along(L[h], h, 0 + 1)
  BY <1>1, Neighbours DEF Along
<1>5. p \in PtrTo /\ y \in PtrTo /\ h \in PtrTo
  BY <1>1, HeapIs DEF PtrTo
<1>6. 0 \in 0 .. Len(L[h]) /\ N \in 0 .. Len(L[h])
  BY <1>1
<1>7. Spl(L[h], 0, L[g]) = L[g] \o L[h] /\ Spl(L[h], N, L[g]) = L[h] \o L[g]
  BY <1>1, SplFront, SplBack
<1>8. Stored(m, SpliceBetween(m, g, h, y), h, a, b, y, a, h, y, b)
  BY <1>1, <1>5, SpliceStores
<1>9. Stored(m, SpliceBetween(m, g, p, h), p, a, b, h, a, p, h, b)
  BY <1>1, <1>5, SpliceStores
<1> HIDE DEF a, b, p, y, N
<1>10. Holds(SpliceBetween(m, g, h, y), D \cup {g}, [L EXCEPT ![g] = <<>>, ![h] = Spl(L[h], 0, L[g])])
  BY <1>3, <1>4, <1>6, <1>8, SplHolds
<1>11. Holds(SpliceBetween(m, g, p, h), D \cup {g}, [L EXCEPT ![g] = <<>>, ![h] = Spl(L[h], N, L[g])])
  BY <1>3, <1>4, <1>6, <1>9, SplHolds
<1> QED BY <1>7, <1>10, <1>11, Zenon DEF p, y

\* ih_list_free, which deletes the first element until there is none.
FreedAfter(m, s, N, f) == f = [i \in 0 .. N |-> IF i = 0 THEN m ELSE Del(f[i - 1], s[i])]

LEMMA FreedExists ==
  ASSUME NEW m, NEW s, NEW N \in Nat
  PROVE  \E f : FreedAfter(m, s, N, f)
<1> DEFINE T == {i \in Nat : \E f : FreedAfter(m, s, i, f)}
<1>1. 0 \in T
  <2> DEFINE f == [i \in 0 .. 0 |-> m]
  <2>1. f = [i \in 0 .. 0 |-> IF i = 0 THEN m ELSE Del(f[i - 1], s[i])]
    <3> HIDE DEF f
    <3>1. \A i \in 0 .. 0 : m = IF i = 0 THEN m ELSE Del(f[i - 1], s[i])
      OBVIOUS
    <3>2. f = [i \in 0 .. 0 |-> m]
      BY DEF f
    <3> QED BY <3>1, <3>2
  <2>2. \E v : FreedAfter(m, s, 0, v)
    <3> HIDE DEF f
    <3>1. FreedAfter(m, s, 0, f)
      BY <2>1 DEF FreedAfter
    <3> QED BY <3>1
  <2> QED BY <2>2
<1>2. ASSUME NEW n \in Nat, n \in T PROVE n + 1 \in T
  <2>1. PICK f : FreedAfter(m, s, n, f)
    BY <1>2
  <2> DEFINE v == [i \in 0 .. n + 1 |-> IF i \in 0 .. n THEN f[i] ELSE Del(f[n], s[i])]
  <2>2. \A i \in 0 .. n : f[i] = IF i = 0 THEN m ELSE Del(f[i - 1], s[i])
    BY <2>1 DEF FreedAfter
  <2>3. \A i \in 0 .. n + 1 : v[i] = IF i \in 0 .. n THEN f[i] ELSE Del(f[n], s[i])
    OBVIOUS
  <2>4. v = [i \in 0 .. n + 1 |-> v[i]]
    OBVIOUS
  <2> HIDE DEF v
  <2>5. ASSUME NEW i \in 0 .. n + 1 PROVE v[i] = IF i = 0 THEN m ELSE Del(v[i - 1], s[i])
    <3>1. CASE i = 0
      BY <2>2, <2>3, <3>1
    <3>2. CASE i \in 1 .. n
      <4>1. i \in 0 .. n /\ i - 1 \in 0 .. n /\ i - 1 \in 0 .. n + 1 /\ i # 0
        BY <3>2
      <4> QED BY <2>2, <2>3, <4>1
    <3>3. CASE i = n + 1
      <4>1. i \notin 0 .. n /\ i - 1 = n /\ n \in 0 .. n /\ n \in 0 .. n + 1 /\ i # 0
        BY <3>3
      <4> QED BY <2>3, <4>1
    <3> QED BY <3>1, <3>2, <3>3
  <2>6. v = [i \in 0 .. n + 1 |-> IF i = 0 THEN m ELSE Del(v[i - 1], s[i])]
    BY <2>4, <2>5
  <2>7. FreedAfter(m, s, n + 1, v)
    BY <2>6 DEF FreedAfter
  <2> QED BY <2>7
<1>3. N \in T
  <2> HIDE DEF T
  <2> QED BY <1>1, <1>2, Inductive
<1> QED BY <1>3

LEMMA FreeHolds ==
  ASSUME NEW m, NEW D, NEW L, Holds(m, D, L), NEW h \in Root \ D
  PROVE  Holds(FreeAll(m, h), D, [L EXCEPT ![h] = <<>>])
<1> DEFINE s == L[h]
           N == Len(s)
           f == CHOOSE v : FreedAfter(m, s, N, v)
           After(i) == [L EXCEPT ![h] = Post(s, i)]
<1>1. s \in Seq(Node) /\ N \in Nat /\ h \in Root
  BY HoldsFacts
<1>2. L \in [Root -> Seq(Node)]
  BY DEF Holds
<1>3. FreeAll(m, h) = f[N]
  <2>1. Walk(m.next, h) = s
    BY Walks
  <2>2. FreeAll(m, h) =
          LET list == Walk(m.next, h)
              freed[i \in 0 .. Len(list)] == IF i = 0 THEN m ELSE Del(freed[i - 1], list[i])
          IN freed[Len(list)]
    BY Zenon DEF FreeAll
  <2>3. FreeAll(m, h) = (CHOOSE v : FreedAfter(m, s, Len(s), v))[Len(s)]
    <3> HIDE DEF s
    <3> QED BY <2>1, <2>2, Zenon DEF FreedAfter
  <2> QED BY <2>3
<1>4. FreedAfter(m, s, N, f)
  <2> HIDE DEF s, N
  <2> QED BY <1>1, FreedExists
<1> HIDE DEF f
<1>5. \A i \in 0 .. N : f[i] = IF i = 0 THEN m ELSE Del(f[i - 1], s[i])
  BY <1>4 DEF FreedAfter
<1> HIDE DEF s
<1> DEFINE T == {i \in Nat : i <= N => Holds(f[i], D, After(i))}
<1>6. ASSUME NEW i \in 0 .. N
      PROVE  /\ Post(s, i) \in Seq(Node) /\ Len(Post(s, i)) = N - i
             /\ \A j \in 1 .. N - i : Post(s, i)[j] = s[i + j]
             /\ After(i)[h] = Post(s, i)
  <2>1. /\ Post(s, i) \in Seq(Node) /\ Len(Post(s, i)) = N - i
        /\ \A j \in 1 .. N - i : Post(s, i)[j] = s[i + j]
    BY <1>1, PreTypes
  <2> QED BY <1>1, <1>2, <2>1
<1>7. 0 \in T
  <2>1. Post(s, 0) = s
    <3>1. Len(Post(s, 0)) = N /\ \A j \in 1 .. N : Post(s, 0)[j] = s[j]
      <4>1. 0 \in 0 .. N /\ N - 0 = N /\ \A j \in 1 .. N : 0 + j = j
        BY <1>1
      <4> QED BY <1>6, <4>1, Zenon
    <3>2. Post(s, 0) \in Seq(Node)
      BY <1>1, <1>6
    <3> QED BY <1>1, <3>1, <3>2, SeqEqual, Zenon
  <2>2. After(0) = L
    BY <1>2, <2>1 DEF s
  <2>3. f[0] = m
    BY <1>1, <1>5
  <2> QED BY <2>2, <2>3
<1>8. ASSUME NEW i \in Nat, i \in T PROVE i + 1 \in T
  <2>1. SUFFICES ASSUME i + 1 <= N PROVE Holds(f[i + 1], D, After(i + 1))
    OBVIOUS
  <2>2. Holds(f[i], D, After(i))
    BY <1>1, <1>8, <2>1
  <2>3. i \in 0 .. N /\ i + 1 \in 0 .. N /\ 1 \in 1 .. N - i /\ i + 1 # 0 /\ i + 1 - 1 = i
    BY <1>1, <2>1
  <2>4. f[i + 1] = Del(f[i], s[i + 1])
    BY <1>5, <2>3
  <2> DEFINE K == After(i)
  <2>5. K[h] = Post(s, i) /\ 1 \in 1 .. Len(K[h]) /\ K[h][1] = s[i + 1]
    BY <1>6, <2>3
  <2>6. [K EXCEPT ![h] = Rem(K[h], 1)] = After(i + 1)
    <3>1. Rem(K[h], 1) = Post(s, i + 1)
      <4> DEFINE a == Rem(Post(s, i), 1)
                 b == Post(s, i + 1)
      <4>1. a \in Seq(Node) /\ Len(a) = Len(Post(s, i)) - 1
            /\ \A j \in 1 .. Len(Post(s, i)) - 1 : a[j] = IF j < 1 THEN Post(s, i)[j] ELSE Post(s, i)[j + 1]
        <5> DEFINE w == Post(s, i)
        <5>1. w \in Seq(Node) /\ 1 \in 1 .. Len(w)
          BY <1>6, <2>3, <2>5
        <5> HIDE DEF w
        <5>2. Rem(w, 1) \in Seq(Node) /\ Len(Rem(w, 1)) = Len(w) - 1
          BY <5>1, RemTypes
        <5>3. \A j \in 1 .. Len(w) - 1 : Rem(w, 1)[j] = IF j < 1 THEN w[j] ELSE w[j + 1]
          BY DEF Rem
        <5> QED BY <5>2, <5>3 DEF w
      <4>2. b \in Seq(Node) /\ Len(b) = N - (i + 1) /\ \A j \in 1 .. N - (i + 1) : b[j] = s[i + 1 + j]
        BY <1>6, <2>3
      <4> HIDE DEF a, b
      <4>3. Len(a) = N - (i + 1) /\ Len(a) = Len(b)
        BY <1>1, <1>6, <2>3, <4>1, <4>2
      <4>4. ASSUME NEW j \in 1 .. N - (i + 1) PROVE a[j] = b[j]
        <5>1. j \in 1 .. Len(Post(s, i)) - 1 /\ ~(j < 1) /\ j + 1 \in 1 .. N - i /\ i + (j + 1) = i + 1 + j
          BY <1>1, <1>6, <2>3
        <5>2. a[j] = Post(s, i)[j + 1]
          BY <4>1, <5>1
        <5>3. Post(s, i)[j + 1] = s[i + (j + 1)]
          BY <1>6, <2>3, <5>1
        <5> QED BY <4>2, <5>1, <5>2, <5>3
      <4>5. a = b
        BY <4>1, <4>2, <4>3, <4>4, SeqEqual
      <4> QED BY <2>5, <4>5 DEF a, b
    <3>2. \A v : [K EXCEPT ![h] = v] = [L EXCEPT ![h] = v]
      BY <1>2
    <3> HIDE DEF K
    <3> QED BY <3>1, <3>2
  <2> HIDE DEF K
  <2>7. Holds(f[i], D, K)
    BY <2>2 DEF K
  <2>8. Holds(Del(f[i], s[i + 1]), D, [K EXCEPT ![h] = Rem(K[h], 1)])
    BY <2>5, <2>7, DelHolds
  <2> QED BY <2>4, <2>6, <2>8, Zenon
<1>9. N \in T
  <2> HIDE DEF T
  <2> QED BY <1>1, <1>7, <1>8, Inductive
<1>10. Holds(f[N], D, After(N))
  BY <1>1, <1>9
<1>11. Post(s, N) = <<>>
  <2>1. N \in 0 .. N /\ N - N = 0
    BY <1>1
  <2> QED BY <1>6, <2>1
<1> QED BY <1>3, <1>10, <1>11, Zenon

-----------------------------------------------------------------------------
(* IhList: the lists of a state *)

\* The inductive invariant: the heap holds some lists.
ListInv == \E L : Holds(ring, dangling, L)

ListsOf(m, D) == [h \in Root |-> IF h \in D THEN <<>> ELSE Walk(m.next, h)]
Shown == [h \in Root |-> ListOf(h)]

LEMMA ListsAre ==
  ASSUME NEW m, NEW D, NEW L, Holds(m, D, L)
  PROVE  ListsOf(m, D) = L
<1>1. L \in [Root -> Seq(Node)] /\ \A h \in D : L[h] = <<>>
  BY DEF Holds
<1>2. \A h \in Root : L[h] = IF h \in D THEN <<>> ELSE Walk(m.next, h)
  BY <1>1, Walks
<1> QED BY <1>1, <1>2 DEF ListsOf

LEMMA ShownIs ==
  ASSUME NEW L, Holds(ring, dangling, L)
  PROVE  Shown = L /\ \A h \in Root : ListOf(h) = L[h]
<1>1. ListsOf(ring, dangling) = L
  BY ListsAre
<1>2. Shown = ListsOf(ring, dangling)
  BY DEF Shown, ListOf, ListsOf
<1>3. \A h \in Root : ListOf(h) = Shown[h]
  BY DEF Shown
<1> QED BY <1>1, <1>2, <1>3

LEMMA ShownNext ==
  ASSUME NEW M, Holds(ring', dangling', M)
  PROVE  Shown' = M
<1>1. ListsOf(ring', dangling') = M
  BY ListsAre
<1>2. Shown' = ListsOf(ring', dangling')
  BY DEF Shown, ListOf, ListsOf
<1> QED BY <1>1, <1>2

LEMMA FreeIs ==
  ASSUME NEW L, Holds(ring, dangling, L), NEW n \in Free
  PROVE  n \in Node /\ Unlisted(Root, L, n)
<1>1. n \in Node /\ \A h \in Root : n \notin ToSet(ListOf(h))
  BY DEF Free, Members
<1>2. L \in [Root -> Seq(Node)]
  BY DEF Holds
<1>3. \A h \in Root : n \notin ToSet(L[h])
  BY <1>1, ShownIs
<1>4. ASSUME NEW h \in Root, NEW i \in 1 .. Len(L[h]) PROVE L[h][i] # n
  <2>1. L[h] \in Seq(Node)
    BY <1>2
  <2> DEFINE s == L[h]
  <2>2. i \in DOMAIN s
    BY <2>1
  <2>3. n \notin ToSet(s)
    BY <1>3
  <2> HIDE DEF s
  <2>4. s[i] # n
    BY <2>2, <2>3 DEF ToSet
  <2> QED BY <2>4 DEF s
<1> QED BY <1>1, <1>4 DEF Unlisted

LEMMA MemberIs ==
  ASSUME NEW L, Holds(ring, dangling, L), NEW h \in Root, NEW n \in Members(h)
  PROVE  h \in Root \ dangling /\ \E q \in 1 .. Len(L[h]) : n = L[h][q]
<1>1. L \in [Root -> Seq(Node)] /\ \A c \in dangling : L[c] = <<>>
  BY DEF Holds
<1>2. n \in ToSet(L[h])
  BY ShownIs DEF Members
<1> DEFINE s == L[h]
<1>3. s \in Seq(Node) /\ (h \in dangling => s = <<>>)
  BY <1>1
<1>4. n \in ToSet(s)
  BY <1>2
<1> HIDE DEF s
<1>5. PICK q \in DOMAIN s : n = s[q]
  BY <1>4 DEF ToSet
<1>6. q \in 1 .. Len(s)
  BY <1>3
<1>7. h \notin dangling
  BY <1>3, <1>6
<1> QED BY <1>5, <1>6, <1>7 DEF s

\* ListSpec's Listed and Position, for these lists.
LEMMA ListedIs ==
  ASSUME NEW L, Holds(ring, dangling, L), NEW n, Unlisted(Root, L, n)
  PROVE  n \notin Lists!Listed
<1>1. Shown = L /\ L \in [Root -> Seq(Node)]
  BY ShownIs DEF Holds
<1>2. ASSUME NEW h \in Root PROVE n \notin {Shown[h][i] : i \in DOMAIN Shown[h]}
  <2>1. \A i \in DOMAIN L[h] : L[h][i] # n
    BY <1>1 DEF Unlisted
  <2> QED BY <1>1, <2>1
<1>3. Lists!Listed = UNION {{Shown[h][i] : i \in DOMAIN Shown[h]} : h \in Root}
  BY Zenon DEF Lists!Listed, Lists!Members, Shown
<1> QED BY <1>2, <1>3

LEMMA PositionIs ==
  ASSUME NEW L, Holds(ring, dangling, L), NEW h \in Root, NEW q \in 1 .. Len(L[h]), NEW n, n = L[h][q]
  PROVE  n \in Lists!Members(h) /\ Lists!Position(h, n) = q
<1>1. Shown = L /\ L \in [Root -> Seq(Node)] /\ Apart(Root, L)
  BY ShownIs DEF Holds
<1> DEFINE s == L[h]
<1>2. s \in Seq(Node) /\ s = Shown[h] /\ q \in DOMAIN s /\ n = s[q]
  BY <1>1
<1>3. \A i \in DOMAIN s : s[i] = n => i = q
  BY <1>1, <1>2 DEF Apart
<1> HIDE DEF s
<1>4. (CHOOSE i \in DOMAIN s : s[i] = n) = q
  BY <1>2, <1>3
<1>5. Lists!Position(h, n) = CHOOSE i \in DOMAIN Shown[h] : Shown[h][i] = n
  BY Zenon DEF Lists!Position, Shown
<1>6. Lists!Members(h) = {Shown[h][i] : i \in DOMAIN Shown[h]}
  BY Zenon DEF Lists!Members, Shown
<1> QED BY <1>2, <1>4, <1>5, <1>6

-----------------------------------------------------------------------------
(* IhList: each call of ListSpec, told of the lists before and after *)

LEMMA IsClear ==
  ASSUME NEW L, Shown = L, NEW M, Shown' = M, NEW h \in Root, M = [L EXCEPT ![h] = <<>>]
  PROVE  Lists!Clear(h)
<1>1. Shown' = [Shown EXCEPT ![h] = <<>>]
  OBVIOUS
<1> QED BY <1>1, Zenon DEF Lists!Clear, Shown

LEMMA IsPush ==
  ASSUME NEW L, Shown = L, NEW M, Shown' = M, NEW h \in Root, NEW n, n \notin Lists!Listed,
         M = [L EXCEPT ![h] = <<n>> \o L[h]]
  PROVE  Lists!Push(h, n)
<1>1. Shown' = [Shown EXCEPT ![h] = <<n>> \o Shown[h]]
  OBVIOUS
<1> QED BY <1>1, Zenon DEF Lists!Push, Shown

LEMMA IsAdd ==
  ASSUME NEW L, Shown = L, NEW M, Shown' = M, NEW h \in Root, NEW n, n \notin Lists!Listed,
         M = [L EXCEPT ![h] = Append(L[h], n)]
  PROVE  Lists!Add(h, n)
<1>1. Shown' = [Shown EXCEPT ![h] = Append(Shown[h], n)]
  OBVIOUS
<1> QED BY <1>1, Zenon DEF Lists!Add, Shown

LEMMA WithoutIs ==
  ASSUME NEW L, Shown = L, NEW h \in Root, NEW n, NEW q, Lists!Position(h, n) = q
  PROVE  Lists!Without(h, n) = [L EXCEPT ![h] = RemoveAt(L[h], q)]
<1>1. Lists!Without(h, n) = [Shown EXCEPT ![h] = Lists!RemoveAt(Shown[h], Lists!Position(h, n))]
  BY Zenon DEF Lists!Without, Shown
<1>2. Lists!RemoveAt(L[h], q) = RemoveAt(L[h], q)
  BY Zenon DEF Lists!RemoveAt, RemoveAt
<1> QED BY <1>1, <1>2

LEMMA IsDelete ==
  ASSUME NEW L, Shown = L, NEW M, Shown' = M, NEW h \in Root, NEW n, n \in Lists!Members(h),
         NEW q, Lists!Position(h, n) = q, M = [L EXCEPT ![h] = RemoveAt(L[h], q)]
  PROVE  Lists!Delete(h, n)
<1>1. Shown' = Lists!Without(h, n)
  BY WithoutIs
<1> QED BY <1>1, Zenon DEF Lists!Delete, Shown

LEMMA IsReplace ==
  ASSUME NEW L, Shown = L, NEW M, Shown' = M, NEW h \in Root, NEW o, o \in Lists!Members(h),
         NEW n, n \notin Lists!Listed,
         NEW q, Lists!Position(h, o) = q, M = [L EXCEPT ![h] = [L[h] EXCEPT ![q] = n]]
  PROVE  Lists!Replace(h, o, n)
<1>1. Shown' = [Shown EXCEPT ![h] = [Shown[h] EXCEPT ![Lists!Position(h, o)] = n]]
  OBVIOUS
<1> QED BY <1>1, Zenon DEF Lists!Replace, Shown

LEMMA IsMoveFront ==
  ASSUME NEW L, Shown = L, NEW M, Shown' = M, NEW g \in Root, NEW h \in Root, NEW n, n \in Lists!Members(g),
         NEW q, Lists!Position(g, n) = q, NEW K, K = [L EXCEPT ![g] = RemoveAt(L[g], q)],
         M = [K EXCEPT ![h] = <<n>> \o K[h]]
  PROVE  Lists!MoveFront(h, n, g)
<1>1. Lists!Without(g, n) = K
  BY WithoutIs
<1>2. Shown' = [Lists!Without(g, n) EXCEPT ![h] = <<n>> \o Lists!Without(g, n)[h]]
  BY <1>1
<1> QED BY <1>2, Zenon DEF Lists!MoveFront, Shown

LEMMA IsMoveTail ==
  ASSUME NEW L, Shown = L, NEW M, Shown' = M, NEW g \in Root, NEW h \in Root, NEW n, n \in Lists!Members(g),
         NEW q, Lists!Position(g, n) = q, NEW K, K = [L EXCEPT ![g] = RemoveAt(L[g], q)],
         M = [K EXCEPT ![h] = Append(K[h], n)]
  PROVE  Lists!MoveTail(h, n, g)
<1>1. Lists!Without(g, n) = K
  BY WithoutIs
<1>2. Shown' = [Lists!Without(g, n) EXCEPT ![h] = Append(Lists!Without(g, n)[h], n)]
  BY <1>1
<1> QED BY <1>2, Zenon DEF Lists!MoveTail, Shown

LEMMA IsCut ==
  ASSUME NEW L, Shown = L, NEW M, Shown' = M, NEW g \in Root, NEW h \in Root, g # h,
         NEW n, n \in Lists!Members(h), NEW q, Lists!Position(h, n) = q,
         M = [L EXCEPT ![g] = SubSeq(L[h], 1, q), ![h] = SubSeq(L[h], q + 1, Len(L[h]))]
  PROVE  Lists!Cut(h, n, g)
<1>1. Shown' = [Shown EXCEPT ![g] = SubSeq(Shown[h], 1, Lists!Position(h, n)),
                             ![h] = SubSeq(Shown[h], Lists!Position(h, n) + 1, Len(Shown[h]))]
  OBVIOUS
<1> QED BY <1>1, Zenon DEF Lists!Cut, Shown

LEMMA IsSpliceFront ==
  ASSUME NEW L, Shown = L, NEW M, Shown' = M, NEW g \in Root, NEW h \in Root, g # h,
         M = [L EXCEPT ![g] = <<>>, ![h] = L[g] \o L[h]]
  PROVE  Lists!SpliceFront(h, g)
<1>1. Shown' = [Shown EXCEPT ![g] = <<>>, ![h] = Shown[g] \o Shown[h]]
  OBVIOUS
<1> QED BY <1>1, Zenon DEF Lists!SpliceFront, Shown

LEMMA IsSpliceTail ==
  ASSUME NEW L, Shown = L, NEW M, Shown' = M, NEW g \in Root, NEW h \in Root, g # h,
         M = [L EXCEPT ![g] = <<>>, ![h] = L[h] \o L[g]]
  PROVE  Lists!SpliceTail(h, g)
<1>1. Shown' = [Shown EXCEPT ![g] = <<>>, ![h] = Shown[h] \o Shown[g]]
  OBVIOUS
<1> QED BY <1>1, Zenon DEF Lists!SpliceTail, Shown

-----------------------------------------------------------------------------
(* IhList: what every call makes of the lists *)

\* Where a call leads: a heap that holds some lists, after a call of ListSpec.
Becomes(M) == Holds(ring', dangling', M) /\ Shown' = M

LEMMA BecomesBy ==
  ASSUME NEW M, Holds(ring', dangling', M)
  PROVE  Becomes(M)
BY ShownNext DEF Becomes

LEMMA InitSteps ==
  ASSUME NEW L, Holds(ring, dangling, L), NEW h \in Root, InitList(h)
  PROVE  (\E M : Becomes(M)) /\ Lists!Clear(h)
<1> DEFINE M == [L EXCEPT ![h] = <<>>]
<1>1. Holds(InitHead(ring, h), dangling \ {h}, M)
  BY HeadHolds
<1>2. ring' = InitHead(ring, h) /\ dangling' = dangling \ {h}
  BY DEF InitList
<1> HIDE DEF M
<1>3. Becomes(M)
  BY <1>1, <1>2, BecomesBy
<1> QED BY <1>3, ShownIs, IsClear DEF M, Becomes

LEMMA FreeSteps ==
  ASSUME NEW L, Holds(ring, dangling, L), NEW h \in Root, FreeList(h)
  PROVE  (\E M : Becomes(M)) /\ Lists!Clear(h)
<1> DEFINE M == [L EXCEPT ![h] = <<>>]
<1>1. h \in Root \ dangling /\ ring' = FreeAll(ring, h) /\ dangling' = dangling
  BY DEF FreeList, Sound
<1>2. Holds(FreeAll(ring, h), dangling, M)
  BY <1>1, FreeHolds
<1> HIDE DEF M
<1>3. Becomes(M)
  BY <1>1, <1>2, BecomesBy
<1> QED BY <1>3, ShownIs, IsClear DEF M, Becomes

LEMMA AddSteps ==
  ASSUME NEW L, Holds(ring, dangling, L), NEW h \in Root, NEW n \in Node, AddOne(h, n)
  PROVE  /\ \E M : Becomes(M)
         /\ \/ call' = "add" /\ Lists!Push(h, n)
            \/ call' = "add_tail" /\ Lists!Add(h, n)
<1>1. h \in Root \ dangling /\ n \in Free /\ dangling' = dangling
  BY DEF AddOne, Sound
<1>2. Unlisted(Root, L, n) /\ n \notin Lists!Listed
  BY <1>1, FreeIs, ListedIs
<1>3. CASE ring' = AddHead(ring, n, h) /\ call' = "add"
  <2> DEFINE M == [L EXCEPT ![h] = <<n>> \o L[h]]
  <2>1. Holds(AddHead(ring, n, h), dangling, M)
    BY <1>1, <1>2, AddHeadHolds
  <2> HIDE DEF M
  <2>2. Becomes(M)
    BY <1>1, <1>3, <2>1, BecomesBy
  <2>3. Lists!Push(h, n)
    BY <1>2, <2>2, ShownIs, IsPush DEF M, Becomes
  <2> QED BY <1>3, <2>2, <2>3
<1>4. CASE ring' = AddTail(ring, n, h) /\ call' = "add_tail"
  <2> DEFINE M == [L EXCEPT ![h] = Append(L[h], n)]
  <2>1. Holds(AddTail(ring, n, h), dangling, M)
    BY <1>1, <1>2, AddTailHolds
  <2> HIDE DEF M
  <2>2. Becomes(M)
    BY <1>1, <1>4, <2>1, BecomesBy
  <2>3. Lists!Add(h, n)
    BY <1>2, <2>2, ShownIs, IsAdd DEF M, Becomes
  <2> QED BY <1>4, <2>2, <2>3
<1> QED BY <1>3, <1>4 DEF AddOne

LEMMA DelSteps ==
  ASSUME NEW L, Holds(ring, dangling, L), NEW h \in Root, NEW n \in Node, DelOne(h, n)
  PROVE  (\E M : Becomes(M)) /\ Lists!Delete(h, n)
<1>1. n \in Members(h) /\ ring' \in {Del(ring, n), InitHead(Unlink(ring, n), n)} /\ dangling' = dangling
  BY DEF DelOne
<1>2. PICK q \in 1 .. Len(L[h]) : n = L[h][q]
  BY <1>1, MemberIs
<1>3. h \in Root \ dangling
  BY <1>1, MemberIs
<1> DEFINE M == [L EXCEPT ![h] = Rem(L[h], q)]
<1>4. Holds(Del(ring, n), dangling, M)
  BY <1>2, <1>3, DelHolds
<1>5. Holds(InitHead(Unlink(ring, n), n), dangling, M)
  <2>1. Holds(Unlink(ring, n), dangling, M)
    BY <1>2, <1>3, UnlinkHolds
  <2>2. Unlisted(Root, M, n)
    BY <1>2, <1>3, UnlinkUnlisted
  <2> HIDE DEF M
  <2> QED BY <2>1, <2>2, InitFreeHolds
<1>6. Rem(L[h], q) = RemoveAt(L[h], q)
  <2>1. L[h] \in Seq(Node)
    BY DEF Holds
  <2> QED BY <2>1, RemIs
<1> HIDE DEF M
<1>7. Becomes(M)
  BY <1>1, <1>4, <1>5, BecomesBy
<1>8. n \in Lists!Members(h) /\ Lists!Position(h, n) = q
  BY <1>2, PositionIs
<1>9. Shown = L /\ Shown' = M /\ M = [L EXCEPT ![h] = RemoveAt(L[h], q)]
  BY <1>6, <1>7, ShownIs DEF M, Becomes
<1>10. Lists!Delete(h, n)
  BY <1>8, <1>9, IsDelete
<1> QED BY <1>7, <1>10

LEMMA ReplaceSteps ==
  ASSUME NEW L, Holds(ring, dangling, L), NEW h \in Root, NEW o \in Node, NEW n \in Node, ReplaceOne(h, o, n)
  PROVE  (\E M : Becomes(M)) /\ Lists!Replace(h, o, n)
<1>1. /\ o \in Members(h) /\ n \in Free /\ dangling' = dangling
      /\ ring' \in {Replace(ring, o, n), InitHead(Replace(ring, o, n), o)}
  BY DEF ReplaceOne
<1>2. PICK q \in 1 .. Len(L[h]) : o = L[h][q]
  BY <1>1, MemberIs
<1>3. h \in Root \ dangling
  BY <1>1, MemberIs
<1>4. Unlisted(Root, L, n) /\ n \notin Lists!Listed
  BY <1>1, FreeIs, ListedIs
<1> DEFINE M == [L EXCEPT ![h] = [L[h] EXCEPT ![q] = n]]
<1>5. Holds(Replace(ring, o, n), dangling, M)
  BY <1>2, <1>3, <1>4, ReplaceHolds
<1>6. Holds(InitHead(Replace(ring, o, n), o), dangling, M)
  <2>1. L \in [Root -> Seq(Node)] /\ Apart(Root, L)
    BY DEF Holds
  <2>2. Unlisted(Root, M, o)
    BY <1>2, <1>4, <2>1, RepApart
  <2> HIDE DEF M
  <2> QED BY <1>5, <2>2, InitFreeHolds
<1> HIDE DEF M
<1>7. Becomes(M)
  BY <1>1, <1>5, <1>6, BecomesBy
<1>8. o \in Lists!Members(h) /\ Lists!Position(h, o) = q
  BY <1>2, PositionIs
<1>9. Shown = L /\ Shown' = M /\ M = [L EXCEPT ![h] = [L[h] EXCEPT ![q] = n]]
  BY <1>7, ShownIs DEF M, Becomes
<1>10. Lists!Replace(h, o, n)
  BY <1>4, <1>8, <1>9, IsReplace
<1> QED BY <1>7, <1>10

LEMMA MoveSteps ==
  ASSUME NEW L, Holds(ring, dangling, L), NEW g \in Root, NEW h \in Root, NEW n \in Node, MoveOne(g, h, n)
  PROVE  /\ \E M : Becomes(M)
         /\ \/ call' = "move" /\ Lists!MoveFront(h, n, g)
            \/ call' = "move_tail" /\ Lists!MoveTail(h, n, g)
<1>1. n \in Members(g) /\ h \in Root \ dangling /\ dangling' = dangling
  BY DEF MoveOne, Sound
<1>2. PICK q \in 1 .. Len(L[g]) : n = L[g][q]
  BY <1>1, MemberIs
<1>3. g \in Root \ dangling
  BY <1>1, MemberIs
<1> DEFINE K == [L EXCEPT ![g] = Rem(L[g], q)]
<1>4. Holds(Unlink(ring, n), dangling, K)
  BY <1>2, <1>3, UnlinkHolds
<1>5. Unlisted(Root, K, n)
  BY <1>2, <1>3, UnlinkUnlisted
<1>6. K = [L EXCEPT ![g] = RemoveAt(L[g], q)]
  <2>1. L[g] \in Seq(Node)
    BY DEF Holds
  <2> QED BY <2>1, RemIs
<1> HIDE DEF K
<1>7. n \in Lists!Members(g) /\ Lists!Position(g, n) = q
  BY <1>2, PositionIs
<1>8. Shown = L
  BY ShownIs
<1>9. CASE ring' = AddHead(Unlink(ring, n), n, h) /\ call' = "move"
  <2> DEFINE M == [K EXCEPT ![h] = <<n>> \o K[h]]
  <2>1. Holds(AddHead(Unlink(ring, n), n, h), dangling, M)
    BY <1>1, <1>4, <1>5, AddHeadHolds
  <2> HIDE DEF M
  <2>2. Becomes(M)
    BY <1>1, <1>9, <2>1, BecomesBy
  <2>3. Lists!MoveFront(h, n, g)
    BY <1>6, <1>7, <1>8, <2>2, IsMoveFront DEF M, Becomes
  <2> QED BY <1>9, <2>2, <2>3
<1>10. CASE ring' = AddTail(Unlink(ring, n), n, h) /\ call' = "move_tail"
  <2> DEFINE M == [K EXCEPT ![h] = Append(K[h], n)]
  <2>1. Holds(AddTail(Unlink(ring, n), n, h), dangling, M)
    BY <1>1, <1>4, <1>5, AddTailHolds
  <2> HIDE DEF M
  <2>2. Becomes(M)
    BY <1>1, <1>10, <2>1, BecomesBy
  <2>3. Lists!MoveTail(h, n, g)
    BY <1>6, <1>7, <1>8, <2>2, IsMoveTail DEF M, Becomes
  <2> QED BY <1>10, <2>2, <2>3
<1> QED BY <1>9, <1>10 DEF MoveOne

\* What emptiness and singleness of a head say of its list.
LEMMA EmptyIs ==
  ASSUME NEW L, Holds(ring, dangling, L), NEW h \in Root \ dangling
  PROVE  /\ Empty(h) <=> L[h] = <<>>
         /\ EmptyCareful(h) <=> L[h] = <<>>
         /\ IsSingular(h) <=> Len(L[h]) = 1
         /\ \A i \in 1 .. Len(L[h]) : IsLast(L[h][i], h) <=> i = Len(L[h])
<1> DEFINE s == L[h]
           N == Len(s)
<1>1. /\ s \in Seq(Node) /\ Single(s) /\ N \in Nat /\ h \in Root
      /\ ring.next[h] = Along(s, h, 1) /\ ring.prev[h] = Along(s, h, N)
      /\ \A q \in 1 .. N : ring.next[s[q]] = Along(s, h, q + 1)
  BY HoldsFacts, Neighbours
<1> HIDE DEF s
<1>2. \A i \in 1 .. N : Along(s, h, i) = s[i] /\ s[i] \in Node /\ s[i] # h
  BY <1>1, Kinds DEF Along
<1>3. \A i \in Int : i \notin 1 .. N => Along(s, h, i) = h
  BY DEF Along
<1>4. s = <<>> <=> N = 0
  BY <1>1
<1>5. ring.next[h] = h <=> N = 0
  <2>1. CASE N = 0
    BY <1>1, <1>3, <2>1
  <2>2. CASE N # 0
    <3>1. 1 \in 1 .. N
      BY <1>1, <2>2
    <3> QED BY <1>1, <1>2, <2>2, <3>1
  <2> QED BY <2>1, <2>2
<1>6. N = 0 => ring.prev[h] = h
  BY <1>1, <1>3
<1>7. ring.next[h] # h /\ ring.next[h] = ring.prev[h] <=> N = 1
  <2>1. CASE N = 0
    BY <1>5, <2>1
  <2>2. CASE N = 1
    BY <1>1, <1>5, <2>2
  <2>3. CASE N > 1
    <3>1. 1 \in 1 .. N /\ N \in 1 .. N /\ N # 1
      BY <1>1, <2>3
    <3>2. s[1] # s[N]
      BY <1>1, <3>1 DEF Single
    <3>3. ring.next[h] = s[1] /\ ring.prev[h] = s[N]
      BY <1>1, <1>2, <3>1
    <3>4. ring.next[h] # ring.prev[h] /\ N # 1
      BY <3>1, <3>2, <3>3
    <3> QED BY <3>4
  <2>4. N \in Nat
    BY <1>1
  <2>5. N = 0 \/ N = 1 \/ N > 1
    <3> HIDE DEF N
    <3> QED BY <2>4
  <2> QED BY <2>1, <2>2, <2>3, <2>5, Zenon
<1>8. ASSUME NEW i \in 1 .. N PROVE ring.next[s[i]] = h <=> i = N
  <2>1. ring.next[s[i]] = Along(s, h, i + 1) /\ i + 1 \in Int
    BY <1>1
  <2>2. CASE i = N
    <3>1. i + 1 \notin 1 .. N
      BY <1>1, <2>2
    <3> QED BY <1>3, <2>1, <2>2, <3>1
  <2>3. CASE i # N
    <3>1. i + 1 \in 1 .. N
      BY <1>1, <2>3
    <3> QED BY <1>2, <2>1, <2>3, <3>1
  <2> QED BY <2>2, <2>3
<1>9. Empty(h) <=> s = <<>>
  BY <1>4, <1>5 DEF Empty
<1>10. EmptyCareful(h) <=> s = <<>>
  BY <1>4, <1>5, <1>6, <1>9 DEF Empty, EmptyCareful
<1>11. IsSingular(h) <=> N = 1
  BY <1>7 DEF IsSingular, Empty
<1>12. \A i \in 1 .. N : IsLast(s[i], h) <=> i = N
  BY <1>8 DEF IsLast
<1> QED BY <1>9, <1>10, <1>11, <1>12 DEF s

\* Pre and Post are the SubSeq of ListSpec.
LEMMA PreIs ==
  ASSUME NEW S, NEW s \in Seq(S), NEW q \in 1 .. Len(s)
  PROVE  Pre(s, q) = SubSeq(s, 1, q) /\ Post(s, q) = SubSeq(s, q + 1, Len(s))
<1> DEFINE d == Len(s)
           c == q + 1
<1>1. q \in Nat /\ d \in Nat /\ q \in 0 .. d /\ c \in Nat /\ c >= 1
  OBVIOUS
<1>2. /\ Pre(s, q) \in Seq(S) /\ Len(Pre(s, q)) = q /\ \A j \in 1 .. q : Pre(s, q)[j] = s[j]
      /\ Post(s, q) \in Seq(S) /\ Len(Post(s, q)) = d - q /\ \A j \in 1 .. d - q : Post(s, q)[j] = s[q + j]
  BY PreTypes
<1>3. SubSeq(s, 1, q) \in Seq(S) /\ Len(SubSeq(s, 1, q)) = q /\ \A j \in 1 .. q : SubSeq(s, 1, q)[j] = s[j]
  OBVIOUS
<1>4. Pre(s, q) = SubSeq(s, 1, q)
  <2> HIDE DEF d, c
  <2> QED BY <1>2, <1>3, SeqEqual
<1>5. SubSeq(s, c, d) \in Seq(S) /\ Len(SubSeq(s, c, d)) = d - q
      /\ \A j \in 1 .. d - q : SubSeq(s, c, d)[j] = s[q + j]
  OBVIOUS
<1>6. Post(s, q) = SubSeq(s, c, d)
  <2> HIDE DEF d, c
  <2> QED BY <1>2, <1>5, SeqEqual
<1> QED BY <1>4, <1>6

LEMMA CutSteps ==
  ASSUME NEW L, Holds(ring, dangling, L), NEW g \in Root, NEW h \in Root, CutList(g, h)
  PROVE  /\ \E M : Becomes(M)
         /\ \/ call' = "init" /\ Lists!Clear(g)
            \/ call' = "cut" /\ \E n \in Node : Lists!Cut(h, n, g)
<1>1. g # h /\ h \in Root \ dangling /\ dangling' = dangling \ {g}
  BY DEF CutList, Sound
<1>2. L[h] \in Seq(Node) /\ Single(L[h]) /\ Shown = L
  BY <1>1, HoldsFacts, ShownIs
<1>3. ASSUME NEW e \in Members(h), ring' = CutPosition(ring, g, h, e), call' = "cut"
      PROVE  (\E M : Becomes(M)) /\ \E n \in Node : Lists!Cut(h, n, g)
  <2>1. PICK q \in 1 .. Len(L[h]) : e = L[h][q]
    BY MemberIs
  <2>2. e \in Node /\ h # e /\ L[h] # <<>> /\ Len(L[h]) \in Nat
    BY <1>2, <2>1, Kinds
  <2>3. ~Empty(h)
    BY <1>1, <2>2, EmptyIs
  <2>4. ~(IsSingular(h) /\ ring.next[h] # e /\ h # e)
    <3>1. SUFFICES ASSUME IsSingular(h) PROVE ring.next[h] = e
      OBVIOUS
    <3>2. Len(L[h]) = 1
      BY <1>1, <3>1, EmptyIs
    <3>3. q = 1 /\ ring.next[h] = Along(L[h], h, 1)
      BY <1>1, <2>1, <3>2, Neighbours
    <3> QED BY <2>1, <3>2, <3>3 DEF Along
  <2>5. CutPosition(ring, g, h, e) = CutAt(ring, g, h, e)
    BY <2>2, <2>3, <2>4 DEF CutPosition
  <2> DEFINE M == [L EXCEPT ![g] = Pre(L[h], q), ![h] = Post(L[h], q)]
  <2>6. Holds(CutAt(ring, g, h, L[h][q]), dangling \ {g}, M)
    BY <1>1, <2>1, CutHolds
  <2>7. M = [L EXCEPT ![g] = SubSeq(L[h], 1, q), ![h] = SubSeq(L[h], q + 1, Len(L[h]))]
    BY <1>2, PreIs
  <2> HIDE DEF M
  <2>8. Becomes(M)
    BY <1>1, <1>3, <2>1, <2>5, <2>6, BecomesBy
  <2>9. e \in Lists!Members(h) /\ Lists!Position(h, e) = q
    BY <2>1, PositionIs
  <2>10. Lists!Cut(h, e, g)
    BY <1>1, <1>2, <2>7, <2>8, <2>9, IsCut DEF Becomes
  <2> QED BY <2>2, <2>8, <2>10
<1>4. ASSUME ring' = CutPosition(ring, g, h, h), ring' # ring
      PROVE  (\E M : Becomes(M)) /\ Lists!Clear(g)
  <2>1. ring' = InitHead(ring, g)
    BY <1>4, Zenon DEF CutPosition
  <2> DEFINE M == [L EXCEPT ![g] = <<>>]
  <2>2. Holds(InitHead(ring, g), dangling \ {g}, M)
    BY HeadHolds
  <2> HIDE DEF M
  <2>3. Becomes(M)
    BY <1>1, <2>1, <2>2, BecomesBy
  <2> QED BY <1>2, <2>3, IsClear DEF M, Becomes
<1>5. \/ \E e \in Members(h) : ring' = CutPosition(ring, g, h, e) /\ call' = "cut"
      \/ ring' = CutPosition(ring, g, h, h) /\ ring' # ring /\ call' = "init"
  BY DEF CutList
<1> QED BY <1>3, <1>4, <1>5

\* The two ends to which a splice goes.
\* r, the heap after a splice from g, holds M; or nothing was to be done.
SpliceMakes(r, g, L, M) ==
  /\ Empty(g) => r = ring /\ M = L
  /\ ~Empty(g) => Holds(r, dangling \cup {g}, M)

LEMMA SpliceGives ==
  ASSUME NEW L, Holds(ring, dangling, L), NEW g \in Root \ dangling, NEW h \in Root \ dangling, g # h
  PROVE  /\ SpliceMakes(SpliceFront(ring, g, h), g, L, [L EXCEPT ![g] = <<>>, ![h] = L[g] \o L[h]])
         /\ SpliceMakes(SpliceTail(ring, g, h), g, L, [L EXCEPT ![g] = <<>>, ![h] = L[h] \o L[g]])
<1>1. Empty(g) <=> L[g] = <<>>
  BY EmptyIs
<1>2. CASE Empty(g)
  <2>1. L[g] = <<>> /\ L[h] \in Seq(Node) /\ L \in [Root -> Seq(Node)]
    BY <1>1, <1>2 DEF Holds
  <2>2. L[g] \o L[h] = L[h] /\ L[h] \o L[g] = L[h]
    BY <2>1, ConcatEmptySeq
  <2>3. [L EXCEPT ![g] = <<>>, ![h] = L[h]] = L
    BY <2>1
  <2>4. SpliceFront(ring, g, h) = ring /\ SpliceTail(ring, g, h) = ring
    BY <1>2, Zenon DEF SpliceFront, SpliceTail
  <2> QED BY <1>2, <2>2, <2>3, <2>4 DEF SpliceMakes
<1>3. CASE ~Empty(g)
  <2>1. L[g] # <<>>
    BY <1>1, <1>3
  <2>2. /\ SpliceFront(ring, g, h) = SpliceBetween(ring, g, h, ring.next[h])
        /\ SpliceTail(ring, g, h) = SpliceBetween(ring, g, ring.prev[h], h)
    BY <1>3, Zenon DEF SpliceFront, SpliceTail
  <2>3. /\ Holds(SpliceBetween(ring, g, h, ring.next[h]), dangling \cup {g}, [L EXCEPT ![g] = <<>>, ![h] = L[g] \o L[h]])
        /\ Holds(SpliceBetween(ring, g, ring.prev[h], h), dangling \cup {g}, [L EXCEPT ![g] = <<>>, ![h] = L[h] \o L[g]])
    BY <2>1, SpliceHolds
  <2> QED BY <1>3, <2>2, <2>3, Zenon DEF SpliceMakes
<1> QED BY <1>2, <1>3

LEMMA SpliceSteps ==
  ASSUME NEW L, Holds(ring, dangling, L), NEW g \in Root, NEW h \in Root, SpliceList(g, h)
  PROVE  /\ \E M : Becomes(M)
         /\ \/ call' = "splice" /\ Lists!SpliceFront(h, g)
            \/ call' = "splice_tail" /\ Lists!SpliceTail(h, g)
<1>1. /\ g # h /\ g \in Root \ dangling /\ h \in Root \ dangling
      /\ dangling' = IF Empty(g) THEN dangling ELSE dangling \cup {g}
      /\ \/ ring' = SpliceFront(ring, g, h) /\ call' = "splice"
         \/ ring' = SpliceTail(ring, g, h) /\ call' = "splice_tail"
  BY DEF SpliceList, Sound
<1>2. Shown = L
  BY ShownIs
<1>3. CASE ring' = SpliceFront(ring, g, h) /\ call' = "splice"
  <2> DEFINE M == [L EXCEPT ![g] = <<>>, ![h] = L[g] \o L[h]]
  <2>1. SpliceMakes(SpliceFront(ring, g, h), g, L, M)
    BY <1>1, SpliceGives
  <2> HIDE DEF M
  <2>2. Holds(ring', dangling', M)
    BY <1>1, <1>3, <2>1 DEF SpliceMakes
  <2>4. Becomes(M)
    BY <2>2, BecomesBy
  <2>5. Lists!SpliceFront(h, g)
    BY <1>1, <1>2, <2>4, IsSpliceFront DEF M, Becomes
  <2> QED BY <1>3, <2>4, <2>5
<1>4. CASE ring' = SpliceTail(ring, g, h) /\ call' = "splice_tail"
  <2> DEFINE M == [L EXCEPT ![g] = <<>>, ![h] = L[h] \o L[g]]
  <2>1. SpliceMakes(SpliceTail(ring, g, h), g, L, M)
    BY <1>1, SpliceGives
  <2> HIDE DEF M
  <2>2. Holds(ring', dangling', M)
    BY <1>1, <1>4, <2>1 DEF SpliceMakes
  <2>4. Becomes(M)
    BY <2>2, BecomesBy
  <2>5. Lists!SpliceTail(h, g)
    BY <1>1, <1>2, <2>4, IsSpliceTail DEF M, Becomes
  <2> QED BY <1>4, <2>4, <2>5
<1> QED BY <1>1, <1>3, <1>4

\* After a splice the source head is made empty in the heap as well.
LEMMA SpliceInitGives ==
  ASSUME NEW L, NEW m, NEW g \in Root, NEW h \in Root, g # h, g \notin dangling,
         NEW v, Holds(m, dangling, [L EXCEPT ![g] = <<>>, ![h] = v])
                \/ Holds(m, dangling \cup {g}, [L EXCEPT ![g] = <<>>, ![h] = v])
  PROVE  Holds(InitHead(m, g), dangling, [L EXCEPT ![g] = <<>>, ![h] = v])
<1> DEFINE M == [L EXCEPT ![g] = <<>>, ![h] = v]
<1>1. PICK D : Holds(m, D, M) /\ (D = dangling \/ D = dangling \cup {g})
  OBVIOUS
<1>2. D \ {g} = dangling
  BY <1>1
<1>3. M \in [Root -> Seq(Node)]
  BY <1>1 DEF Holds
<1>4. M[g] = <<>>
  <2>1. g \in DOMAIN L
    BY <1>3
  <2> QED BY <2>1
<1> HIDE DEF M
<1>5. [M EXCEPT ![g] = <<>>] = M
  BY <1>3, <1>4
<1>6. Holds(InitHead(m, g), D \ {g}, [M EXCEPT ![g] = <<>>])
  BY <1>1, HeadHolds
<1> QED BY <1>2, <1>5, <1>6 DEF M

LEMMA SpliceInitSteps ==
  ASSUME NEW L, Holds(ring, dangling, L), NEW g \in Root, NEW h \in Root, SpliceInitList(g, h)
  PROVE  /\ \E M : Becomes(M)
         /\ \/ call' = "splice" /\ Lists!SpliceFront(h, g)
            \/ call' = "splice_tail" /\ Lists!SpliceTail(h, g)
<1>1. /\ g # h /\ g \in Root \ dangling /\ h \in Root \ dangling /\ dangling' = dangling
      /\ \/ ring' = InitHead(SpliceFront(ring, g, h), g) /\ call' = "splice"
         \/ ring' = InitHead(SpliceTail(ring, g, h), g) /\ call' = "splice_tail"
  BY DEF SpliceInitList, Sound
<1>2. Shown = L
  BY ShownIs
<1>3. CASE ring' = InitHead(SpliceFront(ring, g, h), g) /\ call' = "splice"
  <2> DEFINE M == [L EXCEPT ![g] = <<>>, ![h] = L[g] \o L[h]]
             r == SpliceFront(ring, g, h)
  <2>1. SpliceMakes(r, g, L, M)
    BY <1>1, SpliceGives
  <2> HIDE DEF r
  <2>3. Holds(r, dangling, M) \/ Holds(r, dangling \cup {g}, M)
    <3> HIDE DEF M
    <3> QED BY <2>1 DEF SpliceMakes
  <2>4. Holds(InitHead(r, g), dangling, M)
    BY <1>1, <2>3, SpliceInitGives
  <2> HIDE DEF M
  <2>5. Becomes(M)
    BY <1>1, <1>3, <2>4, BecomesBy DEF r
  <2>6. Lists!SpliceFront(h, g)
    BY <1>1, <1>2, <2>5, IsSpliceFront DEF M, Becomes
  <2> QED BY <1>3, <2>5, <2>6
<1>4. CASE ring' = InitHead(SpliceTail(ring, g, h), g) /\ call' = "splice_tail"
  <2> DEFINE M == [L EXCEPT ![g] = <<>>, ![h] = L[h] \o L[g]]
             r == SpliceTail(ring, g, h)
  <2>1. SpliceMakes(r, g, L, M)
    BY <1>1, SpliceGives
  <2> HIDE DEF r
  <2>3. Holds(r, dangling, M) \/ Holds(r, dangling \cup {g}, M)
    <3> HIDE DEF M
    <3> QED BY <2>1 DEF SpliceMakes
  <2>4. Holds(InitHead(r, g), dangling, M)
    BY <1>1, <2>3, SpliceInitGives
  <2> HIDE DEF M
  <2>5. Becomes(M)
    BY <1>1, <1>4, <2>4, BecomesBy DEF r
  <2>6. Lists!SpliceTail(h, g)
    BY <1>1, <1>2, <2>5, IsSpliceTail DEF M, Becomes
  <2> QED BY <1>4, <2>5, <2>6
<1> QED BY <1>1, <1>3, <1>4

LEMMA ListInitHolds ==
  ASSUME ListInit
  PROVE  Holds(ring, dangling, [h \in Root |-> <<>>])
<1> DEFINE L == [h \in Root |-> <<>>]
           own == [c \in ListCell |-> IF c \in Root THEN c ELSE Poison]
<1>1. ring = [next |-> own, prev |-> own] /\ dangling = {}
  BY DEF ListInit
<1>2. own \in [ListCell -> ListCell \cup {Poison}]
  OBVIOUS
<1>3. ring \in Heap
  BY <1>1, <1>2 DEF Heap
<1>4. L \in [Root -> Seq(Node)] /\ \A h \in Root : L[h] = <<>> /\ Len(L[h]) = 0
  OBVIOUS
<1>5. Apart(Root, L)
  BY <1>4 DEF Apart
<1>6. ASSUME NEW h \in Root PROVE Linked(ring, L[h], h)
  <2>1. h \in ListCell /\ own[h] = h
    BY DEF ListCell
  <2>2. \A i \in Int : Along(L[h], h, i) = h
    BY <1>4 DEF Along
  <2> QED BY <1>1, <1>4, <2>1, <2>2 DEF Linked
<1> HIDE DEF L, own
<1>7. Holds(ring, dangling, L)
  BY <1>1, <1>3, <1>4, <1>5, <1>6 DEF Holds
<1> QED BY <1>7 DEF L

\* Every call keeps the heap one that holds lists, and is a call of ListSpec.
LEMMA ListSteps ==
  ASSUME NEW L, Holds(ring, dangling, L), ListNext
  PROVE  (\E M : Becomes(M)) /\ Lists!Next
<1>1. ASSUME NEW h \in Root, InitList(h) PROVE (\E M : Becomes(M)) /\ Lists!Next
  <2>1. (\E M : Becomes(M)) /\ Lists!Clear(h)
    BY <1>1, InitSteps
  <2>2. call' = "init"
    BY <1>1 DEF InitList
  <2> QED BY <2>1, <2>2 DEF Lists!Next
<1>2. ASSUME NEW h \in Root, FreeList(h) PROVE (\E M : Becomes(M)) /\ Lists!Next
  <2>1. (\E M : Becomes(M)) /\ Lists!Clear(h)
    BY <1>2, FreeSteps
  <2>2. call' = "init"
    BY <1>2 DEF FreeList
  <2> QED BY <2>1, <2>2 DEF Lists!Next
<1>3. ASSUME NEW h \in Root, NEW n \in Node, AddOne(h, n) PROVE (\E M : Becomes(M)) /\ Lists!Next
  <2>1. /\ \E M : Becomes(M)
        /\ \/ call' = "add" /\ Lists!Push(h, n)
           \/ call' = "add_tail" /\ Lists!Add(h, n)
    BY <1>3, AddSteps
  <2> QED BY <2>1 DEF Lists!Next
<1>4. ASSUME NEW h \in Root, NEW n \in Node, DelOne(h, n) PROVE (\E M : Becomes(M)) /\ Lists!Next
  <2>1. (\E M : Becomes(M)) /\ Lists!Delete(h, n)
    BY <1>4, DelSteps
  <2>2. call' = "del"
    BY <1>4 DEF DelOne
  <2> QED BY <2>1, <2>2 DEF Lists!Next
<1>5. ASSUME NEW h \in Root, NEW n \in Node, NEW o \in Node, ReplaceOne(h, o, n)
      PROVE  (\E M : Becomes(M)) /\ Lists!Next
  <2>1. (\E M : Becomes(M)) /\ Lists!Replace(h, o, n)
    BY <1>5, ReplaceSteps
  <2>2. call' = "replace"
    BY <1>5 DEF ReplaceOne
  <2> QED BY <2>1, <2>2 DEF Lists!Next
<1>6. ASSUME NEW h \in Root, NEW g \in Root, NEW n \in Node, MoveOne(g, h, n)
      PROVE  (\E M : Becomes(M)) /\ Lists!Next
  <2>1. /\ \E M : Becomes(M)
        /\ \/ call' = "move" /\ Lists!MoveFront(h, n, g)
           \/ call' = "move_tail" /\ Lists!MoveTail(h, n, g)
    BY <1>6, MoveSteps
  <2> QED BY <2>1 DEF Lists!Next
<1>7. ASSUME NEW h \in Root, NEW g \in Root, CutList(g, h) PROVE (\E M : Becomes(M)) /\ Lists!Next
  <2>1. /\ \E M : Becomes(M)
        /\ \/ call' = "init" /\ Lists!Clear(g)
           \/ call' = "cut" /\ \E n \in Node : Lists!Cut(h, n, g)
    BY <1>7, CutSteps
  <2> QED BY <2>1 DEF Lists!Next
<1>8. ASSUME NEW h \in Root, NEW g \in Root, SpliceList(g, h) \/ SpliceInitList(g, h)
      PROVE  (\E M : Becomes(M)) /\ Lists!Next
  <2>1. /\ \E M : Becomes(M)
        /\ \/ call' = "splice" /\ Lists!SpliceFront(h, g)
           \/ call' = "splice_tail" /\ Lists!SpliceTail(h, g)
    BY <1>8, SpliceSteps, SpliceInitSteps
  <2> QED BY <2>1 DEF Lists!Next
<1> QED BY <1>1, <1>2, <1>3, <1>4, <1>5, <1>6, <1>7, <1>8 DEF ListNext

LEMMA InvarianceList == ListSpecification => []ListInv
<1>1. ListInit => ListInv
  BY ListInitHolds DEF ListInv
<1>2. ASSUME ListInv, [ListNext]_listVars PROVE ListInv'
  <2>1. PICK L : Holds(ring, dangling, L)
    BY <1>2 DEF ListInv
  <2>2. CASE ListNext
    <3>1. PICK M : Becomes(M)
      BY <2>1, <2>2, ListSteps
    <3> QED BY <3>1 DEF Becomes, ListInv
  <2>3. CASE UNCHANGED listVars
    BY <2>1, <2>3 DEF listVars, ListInv
  <2> QED BY <1>2, <2>2, <2>3
<1> QED BY <1>1, <1>2, PTL DEF ListSpecification

LEMMA ListsTyped == ListInv => ListTypeOK
BY DEF ListInv, Holds, Heap, ListTypeOK

LEMMA RingsAreClosed == ListInv => RingsClosed
<1>1. SUFFICES ASSUME NEW L, Holds(ring, dangling, L) PROVE RingsClosed
  BY DEF ListInv
<1>2. ASSUME NEW h \in Sound
      PROVE  LET list == Walk(ring.next, h) IN
             /\ Walk(ring.prev, h) = Reverse(list)
             /\ Empty(h) = (list = <<>>) /\ EmptyCareful(h) = (list = <<>>)
             /\ IsSingular(h) = (Len(list) = 1)
             /\ \A i \in DOMAIN list : IsLast(list[i], h) = (i = Len(list))
  <2>1. h \in Root \ dangling
    BY DEF Sound
  <2> DEFINE s == L[h]
  <2>2. /\ Empty(h) <=> s = <<>>
        /\ EmptyCareful(h) <=> s = <<>>
        /\ IsSingular(h) <=> Len(s) = 1
        /\ \A i \in 1 .. Len(s) : IsLast(s[i], h) <=> i = Len(s)
    BY <1>1, <2>1, EmptyIs
  <2>3. Walk(ring.next, h) = s /\ Walk(ring.prev, h) = Reverse(s)
    BY <1>1, <2>1, Walks
  <2>4. DOMAIN s = 1 .. Len(s)
    BY <1>1, <2>1, HoldsFacts
  <2> HIDE DEF s
  <2>5. /\ Empty(h) = (s = <<>>) /\ EmptyCareful(h) = (s = <<>>)
        /\ IsSingular(h) = (Len(s) = 1)
        /\ \A i \in 1 .. Len(s) : IsLast(s[i], h) = (i = Len(s))
    BY <2>2, Zenon DEF Empty, EmptyCareful, IsSingular, IsLast
  <2> QED BY <2>3, <2>4, <2>5, Zenon
<1> QED BY <1>2, Zenon DEF RingsClosed

\* The stores of every ring function do to the lists what ListSpec says of it.
LEMMA RingsImplement == ListSpecification => ImplementsLists
<1>1. ListInit => Lists!Init
  <2>1. SUFFICES ASSUME ListInit PROVE Lists!Init
    OBVIOUS
  <2>2. Shown = [h \in Root |-> <<>>]
    BY <2>1, ListInitHolds, ShownIs
  <2>3. call = "none"
    BY <2>1 DEF ListInit
  <2> QED BY <2>2, <2>3, Zenon DEF Shown, Lists!Init
<1>2. ListInv /\ [ListNext]_listVars => [Lists!Next]_<<[h \in Root |-> ListOf(h)], call>>
  <2>1. SUFFICES ASSUME ListInv, [ListNext]_listVars
                 PROVE  Lists!Next \/ UNCHANGED <<[h \in Root |-> ListOf(h)], call>>
    OBVIOUS
  <2>2. PICK L : Holds(ring, dangling, L)
    BY <2>1 DEF ListInv
  <2>3. CASE ListNext
    BY <2>2, <2>3, ListSteps
  <2>4. CASE UNCHANGED listVars
    BY <2>4 DEF listVars, ListOf
  <2> QED BY <2>1, <2>3, <2>4
<1> QED BY <1>1, <1>2, InvarianceList, PTL DEF ListSpecification, ImplementsLists, Lists!Spec

-----------------------------------------------------------------------------
(* IhHlist: what the stores of a function leave in the two arrays *)

Firsts == [Link -> Elem \cup {NULL, POISON}]
Backs == [Elem -> Link \cup {NULL, POISON}]

\* r is f, but for two cells; v is p, but for the nodes among two cells.
SetsTo(f, r, a, av, b, bv) ==
  r \in Firsts /\ \A c \in Link : r[c] = IF c = b THEN bv ELSE IF c = a THEN av ELSE f[c]
SetsBack(p, v, a, av, b, bv) ==
  v \in Backs /\ \A c \in Elem : v[c] = IF c = b THEN bv ELSE IF c = a THEN av ELSE p[c]

LEMMA LinkKinds ==
  ASSUME NEW h \in Chain, NEW n \in Elem
  PROVE  /\ h # n /\ h \in Link /\ n \in Link /\ h \notin Elem /\ n \notin Chain
         /\ n \notin {NULL, POISON} /\ NULL \notin Elem /\ POISON \notin Elem
BY HlistAssumption DEF Link

LEMMA FwdStore ==
  ASSUME NEW f \in Firsts, NEW a, NEW b, NEW av \in Elem \cup {NULL, POISON},
         NEW bv \in Elem \cup {NULL, POISON}
  PROVE  SetsTo(f, [f EXCEPT ![a] = av, ![b] = bv], a, av, b, bv)
<1> DEFINE e == [f EXCEPT ![a] = av]
           r == [e EXCEPT ![b] = bv]
<1>1. e \in Firsts /\ \A c \in Link : e[c] = IF c = a THEN av ELSE f[c]
  BY DEF Firsts
<1> HIDE DEF e
<1>2. r \in Firsts /\ \A c \in Link : r[c] = IF c = b THEN bv ELSE e[c]
  BY <1>1 DEF Firsts
<1>3. SetsTo(f, r, a, av, b, bv)
  <2> HIDE DEF r
  <2> QED BY <1>1, <1>2 DEF SetsTo
<1> QED BY <1>3 DEF r, e

LEMMA BackStore ==
  ASSUME NEW p \in Backs, NEW z, NEW place \in Link, NEW n \in Elem, NEW rest \in Link \cup {NULL, POISON}
  PROVE  SetsBack(p, [PointBack(p, z, place) EXCEPT ![n] = rest], z, place, n, rest)
<1> DEFINE e == PointBack(p, z, place)
           v == [e EXCEPT ![n] = rest]
<1>1. e \in Backs /\ \A c \in Elem : e[c] = IF c = z THEN place ELSE p[c]
  BY DEF Backs, PointBack
<1> HIDE DEF e
<1>2. v \in Backs /\ \A c \in Elem : v[c] = IF c = n THEN rest ELSE e[c]
  BY <1>1 DEF Backs
<1>3. SetsBack(p, v, z, place, n, rest)
  <2> HIDE DEF v
  <2> QED BY <1>1, <1>2 DEF SetsBack
<1> QED BY <1>3 DEF v, e

-----------------------------------------------------------------------------
(* IhHlist: a head and its nodes, in a chain *)

\* What the chain of h ends in.
End(f, s, h) == f[Along(s, h, Len(s))]
EndIs(f, s, h, y) == End(f, s, h) = y

\* The pointers lead from h through the elements of s, each of which knows the
\* place of the pointer to it, and to no element after them.
Strung(f, p, s, h) ==
  /\ \A i \in 0 .. Len(s) - 1 : /\ f[Along(s, h, i)] = Along(s, h, i + 1)
                                /\ p[Along(s, h, i + 1)] = Along(s, h, i)
  /\ End(f, s, h) \notin Elem

LEMMA PlaceTypes ==
  ASSUME NEW h \in Chain, NEW s \in Seq(Elem), NEW i \in 0 .. Len(s)
  PROVE  /\ Along(s, h, i) \in Link
         /\ i = 0 => Along(s, h, i) = h
         /\ i # 0 => i \in 1 .. Len(s) /\ Along(s, h, i) = s[i] /\ Along(s, h, i) \in Elem
<1>1. CASE i = 0
  BY <1>1 DEF Along, Link
<1>2. CASE i # 0
  <2>1. i \in 1 .. Len(s) /\ s[i] \in Elem
    BY <1>2
  <2> QED BY <1>2, <2>1 DEF Along, Link
<1> QED BY <1>1, <1>2

LEMMA PlaceDistinct ==
  ASSUME NEW h \in Chain, NEW s \in Seq(Elem), Single(s), NEW i \in 0 .. Len(s), NEW j \in 0 .. Len(s),
         Along(s, h, i) = Along(s, h, j)
  PROVE  i = j
<1>1. CASE i = 0 \/ j = 0
  BY <1>1, PlaceTypes, LinkKinds
<1>2. CASE i # 0 /\ j # 0
  <2>1. i \in 1 .. Len(s) /\ j \in 1 .. Len(s) /\ s[i] = s[j]
    BY <1>2, PlaceTypes
  <2> QED BY <2>1 DEF Single
<1> QED BY <1>1, <1>2

\* n goes after the first q nodes; y is what follows it.
LEMMA InsStrung ==
  ASSUME NEW f, NEW p, NEW r, NEW v, NEW h \in Chain, NEW s \in Seq(Elem), Single(s), Strung(f, p, s, h),
         NEW n \in Elem, \A i \in 1 .. Len(s) : s[i] # n, NEW q \in 0 .. Len(s),
         NEW l, l = Along(s, h, q), NEW y, IF q = Len(s) THEN y \notin Elem ELSE y = Along(s, h, q + 1),
         SetsTo(f, r, n, y, l, n), SetsBack(p, v, y, n, n, l)
  PROVE  /\ Strung(r, v, Ins(s, q, n), h)
         /\ End(r, Ins(s, q, n), h) = IF q = Len(s) THEN y ELSE End(f, s, h)
<1> DEFINE A(i) == Along(s, h, i)
           B(i) == Along(Ins(s, q, n), h, i)
           N == Len(s)
<1>1. N \in Nat /\ Len(Ins(s, q, n)) = N + 1 /\ q \in Nat /\ q <= N
  BY InsTypes
<1>2. ASSUME NEW i \in 0 .. N PROVE A(i) \in Link /\ A(i) # n /\ (i # 0 => A(i) \in Elem)
  <2>1. A(i) # n
    BY AlongNot, LinkKinds
  <2> QED BY <2>1, PlaceTypes
<1>3. ASSUME NEW i \in 0 .. N + 2
      PROVE  B(i) = IF i <= q THEN A(i) ELSE IF i = q + 1 THEN n ELSE A(i - 1)
  BY InsAlong
<1>4. ASSUME NEW i \in 0 .. N, i # q PROVE A(i) # l
  BY <1>4, PlaceDistinct
<1>5. ASSUME NEW i \in 0 .. N - 1 PROVE f[A(i)] = A(i + 1) /\ p[A(i + 1)] = A(i)
  BY DEF Strung
<1>6. f[A(N)] \notin Elem
  BY DEF Strung, End
<1>7. ASSUME NEW i \in 0 .. N - 1, i # q PROVE A(i + 1) # y
  <2>1. i + 1 \in 0 .. N /\ i + 1 # 0
    BY <1>1
  <2>2. CASE q = N
    BY <1>2, <2>1, <2>2
  <2>3. CASE q # N
    <3>1. y = A(q + 1) /\ q + 1 \in 0 .. N /\ i + 1 # q + 1
      BY <1>1, <1>7, <2>3
    <3> QED BY <2>1, <3>1, PlaceDistinct
  <2> QED BY <2>2, <2>3
<1>8. \A c \in Link : r[c] = IF c = l THEN n ELSE IF c = n THEN y ELSE f[c]
  BY DEF SetsTo
<1>9. \A c \in Elem : v[c] = IF c = n THEN l ELSE IF c = y THEN n ELSE p[c]
  BY DEF SetsBack
<1>10. l \in Link /\ l # n /\ n \in Link /\ l = A(q)
  BY <1>1, <1>2, LinkKinds
<1>11. q # N => y \in Elem /\ y # n /\ y = A(q + 1)
  <2>1. SUFFICES ASSUME q # N PROVE y \in Elem /\ y # n /\ y = A(q + 1)
    OBVIOUS
  <2>2. q + 1 \in 0 .. N /\ q + 1 # 0 /\ y = A(q + 1)
    BY <1>1, <2>1
  <2> QED BY <1>2, <2>2
<1>12. q = N => y \notin Elem
  OBVIOUS
<1> HIDE DEF A, B, N
<1>13. ASSUME NEW i \in 0 .. N - 1, i # q PROVE r[A(i)] = A(i + 1) /\ v[A(i + 1)] = A(i)
  <2>1. i \in 0 .. N /\ i + 1 \in 0 .. N /\ i + 1 # 0
    BY <1>1
  <2>2. A(i) \in Link /\ A(i) # n /\ A(i + 1) \in Elem /\ A(i + 1) # n
    BY <1>2, <2>1
  <2>3. A(i) # l /\ A(i + 1) # y
    BY <1>4, <1>7, <1>13, <2>1
  <2> QED BY <1>5, <1>8, <1>9, <2>2, <2>3
<1>14. ASSUME NEW i \in 0 .. N PROVE r[B(i)] = B(i + 1) /\ v[B(i + 1)] = B(i)
  <2>1. i \in 0 .. N + 2 /\ i + 1 \in 0 .. N + 2 /\ i \in Nat
    BY <1>1
  <2>2. CASE i < q
    <3>1. B(i) = A(i) /\ B(i + 1) = A(i + 1) /\ i \in 0 .. N - 1 /\ i # q
      BY <1>1, <1>3, <2>1, <2>2
    <3> QED BY <1>13, <3>1
  <2>3. CASE i = q
    <3>1. B(i) = l /\ B(i + 1) = n
      BY <1>1, <1>3, <1>10, <2>1, <2>3
    <3> QED BY <1>8, <1>9, <1>10, <3>1
  <2>4. CASE i = q + 1
    <3>1. q # N /\ (i + 1) - 1 = q + 1 /\ ~(i + 1 <= q) /\ i + 1 # q + 1 /\ ~(i <= q)
      BY <1>1, <2>4
    <3>2. B(i) = n /\ B(i + 1) = y
      BY <1>3, <1>11, <2>1, <2>4, <3>1
    <3> QED BY <1>8, <1>9, <1>10, <1>11, <3>1, <3>2
  <2>5. CASE i > q + 1
    <3>1. i - 1 \in 0 .. N - 1 /\ i - 1 # q /\ (i - 1) + 1 = i
      BY <1>1, <2>1, <2>5
    <3>2. (i + 1) - 1 = i /\ ~(i + 1 <= q) /\ i + 1 # q + 1 /\ ~(i <= q) /\ i # q + 1
      BY <1>1, <2>1, <2>5
    <3>3. B(i) = A(i - 1) /\ B(i + 1) = A(i)
      BY <1>3, <2>1, <3>2
    <3> QED BY <1>13, <3>1, <3>3
  <2> QED BY <1>1, <2>1, <2>2, <2>3, <2>4, <2>5
<1>15. r[B(N + 1)] \notin Elem /\ r[B(N + 1)] = IF q = N THEN y ELSE f[A(N)]
  <2>1. N + 1 \in 0 .. N + 2 /\ (N + 1) - 1 = N /\ N \in 0 .. N /\ ~(N + 1 <= q)
    BY <1>1
  <2>2. CASE q = N
    <3>1. B(N + 1) = n
      BY <1>3, <2>1, <2>2
    <3> QED BY <1>8, <1>10, <1>12, <2>2, <3>1
  <2>3. CASE q # N
    <3>1. N + 1 # q + 1
      BY <1>1, <2>3
    <3>2. B(N + 1) = A(N)
      BY <1>3, <2>1, <3>1
    <3>3. A(N) # l /\ A(N) # n /\ A(N) \in Link
      BY <1>2, <1>4, <2>1, <2>3
    <3>4. r[A(N)] = f[A(N)]
      BY <1>8, <3>3
    <3> QED BY <1>6, <2>3, <3>2, <3>4
  <2> QED BY <2>2, <2>3
<1>16. (N + 1) - 1 = N
  BY <1>1
<1> QED BY <1>1, <1>14, <1>15, <1>16, Zenon DEF Strung, End, A, B, N

LEMMA RemStrung ==
  ASSUME NEW f, NEW p, NEW r, NEW v, NEW h \in Chain, NEW s \in Seq(Elem), Single(s), Strung(f, p, s, h),
         NEW q \in 1 .. Len(s), NEW e, e = s[q], NEW l, l = Along(s, h, q - 1), NEW z, z = f[e], NEW rest,
         SetsTo(f, r, l, z, e, rest), SetsBack(p, v, z, l, e, rest)
  PROVE  Strung(r, v, Rem(s, q), h) /\ EndIs(r, Rem(s, q), h, End(f, s, h))
<1> DEFINE A(i) == Along(s, h, i)
           B(i) == Along(Rem(s, q), h, i)
           N == Len(s)
<1>1. N \in Nat /\ Len(Rem(s, q)) = N - 1 /\ q \in Nat /\ q <= N /\ q >= 1
  BY RemTypes
<1>2. ASSUME NEW i \in 0 .. N PROVE A(i) \in Link /\ (i # 0 => A(i) \in Elem)
  BY PlaceTypes
<1>3. ASSUME NEW i \in 0 .. N PROVE B(i) = IF i < q THEN A(i) ELSE A(i + 1)
  BY RemAlong
<1>4. ASSUME NEW i \in 0 .. N, NEW j \in 0 .. N, A(i) = A(j) PROVE i = j
  BY <1>4, PlaceDistinct
<1>5. ASSUME NEW i \in 0 .. N - 1 PROVE f[A(i)] = A(i + 1) /\ p[A(i + 1)] = A(i)
  BY DEF Strung
<1>6. f[A(N)] \notin Elem
  BY DEF Strung, End
<1>7. e = A(q) /\ l = A(q - 1) /\ q - 1 \in 0 .. N /\ q \in 0 .. N
  BY <1>1, PlaceTypes
<1>8. \A c \in Link : r[c] = IF c = e THEN rest ELSE IF c = l THEN z ELSE f[c]
  BY DEF SetsTo
<1>9. \A c \in Elem : v[c] = IF c = e THEN rest ELSE IF c = z THEN l ELSE p[c]
  BY DEF SetsBack
<1> HIDE DEF A, B, N
<1>10. q # N => z = A(q + 1) /\ q + 1 \in 0 .. N
  <2>1. q # N => q \in 0 .. N - 1 /\ q + 1 \in 0 .. N
    BY <1>1
  <2> QED BY <1>5, <1>7, <2>1
<1>11. q = N => z \notin Elem
  BY <1>6, <1>7
<1>12. ASSUME NEW i \in 0 .. N, i # q, i # q - 1 PROVE r[A(i)] = f[A(i)]
  <2>1. A(i) # e /\ A(i) # l
    BY <1>4, <1>7, <1>12
  <2> QED BY <1>2, <1>8, <2>1
<1>13. ASSUME NEW i \in 1 .. N, i # q, i # q + 1 PROVE v[A(i)] = p[A(i)]
  <2>1. i \in 0 .. N /\ i # 0
    BY <1>1
  <2>2. A(i) # e /\ A(i) \in Elem
    BY <1>2, <1>4, <1>7, <1>13, <2>1
  <2>3. A(i) # z
    BY <1>4, <1>10, <1>11, <1>13, <2>1, <2>2
  <2> QED BY <1>9, <2>2, <2>3
<1>14. ASSUME NEW i \in 0 .. N - 2 PROVE r[B(i)] = B(i + 1) /\ v[B(i + 1)] = B(i)
  <2>1. i \in 0 .. N /\ i + 1 \in 0 .. N /\ i \in 0 .. N - 1 /\ i + 1 \in 0 .. N - 1 /\ i + 1 \in 1 .. N
    BY <1>1
  <2>2. CASE i + 1 < q
    <3>1. B(i) = A(i) /\ B(i + 1) = A(i + 1)
      BY <1>1, <1>3, <2>1, <2>2
    <3>2. i # q /\ i # q - 1 /\ i + 1 # q /\ i + 1 # q + 1
      BY <1>1, <2>1, <2>2
    <3> QED BY <1>5, <1>12, <1>13, <2>1, <3>1, <3>2
  <2>3. CASE i + 1 = q
    <3>1. i < q /\ ~(i + 1 < q) /\ (i + 1) + 1 = q + 1 /\ q # N /\ i = q - 1
      BY <1>1, <2>1, <2>3
    <3>2. B(i) = l /\ B(i + 1) = A(q + 1)
      BY <1>3, <1>7, <2>1, <3>1
    <3>3. z = A(q + 1) /\ z \in Elem
      <4>1. q + 1 # 0
        BY <1>1
      <4> QED BY <1>2, <1>10, <3>1, <4>1
    <3>4. z # e /\ l # e
      <4>1. q + 1 # q /\ q - 1 # q
        BY <1>1
      <4> QED BY <1>4, <1>7, <1>10, <3>1, <3>3, <4>1
    <3>5. r[l] = z /\ v[z] = l
      BY <1>2, <1>7, <1>8, <1>9, <3>3, <3>4
    <3> QED BY <3>2, <3>3, <3>5
  <2>4. CASE i + 1 > q
    <3>1. ~(i < q) /\ ~(i + 1 < q) /\ (i + 1) + 1 \in 1 .. N
      BY <1>1, <2>1, <2>4
    <3>2. B(i) = A(i + 1) /\ B(i + 1) = A((i + 1) + 1)
      BY <1>3, <2>1, <3>1
    <3>3. i + 1 # q /\ i + 1 # q - 1 /\ (i + 1) + 1 # q /\ (i + 1) + 1 # q + 1
      BY <1>1, <2>1, <2>4
    <3> QED BY <1>5, <1>12, <1>13, <2>1, <3>1, <3>2, <3>3
  <2> QED BY <1>1, <2>1, <2>2, <2>3, <2>4
<1>15. r[B(N - 1)] \notin Elem /\ r[B(N - 1)] = f[A(N)]
  <2>1. N - 1 \in 0 .. N /\ N \in 0 .. N /\ (N - 1) + 1 = N
    BY <1>1
  <2>2. CASE q = N
    <3>1. N - 1 < q /\ q - 1 # q /\ N - 1 = q - 1
      BY <1>1, <2>2
    <3>2. B(N - 1) = l /\ l # e
      BY <1>3, <1>4, <1>7, <2>1, <3>1
    <3> QED BY <1>2, <1>7, <1>8, <1>11, <2>2, <3>2
  <2>3. CASE q # N
    <3>1. ~(N - 1 < q) /\ N # q /\ N # q - 1
      BY <1>1, <2>3
    <3>2. B(N - 1) = A(N)
      BY <1>3, <2>1, <3>1
    <3> QED BY <1>6, <1>12, <2>1, <3>1, <3>2
  <2> QED BY <2>2, <2>3
<1>16. (N - 1) - 1 = N - 2
  BY <1>1
<1> QED BY <1>1, <1>14, <1>15, <1>16 DEF Strung, EndIs, End, A, B, N

-----------------------------------------------------------------------------
(* IhHlist: all chains together *)

\* The two arrays hold the lists L; a node of none points to none.
ChainsHold(f, p, L) ==
  /\ f \in Firsts /\ p \in Backs /\ L \in [Chain -> Seq(Elem)]
  /\ \A h \in Chain : Strung(f, p, L[h], h)
  /\ Apart(Chain, L)
  /\ \A n \in Elem : Unlisted(Chain, L, n) => f[n] \notin Elem

\* The pointers of a chain are as they were.
Untouched(f, p, r, v, s, h) ==
  /\ \A i \in 0 .. Len(s) : r[Along(s, h, i)] = f[Along(s, h, i)]
  /\ \A i \in 1 .. Len(s) : v[s[i]] = p[s[i]]

\* The pointers of h are stores of a step, those of every other chain are kept.
OthersKept(f, p, r, v, L, M, h) ==
  \A g \in Chain : g # h => M[g] = L[g] /\ Untouched(f, p, r, v, L[g], g)

\* The chains end as before; that of h ends in y; all but that of h end as before;
\* that of h ends as that of g did.
EndsSame(f, L, r, M) == \A c \in Chain : End(r, M[c], c) = End(f, L[c], c)
EndsBut(f, L, r, M, h, y) == \A c \in Chain : End(r, M[c], c) = IF c = h THEN y ELSE End(f, L[c], c)
EndsOthers(f, L, r, M, h) == \A c \in Chain : c # h => End(r, M[c], c) = End(f, L[c], c)
EndsMove(f, L, r, M, g, h) ==
  \A c \in Chain : End(r, M[c], c) = IF c = g THEN NULL ELSE IF c = h THEN End(f, L[g], g) ELSE End(f, L[c], c)

LEMMA ChainFacts ==
  ASSUME NEW f, NEW p, NEW L, ChainsHold(f, p, L), NEW h \in Chain
  PROVE  /\ f \in Firsts /\ p \in Backs /\ L \in [Chain -> Seq(Elem)]
         /\ L[h] \in Seq(Elem) /\ Len(L[h]) \in Nat /\ Single(L[h]) /\ Strung(f, p, L[h], h)
BY DEF ChainsHold, Apart, Single

LEMMA KeptStrung ==
  ASSUME NEW f, NEW p, NEW r, NEW v, NEW h \in Chain, NEW s \in Seq(Elem), Strung(f, p, s, h), Untouched(f, p, r, v, s, h)
  PROVE  Strung(r, v, s, h) /\ End(r, s, h) = End(f, s, h)
<1>1. Len(s) \in Nat /\ Len(s) \in 0 .. Len(s)
  OBVIOUS
<1>2. End(r, s, h) = End(f, s, h)
  BY <1>1 DEF Untouched, End
<1>3. ASSUME NEW i \in 0 .. Len(s) - 1
      PROVE  r[Along(s, h, i)] = Along(s, h, i + 1) /\ v[Along(s, h, i + 1)] = Along(s, h, i)
  <2>1. i \in 0 .. Len(s) /\ i + 1 \in 1 .. Len(s) /\ Along(s, h, i + 1) = s[i + 1]
    BY <1>1 DEF Along
  <2>2. f[Along(s, h, i)] = Along(s, h, i + 1) /\ p[Along(s, h, i + 1)] = Along(s, h, i)
    BY DEF Strung
  <2> QED BY <2>1, <2>2 DEF Untouched
<1> QED BY <1>2, <1>3 DEF Strung

\* Two chains have no place in common, and a node of none is in none.
LEMMA PlacesApart ==
  ASSUME NEW L \in [Chain -> Seq(Elem)], Apart(Chain, L), NEW g \in Chain, NEW h \in Chain, g # h,
         NEW i \in 0 .. Len(L[g]), NEW j \in 0 .. Len(L[h])
  PROVE  Along(L[g], g, i) # Along(L[h], h, j)
<1> DEFINE s == L[g]
           t == L[h]
<1>1. s \in Seq(Elem) /\ t \in Seq(Elem)
  OBVIOUS
<1>2. CASE i = 0 \/ j = 0
  <2> HIDE DEF s, t
  <2>1. i \in 0 .. Len(s) /\ j \in 0 .. Len(t)
    BY DEF s, t
  <2>2. Along(s, g, i) # Along(t, h, j)
    BY <1>1, <1>2, <2>1, PlaceTypes, LinkKinds
  <2> QED BY <2>2 DEF s, t
<1>3. CASE i # 0 /\ j # 0
  <2>1. i \in 1 .. Len(s) /\ j \in 1 .. Len(t)
    BY <1>1, <1>3
  <2>2. s[i] # t[j]
    BY <2>1 DEF Apart
  <2> QED BY <2>1, <2>2 DEF Along
<1> QED BY <1>2, <1>3

LEMMA UnlistedPlace ==
  ASSUME NEW L \in [Chain -> Seq(Elem)], NEW n \in Elem, Unlisted(Chain, L, n), NEW g \in Chain, NEW i
  PROVE  Along(L[g], g, i) # n
BY LinkKinds DEF Unlisted, Along

LEMMA ChainsChange ==
  ASSUME NEW f, NEW p, NEW L, ChainsHold(f, p, L), NEW r \in Firsts, NEW v \in Backs,
         NEW M \in [Chain -> Seq(Elem)], Apart(Chain, M), NEW h \in Chain,
         Strung(r, v, M[h], h), OthersKept(f, p, r, v, L, M, h),
         \A n \in Elem : Unlisted(Chain, M, n) => r[n] \notin Elem
  PROVE  ChainsHold(r, v, M) /\ EndsOthers(f, L, r, M, h)
<1>1. ASSUME NEW g \in Chain, g # h PROVE Strung(r, v, M[g], g) /\ End(r, M[g], g) = End(f, L[g], g)
  <2>1. M[g] = L[g] /\ Untouched(f, p, r, v, L[g], g)
    BY <1>1 DEF OthersKept
  <2>2. L[g] \in Seq(Elem) /\ Strung(f, p, L[g], g)
    BY DEF ChainsHold
  <2> QED BY <2>1, <2>2, KeptStrung
<1> QED BY <1>1 DEF ChainsHold, EndsOthers

\* What stores leave alone.
LEMMA SetsKept ==
  ASSUME NEW f, NEW p, NEW r, NEW v, NEW h \in Chain, NEW s \in Seq(Elem),
         NEW a, NEW av, NEW b, NEW bv, NEW c, NEW cv, NEW d, NEW dv,
         SetsTo(f, r, a, av, b, bv), SetsBack(p, v, c, cv, d, dv),
         \A i \in 0 .. Len(s) : Along(s, h, i) # a /\ Along(s, h, i) # b,
         \A i \in 1 .. Len(s) : s[i] # c /\ s[i] # d
  PROVE  Untouched(f, p, r, v, s, h)
<1>1. ASSUME NEW i \in 0 .. Len(s) PROVE r[Along(s, h, i)] = f[Along(s, h, i)]
  BY PlaceTypes DEF SetsTo
<1>2. ASSUME NEW i \in 1 .. Len(s) PROVE v[s[i]] = p[s[i]]
  BY DEF SetsBack
<1> QED BY <1>1, <1>2 DEF Untouched

LEMMA ChainInsHolds ==
  ASSUME NEW f, NEW p, NEW L, ChainsHold(f, p, L), NEW h \in Chain, NEW n \in Elem, Unlisted(Chain, L, n),
         NEW q \in 0 .. Len(L[h]), NEW l, l = Along(L[h], h, q),
         NEW y, IF q = Len(L[h]) THEN y \notin Elem ELSE y = Along(L[h], h, q + 1),
         NEW r, NEW v, SetsTo(f, r, n, y, l, n), SetsBack(p, v, y, n, n, l),
         NEW M, M = [L EXCEPT ![h] = Ins(L[h], q, n)]
  PROVE  /\ ChainsHold(r, v, M)
         /\ q = Len(L[h]) => EndsBut(f, L, r, M, h, y)
         /\ q # Len(L[h]) => EndsSame(f, L, r, M)
<1> DEFINE t == Ins(L[h], q, n)
<1>1. L \in [Chain -> Seq(Elem)] /\ Apart(Chain, L) /\ \A e \in Elem : Unlisted(Chain, L, e) => f[e] \notin Elem
  BY DEF ChainsHold
<1>2. M \in [Chain -> Seq(Elem)] /\ Apart(Chain, M)
  BY <1>1, InsApart
<1>3. r \in Firsts /\ v \in Backs
  BY DEF SetsTo, SetsBack
<1>4. L[h] \in Seq(Elem) /\ Single(L[h]) /\ Strung(f, p, L[h], h) /\ Len(L[h]) \in Nat
  BY ChainFacts
<1>5. \A i \in 1 .. Len(L[h]) : L[h][i] # n
  BY DEF Unlisted
<1>6. Strung(r, v, t, h) /\ End(r, t, h) = IF q = Len(L[h]) THEN y ELSE End(f, L[h], h)
  <2> DEFINE s == L[h]
  <2> HIDE DEF s
  <2>1. Strung(r, v, Ins(s, q, n), h) /\ End(r, Ins(s, q, n), h) = IF q = Len(s) THEN y ELSE End(f, s, h)
    BY <1>4, <1>5, InsStrung DEF s
  <2> QED BY <2>1 DEF s
<1>7. t \in Seq(Elem) /\ Len(t) = Len(L[h]) + 1 /\ t[q + 1] = n
      /\ \A i \in 1 .. Len(L[h]) : \E j \in 1 .. Len(t) : t[j] = L[h][i]
  <2>1. t \in Seq(Elem) /\ Len(t) = Len(L[h]) + 1
    BY <1>4, InsTypes
  <2>2. \A j \in 1 .. Len(L[h]) + 1 : t[j] = IF j <= q THEN L[h][j] ELSE IF j = q + 1 THEN n ELSE L[h][j - 1]
    BY DEF Ins
  <2> HIDE DEF t
  <2>3. t[q + 1] = n
    BY <1>4, <2>2
  <2>4. ASSUME NEW i \in 1 .. Len(L[h]) PROVE \E j \in 1 .. Len(t) : t[j] = L[h][i]
    <3>1. CASE i <= q
      <4>1. i \in 1 .. Len(L[h]) + 1
        BY <1>4
      <4> QED BY <2>1, <2>2, <3>1, <4>1
    <3>2. CASE ~(i <= q)
      <4>1. i + 1 \in 1 .. Len(L[h]) + 1 /\ ~(i + 1 <= q) /\ i + 1 # q + 1 /\ (i + 1) - 1 = i
        BY <1>4, <3>2
      <4>2. t[i + 1] = L[h][i]
        BY <2>2, <4>1
      <4> QED BY <2>1, <4>1, <4>2
    <3> QED BY <3>1, <3>2
  <2> QED BY <2>1, <2>3, <2>4
<1> HIDE DEF t
<1>8. M[h] = t /\ \A g \in Chain : g # h => M[g] = L[g]
  BY <1>1 DEF t
<1>9. OthersKept(f, p, r, v, L, M, h)
  <2>1. ASSUME NEW g \in Chain, g # h PROVE M[g] = L[g] /\ Untouched(f, p, r, v, L[g], g)
    <3>1. \A i \in 0 .. Len(L[g]) : Along(L[g], g, i) # n /\ Along(L[g], g, i) # l
      <4>1. q \in 0 .. Len(L[h])
        OBVIOUS
      <4> QED BY <1>1, <2>1, <4>1, PlacesApart, UnlistedPlace
    <3>2. \A i \in 1 .. Len(L[g]) : L[g][i] # y /\ L[g][i] # n
      <4>1. ASSUME NEW i \in 1 .. Len(L[g]) PROVE L[g][i] # y
        <5>1. CASE q = Len(L[h])
          BY <1>1, <5>1
        <5>2. CASE q # Len(L[h])
          <6>1. q + 1 \in 1 .. Len(L[h]) /\ y = L[h][q + 1]
            BY <1>4, <5>2 DEF Along
          <6> QED BY <1>1, <2>1, <6>1 DEF Apart
        <5> QED BY <5>1, <5>2
      <4> QED BY <4>1 DEF Unlisted
    <3>3. L[g] \in Seq(Elem)
      BY <1>1
    <3> DEFINE s == L[g]
    <3> HIDE DEF s
    <3>4. Untouched(f, p, r, v, s, g)
      BY <3>1, <3>2, <3>3, SetsKept DEF s
    <3> QED BY <1>8, <2>1, <3>4 DEF s
  <2> QED BY <2>1 DEF OthersKept
<1>10. ASSUME NEW e \in Elem, Unlisted(Chain, M, e) PROVE r[e] \notin Elem
  <2>1. e # n
    <3>1. q + 1 \in 1 .. Len(t)
      BY <1>4, <1>7
    <3> QED BY <1>7, <1>8, <1>10, <3>1 DEF Unlisted
  <2>2. Unlisted(Chain, L, e)
    <3>1. ASSUME NEW g \in Chain, NEW i \in 1 .. Len(L[g]) PROVE L[g][i] # e
      <4>1. CASE g # h
        BY <1>8, <1>10, <4>1 DEF Unlisted
      <4>2. CASE g = h
        <5>1. PICK j \in 1 .. Len(t) : t[j] = L[g][i]
          BY <1>7, <4>2
        <5> QED BY <1>8, <1>10, <4>2, <5>1 DEF Unlisted
      <4> QED BY <4>1, <4>2
    <3> QED BY <3>1 DEF Unlisted
  <2>3. e # l /\ e \in Link
    <3>1. l # e
      BY <1>1, <2>2, UnlistedPlace
    <3> QED BY <3>1, LinkKinds DEF Link
  <2>4. r[e] = f[e]
    BY <2>1, <2>3 DEF SetsTo
  <2> QED BY <1>1, <2>2, <2>4
<1>11. Strung(r, v, M[h], h)
  BY <1>6, <1>8
<1>12. ChainsHold(r, v, M) /\ EndsOthers(f, L, r, M, h)
  BY <1>2, <1>3, <1>9, <1>10, <1>11, ChainsChange
<1>13. \A g \in Chain : End(r, M[g], g) = IF g = h /\ q = Len(L[h]) THEN y ELSE End(f, L[g], g)
  BY <1>6, <1>8, <1>12 DEF EndsOthers
<1> QED BY <1>12, <1>13 DEF EndsBut, EndsSame

LEMMA ChainRemHolds ==
  ASSUME NEW f, NEW p, NEW L, ChainsHold(f, p, L), NEW h \in Chain, NEW q \in 1 .. Len(L[h]), NEW e, e = L[h][q],
         NEW l, l = Along(L[h], h, q - 1), NEW z, z = f[e], NEW rest, rest \notin Elem,
         NEW r, NEW v, SetsTo(f, r, l, z, e, rest), SetsBack(p, v, z, l, e, rest),
         NEW M, M = [L EXCEPT ![h] = Rem(L[h], q)]
  PROVE  ChainsHold(r, v, M) /\ EndsSame(f, L, r, M)
<1> DEFINE t == Rem(L[h], q)
<1>1. L \in [Chain -> Seq(Elem)] /\ Apart(Chain, L) /\ \A c \in Elem : Unlisted(Chain, L, c) => f[c] \notin Elem
  BY DEF ChainsHold
<1>2. M \in [Chain -> Seq(Elem)] /\ Apart(Chain, M) /\ Unlisted(Chain, M, e)
  BY <1>1, RemApart
<1>3. r \in Firsts /\ v \in Backs
  BY DEF SetsTo, SetsBack
<1>4. L[h] \in Seq(Elem) /\ Single(L[h]) /\ Strung(f, p, L[h], h) /\ Len(L[h]) \in Nat
  BY ChainFacts
<1>5. Strung(r, v, t, h) /\ End(r, t, h) = End(f, L[h], h)
  <2>1. L[h] \in Seq(Elem) /\ Single(L[h]) /\ Strung(f, p, L[h], h)
    BY <1>4
  <2>2. Strung(r, v, Rem(L[h], q), h)
    BY <2>1, RemStrung
  <2>3. EndIs(r, Rem(L[h], q), h, End(f, L[h], h))
    BY <2>1, RemStrung
  <2> QED BY <2>2, <2>3 DEF EndIs
<1>6. q - 1 \in 0 .. Len(L[h]) /\ q \in 0 .. Len(L[h]) /\ e = Along(L[h], h, q) /\ e \in Elem /\ e \in Link
  BY <1>4, PlaceTypes
<1>7. \A i \in 1 .. Len(L[h]) : i # q => \E j \in 1 .. Len(t) : t[j] = L[h][i]
  <2>1. t \in Seq(Elem) /\ Len(t) = Len(L[h]) - 1
    BY <1>4, RemTypes
  <2>2. \A j \in 1 .. Len(L[h]) - 1 : t[j] = IF j < q THEN L[h][j] ELSE L[h][j + 1]
    BY DEF Rem
  <2> HIDE DEF t
  <2>3. ASSUME NEW i \in 1 .. Len(L[h]), i # q PROVE \E j \in 1 .. Len(t) : t[j] = L[h][i]
    <3>1. CASE i < q
      <4>1. i \in 1 .. Len(L[h]) - 1
        BY <1>4, <3>1
      <4> QED BY <2>1, <2>2, <3>1, <4>1
    <3>2. CASE i > q
      <4>1. i - 1 \in 1 .. Len(L[h]) - 1 /\ ~(i - 1 < q) /\ (i - 1) + 1 = i
        BY <1>4, <3>2
      <4>2. t[i - 1] = L[h][i]
        BY <2>2, <4>1
      <4> QED BY <2>1, <4>1, <4>2
    <3>3. i < q \/ i > q
      BY <2>3
    <3> QED BY <3>1, <3>2, <3>3
  <2> QED BY <2>3
<1> HIDE DEF t
<1>8. M[h] = t /\ \A g \in Chain : g # h => M[g] = L[g]
  BY <1>1 DEF t
<1>9. q # Len(L[h]) => q + 1 \in 1 .. Len(L[h]) /\ z = L[h][q + 1]
  <2>1. SUFFICES ASSUME q # Len(L[h]) PROVE q + 1 \in 1 .. Len(L[h]) /\ z = L[h][q + 1]
    OBVIOUS
  <2>2. q + 1 \in 1 .. Len(L[h]) /\ q \in 0 .. Len(L[h]) - 1
    BY <1>4, <2>1
  <2>3. f[Along(L[h], h, q)] = Along(L[h], h, q + 1)
    BY <1>4, <2>2 DEF Strung
  <2> QED BY <1>6, <2>2, <2>3 DEF Along
<1>10. q = Len(L[h]) => z \notin Elem
  BY <1>4, <1>6 DEF Strung, End
<1>11. OthersKept(f, p, r, v, L, M, h)
  <2>1. ASSUME NEW g \in Chain, g # h PROVE M[g] = L[g] /\ Untouched(f, p, r, v, L[g], g)
    <3>1. \A i \in 0 .. Len(L[g]) : Along(L[g], g, i) # l /\ Along(L[g], g, i) # e
      BY <1>1, <1>6, <2>1, PlacesApart
    <3>2. ASSUME NEW i \in 1 .. Len(L[g]) PROVE L[g][i] # z /\ L[g][i] # e
      <4>1. L[g][i] # e
        BY <1>1, <2>1 DEF Apart
      <4>2. CASE q = Len(L[h])
        <5>1. L[g][i] \in Elem
          BY <1>1
        <5> QED BY <1>10, <4>1, <4>2, <5>1
      <4>3. CASE q # Len(L[h])
        BY <1>1, <1>9, <2>1, <4>1, <4>3 DEF Apart
      <4> QED BY <4>2, <4>3
    <3>3. L[g] \in Seq(Elem)
      BY <1>1
    <3> DEFINE s == L[g]
    <3> HIDE DEF s
    <3>4. Untouched(f, p, r, v, s, g)
      BY <3>1, <3>2, <3>3, SetsKept DEF s
    <3> QED BY <1>8, <2>1, <3>4 DEF s
  <2> QED BY <2>1 DEF OthersKept
<1>12. ASSUME NEW c \in Elem, Unlisted(Chain, M, c) PROVE r[c] \notin Elem
  <2>1. CASE c = e
    BY <1>6, <2>1 DEF SetsTo
  <2>2. CASE c # e
    <3>1. Unlisted(Chain, L, c)
      <4>1. ASSUME NEW g \in Chain, NEW i \in 1 .. Len(L[g]) PROVE L[g][i] # c
        <5>1. CASE g # h
          BY <1>8, <1>12, <5>1 DEF Unlisted
        <5>2. CASE g = h /\ i # q
          <6>1. PICK j \in 1 .. Len(t) : t[j] = L[g][i]
            BY <1>7, <5>2
          <6> QED BY <1>8, <1>12, <5>2, <6>1 DEF Unlisted
        <5>3. CASE g = h /\ i = q
          BY <2>2, <5>3
        <5> QED BY <5>1, <5>2, <5>3
      <4> QED BY <4>1 DEF Unlisted
    <3>2. c # l /\ c \in Link
      BY <1>1, <3>1, UnlistedPlace DEF Link
    <3>3. r[c] = f[c]
      BY <2>2, <3>2 DEF SetsTo
    <3> QED BY <1>1, <3>1, <3>3
  <2> QED BY <2>1, <2>2
<1>13. Strung(r, v, M[h], h)
  BY <1>5, <1>8
<1>14. ChainsHold(r, v, M) /\ EndsOthers(f, L, r, M, h)
  BY <1>2, <1>3, <1>11, <1>12, <1>13, ChainsChange
<1>15. \A g \in Chain : End(r, M[g], g) = End(f, L[g], g)
  BY <1>5, <1>8, <1>14 DEF EndsOthers
<1> QED BY <1>14, <1>15 DEF EndsSame

\* All nodes of g go to h, which has none.
LEMMA ChainMoveHolds ==
  ASSUME NEW f, NEW p, NEW L, ChainsHold(f, p, L), NEW g \in Chain, NEW h \in Chain, g # h, L[h] = <<>>,
         NEW z, z = f[g], NEW r, NEW v, SetsTo(f, r, h, z, g, NULL), SetsBack(p, v, z, h, z, h),
         NEW M, M = [L EXCEPT ![g] = <<>>, ![h] = L[g]]
  PROVE  ChainsHold(r, v, M) /\ EndsMove(f, L, r, M, g, h)
<1> DEFINE s == L[g]
           N == Len(s)
<1>1. L \in [Chain -> Seq(Elem)] /\ Apart(Chain, L) /\ \A e \in Elem : Unlisted(Chain, L, e) => f[e] \notin Elem
  BY DEF ChainsHold
<1>2. M \in [Chain -> Seq(Elem)] /\ Apart(Chain, M)
  <2>1. Spl(L[h], 0, L[g]) = L[g]
    <3>1. L[g] \in Seq(Elem) /\ L[h] \in Seq(Elem) /\ L[h] = <<>>
      BY <1>1
    <3>2. Spl(L[h], 0, L[g]) = L[g] \o L[h]
      BY <3>1, SplFront
    <3> QED BY <3>1, <3>2, ConcatEmptySeq
  <2>2. 0 \in 0 .. Len(L[h])
    BY <1>1
  <2>3. /\ [L EXCEPT ![g] = <<>>, ![h] = Spl(L[h], 0, L[g])] \in [Chain -> Seq(Elem)]
        /\ Apart(Chain, [L EXCEPT ![g] = <<>>, ![h] = Spl(L[h], 0, L[g])])
    BY <1>1, <2>2, SplApart
  <2> QED BY <2>1, <2>3
<1>3. s \in Seq(Elem) /\ Single(s) /\ Strung(f, p, s, g) /\ N \in Nat
  BY ChainFacts
<1>4. r \in Firsts /\ v \in Backs
  BY DEF SetsTo, SetsBack
<1>5. M[g] = <<>> /\ M[h] = s /\ \A c \in Chain : c # g /\ c # h => M[c] = L[c]
  <2> DEFINE K == [L EXCEPT ![g] = <<>>]
  <2>1. K \in [Chain -> Seq(Elem)] /\ K[g] = <<>> /\ \A c \in Chain : c # g => K[c] = L[c]
    BY <1>1
  <2>2. M = [K EXCEPT ![h] = s]
    OBVIOUS
  <2> HIDE DEF K, s
  <2> QED BY <1>3, <2>1, <2>2
<1>6. /\ \A c \in Link : r[c] = IF c = g THEN NULL ELSE IF c = h THEN z ELSE f[c]
      /\ \A c \in Elem : v[c] = IF c = z THEN h ELSE p[c]
  BY DEF SetsTo, SetsBack
<1>7. g \in Link /\ h \in Link
  BY DEF Link
<1>8. \A i \in 0 .. N - 1 : f[Along(s, g, i)] = Along(s, g, i + 1) /\ p[Along(s, g, i + 1)] = Along(s, g, i)
  BY <1>3 DEF Strung
<1>9. f[Along(s, g, N)] \notin Elem
  BY <1>3 DEF Strung, End
<1> HIDE DEF s
<1>10. /\ Along(s, g, 0) = g /\ Along(s, h, 0) = h
       /\ \A i \in 1 .. N : Along(s, g, i) = s[i] /\ Along(s, h, i) = s[i] /\ s[i] \in Elem /\ s[i] \in Link
                            /\ s[i] # g /\ s[i] # h
  BY <1>3, LinkKinds DEF Along
<1>11. N # 0 => z = s[1] /\ 1 \in 1 .. N
  <2>1. SUFFICES ASSUME N # 0 PROVE z = s[1] /\ 1 \in 1 .. N
    OBVIOUS
  <2>2. 0 \in 0 .. N - 1 /\ 1 \in 1 .. N /\ 0 + 1 = 1
    BY <1>3, <2>1
  <2> QED BY <1>8, <1>10, <2>2
<1>12. N = 0 => z \notin Elem
  BY <1>9, <1>10
<1> HIDE DEF N
<1>13. ASSUME NEW i \in 0 .. N - 1 PROVE r[Along(s, h, i)] = Along(s, h, i + 1) /\ v[Along(s, h, i + 1)] = Along(s, h, i)
  <2>1. i + 1 \in 1 .. N /\ i \in 0 .. N
    BY <1>3
  <2>2. CASE i = 0
    <3>1. N # 0 /\ i + 1 = 1
      BY <1>3, <2>1, <2>2
    <3>2. Along(s, h, i) = h /\ Along(s, h, i + 1) = z /\ z \in Elem
      BY <1>10, <1>11, <2>2, <3>1
    <3> QED BY <1>6, <1>7, <3>2
  <2>3. CASE i # 0
    <3>1. i \in 1 .. N /\ N # 0 /\ i + 1 # 1
      BY <1>3, <2>1, <2>3
    <3>2. Along(s, h, i) = s[i] /\ Along(s, h, i + 1) = s[i + 1] /\ Along(s, g, i) = s[i] /\ Along(s, g, i + 1) = s[i + 1]
      BY <1>10, <2>1, <3>1
    <3>3. s[i + 1] # z
      <4>1. 1 \in 1 .. N /\ z = s[1]
        BY <1>11, <3>1
      <4> QED BY <1>3, <2>1, <3>1, <4>1 DEF Single, N
    <3>4. r[s[i]] = f[s[i]] /\ v[s[i + 1]] = p[s[i + 1]]
      BY <1>6, <1>10, <2>1, <3>1, <3>3
    <3> QED BY <1>8, <3>2, <3>4
  <2> QED BY <2>2, <2>3
<1>14. r[Along(s, h, N)] = f[Along(s, g, N)]
  <2>1. CASE N = 0
    BY <1>6, <1>7, <1>10, <2>1
  <2>2. CASE N # 0
    <3>1. N \in 1 .. N
      BY <1>3, <2>2
    <3> QED BY <1>6, <1>10, <3>1
  <2> QED BY <2>1, <2>2
<1>15. Strung(r, v, s, h) /\ End(r, s, h) = End(f, s, g)
  BY <1>9, <1>13, <1>14 DEF Strung, End, N
<1>16. Strung(r, v, <<>>, g) /\ End(r, <<>>, g) = NULL
  <2>1. Len(<<>>) = 0 /\ Along(<<>>, g, 0) = g /\ ~\E i : i \in 0 .. 0 - 1
    BY DEF Along
  <2>2. r[g] = NULL /\ NULL \notin Elem
    BY <1>6, <1>7, HlistAssumption DEF Link
  <2> QED BY <2>1, <2>2 DEF Strung, End
<1>17. ASSUME NEW c \in Chain, c # g, c # h PROVE Strung(r, v, M[c], c) /\ End(r, M[c], c) = End(f, L[c], c)
  <2>1. M[c] = L[c] /\ L[c] \in Seq(Elem) /\ Strung(f, p, L[c], c)
    BY <1>1, <1>5, <1>17 DEF ChainsHold
  <2>2. \A i \in 0 .. Len(L[c]) : Along(L[c], c, i) # h /\ Along(L[c], c, i) # g
    <3>1. 0 \in 0 .. Len(L[g]) /\ 0 \in 0 .. Len(L[h])
      BY <1>1
    <3>2. Along(L[g], g, 0) = g /\ Along(L[h], h, 0) = h
      BY DEF Along
    <3> QED BY <1>1, <1>17, <3>1, <3>2, PlacesApart
  <2>3. \A i \in 1 .. Len(L[c]) : L[c][i] # z
    <3>1. CASE N = 0
      BY <1>12, <2>1, <3>1
    <3>2. CASE N # 0
      BY <1>1, <1>11, <1>17, <3>2 DEF Apart, s, N
    <3> QED BY <3>1, <3>2
  <2>4. Untouched(f, p, r, v, L[c], c)
    <3>1. ASSUME NEW i \in 0 .. Len(L[c]) PROVE r[Along(L[c], c, i)] = f[Along(L[c], c, i)]
      <4>1. Along(L[c], c, i) \in Link
        BY <2>1, PlaceTypes
      <4> QED BY <1>6, <2>2, <4>1
    <3>2. ASSUME NEW i \in 1 .. Len(L[c]) PROVE v[L[c][i]] = p[L[c][i]]
      <4>1. L[c][i] \in Elem
        BY <2>1
      <4> QED BY <1>6, <2>3, <4>1
    <3> QED BY <3>1, <3>2 DEF Untouched
  <2> QED BY <2>1, <2>4, KeptStrung
<1>18. ASSUME NEW e \in Elem, Unlisted(Chain, M, e) PROVE r[e] \notin Elem
  <2>1. Unlisted(Chain, L, e)
    <3>1. ASSUME NEW c \in Chain, NEW i \in 1 .. Len(L[c]) PROVE L[c][i] # e
      <4>1. CASE c = h
        BY <4>1
      <4>2. CASE c = g
        <5>1. i \in 1 .. Len(M[h]) /\ L[c][i] = M[h][i]
          BY <1>5, <4>2 DEF s
        <5> QED BY <1>18, <5>1 DEF Unlisted
      <4>3. CASE c # g /\ c # h
        BY <1>5, <1>18, <4>3 DEF Unlisted
      <4> QED BY <4>1, <4>2, <4>3
    <3> QED BY <3>1 DEF Unlisted
  <2>2. e \in Link /\ e # g /\ e # h
    BY LinkKinds
  <2> QED BY <1>1, <1>6, <2>1, <2>2
<1>19. \A c \in Chain : Strung(r, v, M[c], c)
  BY <1>5, <1>15, <1>16, <1>17
<1>20. ChainsHold(r, v, M)
  BY <1>2, <1>4, <1>18, <1>19 DEF ChainsHold
<1>21. ASSUME NEW c \in Chain
       PROVE  End(r, M[c], c) = IF c = g THEN NULL ELSE IF c = h THEN End(f, L[g], g) ELSE End(f, L[c], c)
  <2>1. CASE c = g
    BY <1>5, <1>16, <2>1
  <2>2. CASE c = h
    BY <1>5, <1>15, <2>2 DEF s
  <2>3. CASE c # g /\ c # h
    BY <1>17, <2>3
  <2> QED BY <2>1, <2>2, <2>3
<1> QED BY <1>20, <1>21 DEF EndsMove

-----------------------------------------------------------------------------
(* IhHlist: the lists of a state *)

ChainsOf(f) == [h \in Chain |-> Found(Elem, Cardinality(Elem), f, h)]
ChainsShown == [h \in Chain |-> Chained(h)]

LEMMA ChainsAre ==
  ASSUME NEW f, NEW p, NEW L, ChainsHold(f, p, L)
  PROVE  ChainsOf(f) = L
<1>1. ASSUME NEW h \in Chain PROVE Found(Elem, Cardinality(Elem), f, h) = L[h]
  <2> DEFINE s == L[h]
  <2>1. s \in Seq(Elem) /\ Single(s) /\ Strung(f, p, s, h) /\ Len(s) \in Nat
    BY ChainFacts
  <2> HIDE DEF s
  <2>2. Cardinality(Elem) \in Nat /\ Len(s) <= Cardinality(Elem)
    BY <2>1, HlistAssumption, CellsSuffice
  <2> DEFINE z == End(f, s, h)
  <2>3. z \notin Elem
    BY <2>1 DEF Strung
  <2>4. \A i \in 0 .. Len(s) - 1 : f[Along(s, h, i)] = Along(s, h, i + 1)
    BY <2>1 DEF Strung
  <2>5. ASSUME NEW i \in 0 .. Len(s) PROVE f[Along(s, h, i)] = Along(s, z, i + 1)
    <3>1. CASE i = Len(s)
      <4>1. i + 1 \notin 1 .. Len(s)
        BY <2>1, <3>1
      <4> QED BY <3>1, <4>1 DEF Along, End
    <3>2. CASE i # Len(s)
      <4>1. i \in 0 .. Len(s) - 1 /\ i + 1 \in 1 .. Len(s)
        BY <2>1, <3>2
      <4> QED BY <2>4, <4>1 DEF Along
    <3> QED BY <3>1, <3>2
  <2>6. f[h] = Along(s, z, 1)
    <3>1. 0 \in 0 .. Len(s) /\ Along(s, h, 0) = h /\ 0 + 1 = 1
      BY <2>1 DEF Along
    <3> HIDE DEF z
    <3> QED BY <2>5, <3>1
  <2>7. ASSUME NEW i \in 1 .. Len(s) PROVE f[s[i]] = Along(s, z, i + 1)
    <3>1. i \in 0 .. Len(s) /\ Along(s, h, i) = s[i]
      BY <2>1 DEF Along
    <3> HIDE DEF z
    <3> QED BY <2>5, <3>1
  <2> HIDE DEF z
  <2>8. Leads(f, h, s, z)
    BY <2>6, <2>7 DEF Leads
  <2> QED BY <2>1, <2>2, <2>3, <2>8, WalkFinds DEF s
<1>2. L \in [Chain -> Seq(Elem)]
  BY DEF ChainsHold
<1> QED BY <1>1, <1>2 DEF ChainsOf

LEMMA ChainedAre ==
  ASSUME NEW L, ChainsHold(fwd, pprev, L)
  PROVE  /\ ChainsShown = L
         /\ \A h \in Chain : Chained(h) = L[h] /\ LastLink(h) = Along(L[h], h, Len(L[h]))
<1>1. \A h \in Chain : Chained(h) = Found(Elem, Cardinality(Elem), fwd, h)
  BY Zenon DEF Chained, Found
<1>2. ChainsOf(fwd) = L
  BY ChainsAre
<1>3. ChainsShown = L
  BY <1>1, <1>2 DEF ChainsShown, ChainsOf
<1>4. ASSUME NEW h \in Chain PROVE Chained(h) = L[h]
  BY <1>3 DEF ChainsShown
<1>5. ASSUME NEW h \in Chain PROVE LastLink(h) = Along(L[h], h, Len(L[h]))
  <2> DEFINE s == L[h]
  <2>1. s \in Seq(Elem) /\ Len(s) \in Nat
    BY ChainFacts
  <2> HIDE DEF s
  <2>2. LastLink(h) = IF s = <<>> THEN h ELSE s[Len(s)]
    BY <1>4 DEF LastLink, Last, s
  <2>3. CASE s = <<>>
    BY <2>2, <2>3 DEF Along, s
  <2>4. CASE s # <<>>
    <3>1. Len(s) \in 1 .. Len(s)
      BY <2>1, <2>4
    <3>2. Along(s, h, Len(s)) = s[Len(s)]
      BY <3>1 DEF Along
    <3> QED BY <2>2, <2>4, <3>2 DEF s
  <2> QED BY <2>3, <2>4
<1> QED BY <1>3, <1>4, <1>5

LEMMA ChainedNext ==
  ASSUME NEW M, ChainsHold(fwd', pprev', M)
  PROVE  ChainsShown' = M
<1>1. ChainsOf(fwd') = M
  BY ChainsAre
<1>2. \A h \in Chain : Chained(h)' = Found(Elem, Cardinality(Elem), fwd', h)
  BY Zenon DEF Chained, Found
<1>3. ChainsShown' = ChainsOf(fwd')
  BY <1>2 DEF ChainsShown, ChainsOf
<1> QED BY <1>1, <1>3

LEMMA LooseIs ==
  ASSUME NEW L, ChainsHold(fwd, pprev, L), NEW n \in Loose
  PROVE  n \in Elem /\ Unlisted(Chain, L, n) /\ fwd[n] \notin Elem
<1>1. n \in Elem /\ \A h \in Chain : n \notin ToSet(Chained(h))
  BY DEF Loose, In
<1>2. L \in [Chain -> Seq(Elem)] /\ \A e \in Elem : Unlisted(Chain, L, e) => fwd[e] \notin Elem
  BY DEF ChainsHold
<1>3. ASSUME NEW h \in Chain, NEW i \in 1 .. Len(L[h]) PROVE L[h][i] # n
  <2> DEFINE s == L[h]
  <2>1. s \in Seq(Elem) /\ n \notin ToSet(s) /\ i \in DOMAIN s
    BY <1>1, <1>2, ChainedAre
  <2> HIDE DEF s
  <2>2. s[i] # n
    BY <2>1 DEF ToSet
  <2> QED BY <2>2 DEF s
<1>4. Unlisted(Chain, L, n)
  BY <1>3 DEF Unlisted
<1> QED BY <1>1, <1>2, <1>4

LEMMA InIs ==
  ASSUME NEW L, ChainsHold(fwd, pprev, L), NEW h \in Chain, NEW n \in In(h)
  PROVE  \E q \in 1 .. Len(L[h]) : n = L[h][q]
<1> DEFINE s == L[h]
<1>1. s \in Seq(Elem)
  BY ChainFacts
<1>2. n \in ToSet(s)
  BY ChainedAre DEF In
<1> HIDE DEF s
<1>3. PICK q \in DOMAIN s : n = s[q]
  BY <1>2 DEF ToSet
<1>4. q \in 1 .. Len(s)
  BY <1>1
<1> QED BY <1>3, <1>4 DEF s

\* What the pointers of a chain's nodes are.
LEMMA ChainPlaces ==
  ASSUME NEW L, ChainsHold(fwd, pprev, L), NEW h \in Chain, NEW q \in 1 .. Len(L[h]), NEW n, n = L[h][q]
  PROVE  /\ n \in Elem /\ q - 1 \in 0 .. Len(L[h]) /\ pprev[n] = Along(L[h], h, q - 1) /\ pprev[n] \in Link
         /\ n = Along(L[h], h, q) /\ fwd[pprev[n]] = n
<1> DEFINE s == L[h]
<1>1. s \in Seq(Elem) /\ Strung(fwd, pprev, s, h) /\ Len(s) \in Nat /\ q \in 1 .. Len(s) /\ n = s[q]
  BY ChainFacts
<1> HIDE DEF s
<1>2. q - 1 \in 0 .. Len(s) - 1 /\ q - 1 \in 0 .. Len(s) /\ (q - 1) + 1 = q /\ q \in 0 .. Len(s)
  BY <1>1
<1>3. Along(s, h, q) = n /\ n \in Elem
  BY <1>1 DEF Along
<1>4. /\ fwd[Along(s, h, q - 1)] = Along(s, h, (q - 1) + 1)
      /\ pprev[Along(s, h, (q - 1) + 1)] = Along(s, h, q - 1)
  BY <1>1, <1>2 DEF Strung
<1>5. fwd[Along(s, h, q - 1)] = n /\ pprev[n] = Along(s, h, q - 1)
  BY <1>2, <1>3, <1>4
<1>6. Along(s, h, q - 1) \in Link
  BY <1>1, <1>2, PlaceTypes
<1> QED BY <1>2, <1>3, <1>5, <1>6 DEF s

LEMMA FwdTypes ==
  ASSUME NEW L, ChainsHold(fwd, pprev, L), NEW c \in Link
  PROVE  fwd[c] \in Elem \cup {NULL, POISON}
BY DEF ChainsHold, Firsts

\* The stores of the functions are those of an insertion or a removal.
LEMMA DelChain ==
  ASSUME NEW L, ChainsHold(fwd, pprev, L), NEW h \in Chain, NEW q \in 1 .. Len(L[h]), NEW n, n = L[h][q],
         NEW rest \in {NULL, POISON}, HlistDel(n, rest), NEW M, M = [L EXCEPT ![h] = Rem(L[h], q)]
  PROVE  ChainsHold(fwd', pprev', M) /\ EndsSame(fwd, L, fwd', M)
<1> DEFINE l == pprev[n]
           z == fwd[n]
<1>1. n \in Elem /\ l = Along(L[h], h, q - 1) /\ l \in Link /\ n \in Link
  BY ChainPlaces DEF Link
<1>2. fwd \in Firsts /\ pprev \in Backs /\ z \in Elem \cup {NULL, POISON}
  BY <1>1, FwdTypes DEF ChainsHold
<1>3. /\ fwd' = [fwd EXCEPT ![l] = z, ![n] = rest]
      /\ pprev' = [PointBack(pprev, z, l) EXCEPT ![n] = rest]
  BY Zenon DEF HlistDel, Store
<1>4. rest \notin Elem
  BY HlistAssumption DEF Link
<1> HIDE DEF l
<1>5. z = fwd[n]
  OBVIOUS
<1> HIDE DEF z
<1>6. SetsTo(fwd, fwd', l, z, n, rest)
  BY <1>2, <1>3, FwdStore
<1>7. SetsBack(pprev, pprev', z, l, n, rest)
  BY <1>1, <1>2, <1>3, BackStore
<1> QED BY <1>1, <1>4, <1>5, <1>6, <1>7, ChainRemHolds

\* ih_hlist_add_head and ih_hlist_add_behind: n goes after the place l.
LEMMA AddChain ==
  ASSUME NEW L, ChainsHold(fwd, pprev, L), NEW h \in Chain, NEW n \in Elem, Unlisted(Chain, L, n),
         NEW q \in 0 .. Len(L[h]), NEW l, l = Along(L[h], h, q),
         fwd' = [fwd EXCEPT ![n] = fwd[l], ![l] = n], pprev' = [PointBack(pprev, fwd[l], n) EXCEPT ![n] = l],
         NEW M, M = [L EXCEPT ![h] = Ins(L[h], q, n)]
  PROVE  ChainsHold(fwd', pprev', M) /\ EndsSame(fwd, L, fwd', M)
<1> DEFINE y == fwd[l]
<1>1. L[h] \in Seq(Elem) /\ Strung(fwd, pprev, L[h], h) /\ Len(L[h]) \in Nat
  BY ChainFacts
<1>2. l \in Link /\ n \in Link
  BY <1>1, PlaceTypes DEF Link
<1>3. fwd \in Firsts /\ pprev \in Backs /\ y \in Elem \cup {NULL, POISON}
  BY <1>2, FwdTypes DEF ChainsHold
<1>4. IF q = Len(L[h]) THEN y \notin Elem ELSE y = Along(L[h], h, q + 1)
  <2>1. q # Len(L[h]) => q \in 0 .. Len(L[h]) - 1
    BY <1>1
  <2> QED BY <1>1, <2>1 DEF Strung, End
<1>5. q = Len(L[h]) => y = End(fwd, L[h], h)
  BY DEF End
<1> HIDE DEF y
<1>6. fwd' = [fwd EXCEPT ![n] = y, ![l] = n] /\ pprev' = [PointBack(pprev, y, n) EXCEPT ![n] = l]
  BY DEF y
<1>7. SetsTo(fwd, fwd', n, y, l, n)
  <2>1. SetsTo(fwd, [fwd EXCEPT ![n] = y, ![l] = n], n, y, l, n)
    BY <1>3, FwdStore
  <2> QED BY <1>6, <2>1
<1>8. SetsBack(pprev, pprev', y, n, n, l)
  BY <1>2, <1>3, <1>6, BackStore
<1>9. /\ ChainsHold(fwd', pprev', M)
      /\ q = Len(L[h]) => EndsBut(fwd, L, fwd', M, h, y)
      /\ q # Len(L[h]) => EndsSame(fwd, L, fwd', M)
  BY <1>4, <1>7, <1>8, ChainInsHolds
<1> QED BY <1>5, <1>9 DEF EndsBut, EndsSame

\* n goes after the place l, the q-th, and before y.
Inserts(L, h, q, n, l, y, M) ==
  /\ q \in 0 .. Len(L[h]) /\ l = Along(L[h], h, q)
  /\ IF q = Len(L[h]) THEN y \notin Elem ELSE y = Along(L[h], h, q + 1)
  /\ M = [L EXCEPT ![h] = Ins(L[h], q, n)]

LEMMA InsertsHold ==
  ASSUME NEW f, NEW p, NEW L, ChainsHold(f, p, L), NEW h \in Chain, NEW n \in Elem, Unlisted(Chain, L, n),
         NEW q, NEW l, NEW y, NEW M, Inserts(L, h, q, n, l, y, M),
         NEW r, NEW v, SetsTo(f, r, n, y, l, n), SetsBack(p, v, y, n, n, l)
  PROVE  ChainsHold(r, v, M) /\ (q # Len(L[h]) => EndsSame(f, L, r, M))
<1>1. /\ q \in 0 .. Len(L[h]) /\ l = Along(L[h], h, q)
      /\ IF q = Len(L[h]) THEN y \notin Elem ELSE y = Along(L[h], h, q + 1)
      /\ M = [L EXCEPT ![h] = Ins(L[h], q, n)]
  BY DEF Inserts
<1> QED BY <1>1, ChainInsHolds

LEMMA BeforeChain ==
  ASSUME NEW L, ChainsHold(fwd, pprev, L), NEW h \in Chain, NEW n \in Elem, Unlisted(Chain, L, n),
         NEW q \in 1 .. Len(L[h]), NEW e, e = L[h][q], AddBefore(n, e),
         NEW M, M = [L EXCEPT ![h] = Ins(L[h], q - 1, n)]
  PROVE  ChainsHold(fwd', pprev', M) /\ EndsSame(fwd, L, fwd', M)
<1> DEFINE l == pprev[e]
           a == q - 1
<1>1. e \in Elem /\ l = Along(L[h], h, a) /\ l \in Link /\ n \in Link /\ a \in 0 .. Len(L[h]) /\ e = Along(L[h], h, q)
  BY ChainPlaces DEF Link
<1>2. fwd \in Firsts /\ pprev \in Backs
  BY DEF ChainsHold
<1>3. a # Len(L[h]) /\ a + 1 = q
  <2>1. Len(L[h]) \in Nat
    BY ChainFacts
  <2> QED BY <2>1
<1>4. n # e
  BY <1>1, UnlistedPlace DEF ChainsHold
<1>5. fwd' = [fwd EXCEPT ![n] = e, ![l] = n] /\ pprev' = [pprev EXCEPT ![n] = l, ![e] = n]
  BY Zenon DEF AddBefore, Store
<1> HIDE DEF l, a
<1>6. SetsTo(fwd, fwd', n, e, l, n)
  BY <1>1, <1>2, <1>5, FwdStore
<1>7. SetsBack(pprev, pprev', e, n, n, l)
  <2> DEFINE w == [pprev EXCEPT ![n] = l]
  <2>1. w \in Backs /\ \A c \in Elem : w[c] = IF c = n THEN l ELSE pprev[c]
    BY <1>1, <1>2 DEF Backs
  <2>2. pprev' = [w EXCEPT ![e] = n]
    BY <1>5
  <2> HIDE DEF w
  <2>3. pprev' \in Backs /\ \A c \in Elem : pprev'[c] = IF c = e THEN n ELSE w[c]
    BY <1>1, <2>1, <2>2 DEF Backs
  <2> QED BY <1>4, <2>1, <2>3 DEF SetsBack
<1>8. IF a = Len(L[h]) THEN e \notin Elem ELSE e = Along(L[h], h, a + 1)
  BY <1>1, <1>3
<1>9. M = [L EXCEPT ![h] = Ins(L[h], a, n)]
  BY DEF a
<1>10. a \in 0 .. Len(L[h]) /\ l = Along(L[h], h, a)
  BY <1>1
<1>11. Inserts(L, h, a, n, l, e, M)
  BY <1>8, <1>9, <1>10 DEF Inserts
<1>12. ChainsHold(fwd', pprev', M) /\ (a # Len(L[h]) => EndsSame(fwd, L, fwd', M))
  BY <1>6, <1>7, <1>11, InsertsHold
<1> QED BY <1>3, <1>12

LEMMA LastChain ==
  ASSUME NEW L, ChainsHold(fwd, pprev, L), NEW h \in Chain, NEW n \in Loose, AddLast(h, n),
         NEW M, M = [L EXCEPT ![h] = Ins(L[h], Len(L[h]), n)]
  PROVE  ChainsHold(fwd', pprev', M)
<1> DEFINE l == LastLink(h)
           y == fwd[n]
<1>0. PICK N : N = Len(L[h])
  OBVIOUS
<1>1. n \in Elem /\ Unlisted(Chain, L, n) /\ y \notin Elem /\ n \in Link
  BY LooseIs DEF Link
<1>2. l = Along(L[h], h, N)
  BY <1>0, ChainedAre
<1>3. N \in 0 .. Len(L[h]) /\ L[h] \in Seq(Elem)
  <2>1. N \in Nat /\ L[h] \in Seq(Elem)
    BY <1>0, ChainFacts
  <2> QED BY <1>0, <2>1
<1>4. l \in Link /\ l # n
  <2>1. L \in [Chain -> Seq(Elem)]
    BY DEF ChainsHold
  <2>2. Along(L[h], h, N) # n
    BY <1>1, <2>1, UnlistedPlace
  <2>3. Along(L[h], h, N) \in Link
    BY <1>3, PlaceTypes
  <2> QED BY <1>2, <2>2, <2>3
<1>5. fwd \in Firsts /\ pprev \in Backs /\ y \in Elem \cup {NULL, POISON}
  BY <1>1, FwdTypes DEF ChainsHold
<1>6. fwd' = [fwd EXCEPT ![l] = n] /\ pprev' = [pprev EXCEPT ![n] = l]
  BY Zenon DEF AddLast, Store
<1> HIDE DEF l
<1>7. SetsTo(fwd, fwd', n, y, l, n)
  <2>1. fwd' \in Firsts /\ \A c \in Link : fwd'[c] = IF c = l THEN n ELSE fwd[c]
    BY <1>1, <1>4, <1>5, <1>6 DEF Firsts
  <2> QED BY <1>4, <2>1 DEF SetsTo
<1>8. SetsBack(pprev, pprev', y, n, n, l)
  <2>1. pprev' \in Backs /\ \A c \in Elem : pprev'[c] = IF c = n THEN l ELSE pprev[c]
    BY <1>1, <1>4, <1>5, <1>6 DEF Backs
  <2> HIDE DEF y
  <2> QED BY <1>1, <2>1 DEF SetsBack
<1> HIDE DEF y
<1>9. M = [L EXCEPT ![h] = Ins(L[h], N, n)]
  BY <1>0
<1>10. IF N = Len(L[h]) THEN y \notin Elem ELSE y = Along(L[h], h, N + 1)
  BY <1>0, <1>1
<1>11. N \in 0 .. Len(L[h])
  BY <1>0, <1>3
<1>12. n \in Elem /\ Unlisted(Chain, L, n)
  BY <1>1
<1>13. Inserts(L, h, N, n, l, y, M)
  BY <1>2, <1>9, <1>10, <1>11 DEF Inserts
<1> QED BY <1>7, <1>8, <1>12, <1>13, InsertsHold

LEMMA MoveChain ==
  ASSUME NEW L, ChainsHold(fwd, pprev, L), NEW g \in Chain, NEW h \in Chain, g # h, fwd[h] = NULL, MoveList(g, h),
         NEW M, M = [L EXCEPT ![g] = <<>>, ![h] = L[g]]
  PROVE  L[h] = <<>> /\ ChainsHold(fwd', pprev', M) /\ EndsMove(fwd, L, fwd', M, g, h)
<1> DEFINE z == fwd[g]
<1>1. L[h] = <<>>
  <2> DEFINE s == L[h]
  <2>1. s \in Seq(Elem) /\ Strung(fwd, pprev, s, h) /\ Len(s) \in Nat
    BY ChainFacts
  <2> HIDE DEF s
  <2>2. Len(s) = 0
    <3>1. SUFFICES ASSUME Len(s) # 0 PROVE FALSE
      OBVIOUS
    <3>2. 0 \in 0 .. Len(s) - 1 /\ 0 + 1 \in 1 .. Len(s) /\ 0 \in 0 .. Len(s)
      BY <2>1, <3>1
    <3>3. fwd[Along(s, h, 0)] = Along(s, h, 0 + 1)
      BY <2>1, <3>2 DEF Strung
    <3>4. Along(s, h, 0) = h /\ Along(s, h, 0 + 1) \in Elem
      BY <2>1, <3>2 DEF Along
    <3> QED BY <3>3, <3>4, LinkKinds
  <2> QED BY <2>1, <2>2 DEF s
<1>2. g \in Link /\ h \in Link /\ fwd \in Firsts /\ pprev \in Backs
  BY DEF Link, ChainsHold
<1>3. z \in Elem \cup {NULL, POISON}
  BY <1>2, FwdTypes
<1>4. fwd' = [fwd EXCEPT ![h] = z, ![g] = NULL] /\ pprev' = PointBack(pprev, z, h)
  BY Zenon DEF MoveList, Store
<1>5. z = fwd[g]
  OBVIOUS
<1> HIDE DEF z
<1>6. SetsTo(fwd, fwd', h, z, g, NULL)
  BY <1>2, <1>3, <1>4, FwdStore
<1>7. SetsBack(pprev, pprev', z, h, z, h)
  BY <1>2, <1>4 DEF SetsBack, PointBack, Backs
<1>8. ChainsHold(fwd', pprev', M) /\ EndsMove(fwd, L, fwd', M, g, h)
  BY <1>1, <1>5, <1>6, <1>7, ChainMoveHolds
<1> QED BY <1>1, <1>8

-----------------------------------------------------------------------------
(* IhHlist: chains kept in order *)

Fits(o, a, b) == /\ o = "ascending" => Key[a] <= Key[b]
                 /\ o = "descending" => Key[a] >= Key[b]
Ordered(o, s) == \A i, j \in 1 .. Len(s) : i < j => Fits(o, s[i], s[j])
Sorts(L) == \A h \in Chain : Ordered(order[h], L[h])

LEMMA FitsFacts ==
  ASSUME NEW o, NEW a \in Elem, NEW b \in Elem, NEW c \in Elem
  PROVE  /\ o = "any" => Fits(o, a, b)
         /\ Fits(o, a, b) /\ Fits(o, b, c) => Fits(o, a, c)
         /\ GoesBefore(a, b, o) => Fits(o, a, b)
         /\ ~GoesBefore(a, b, o) => Fits(o, b, a)
<1>1. Key[a] \in Nat /\ Key[b] \in Nat /\ Key[c] \in Nat
  BY HlistAssumption
<1> QED BY <1>1 DEF Fits, GoesBefore

LEMMA OrderedRem ==
  ASSUME NEW o, NEW s \in Seq(Elem), Ordered(o, s), NEW q \in 1 .. Len(s)
  PROVE  Ordered(o, Rem(s, q))
<1> DEFINE t == Rem(s, q)
           At(i) == IF i < q THEN i ELSE i + 1
<1>1. Len(t) = Len(s) - 1 /\ Len(s) \in Nat
  BY RemTypes
<1>2. \A i \in 1 .. Len(s) - 1 : t[i] = IF i < q THEN s[i] ELSE s[i + 1]
  BY DEF Rem
<1> HIDE DEF t
<1>3. ASSUME NEW i \in 1 .. Len(t), NEW j \in 1 .. Len(t), i < j PROVE Fits(o, t[i], t[j])
  <2>1. At(i) \in 1 .. Len(s) /\ At(j) \in 1 .. Len(s) /\ At(i) < At(j)
    BY <1>1, <1>3
  <2>2. t[i] = s[At(i)] /\ t[j] = s[At(j)]
    BY <1>1, <1>2
  <2> HIDE DEF At
  <2> QED BY <2>1, <2>2 DEF Ordered
<1>4. Ordered(o, t)
  BY <1>3 DEF Ordered
<1> QED BY <1>4 DEF t

LEMMA OrderedIns ==
  ASSUME NEW o, NEW s \in Seq(Elem), Ordered(o, s), NEW q \in 0 .. Len(s), NEW n \in Elem,
         \A i \in 1 .. Len(s) : IF i <= q THEN Fits(o, s[i], n) ELSE Fits(o, n, s[i])
  PROVE  Ordered(o, Ins(s, q, n))
<1> DEFINE t == Ins(s, q, n)
<1>1. Len(t) = Len(s) + 1 /\ Len(s) \in Nat
  BY InsTypes
<1>2. \A i \in 1 .. Len(s) + 1 : t[i] = IF i <= q THEN s[i] ELSE IF i = q + 1 THEN n ELSE s[i - 1]
  BY DEF Ins
<1> HIDE DEF t
<1>3. ASSUME NEW i \in 1 .. Len(t), NEW j \in 1 .. Len(t), i < j PROVE Fits(o, t[i], t[j])
  <2>1. CASE i # q + 1 /\ j # q + 1
    <3> DEFINE At(c) == IF c <= q THEN c ELSE c - 1
    <3>1. At(i) \in 1 .. Len(s) /\ At(j) \in 1 .. Len(s) /\ At(i) < At(j)
      BY <1>1, <1>3, <2>1
    <3>2. t[i] = s[At(i)] /\ t[j] = s[At(j)]
      BY <1>1, <1>2, <2>1
    <3> HIDE DEF At
    <3> QED BY <3>1, <3>2 DEF Ordered
  <2>2. CASE i = q + 1
    <3>1. j - 1 \in 1 .. Len(s) /\ ~(j - 1 <= q) /\ ~(j <= q) /\ j # q + 1
      BY <1>1, <1>3, <2>2
    <3>2. i \in 1 .. Len(s) + 1 /\ j \in 1 .. Len(s) + 1 /\ ~(i <= q)
      BY <1>1, <1>3, <2>2
    <3>3. t[i] = n
      BY <1>2, <2>2, <3>2, Zenon
    <3>4. t[j] = s[j - 1]
      BY <1>2, <3>1, <3>2, Zenon
    <3> QED BY <3>1, <3>3, <3>4
  <2>3. CASE j = q + 1
    <3>1. i \in 1 .. Len(s) /\ i <= q
      BY <1>1, <1>3, <2>3
    <3>2. t[j] = n /\ t[i] = s[i]
      BY <1>1, <1>2, <2>3, <3>1
    <3> QED BY <3>1, <3>2
  <2> QED BY <2>1, <2>2, <2>3
<1>4. Ordered(o, t)
  BY <1>3 DEF Ordered
<1> QED BY <1>4 DEF t

LEMMA OrderedAny ==
  ASSUME NEW o, o = "any", NEW s \in Seq(Elem), NEW q \in 0 .. Len(s), NEW n \in Elem
  PROVE  Ordered(o, Ins(s, q, n))
BY DEF Ordered, Fits

\* One chain changes, and stays in order.
LEMMA SortsChange ==
  ASSUME NEW L \in [Chain -> Seq(Elem)], Sorts(L), NEW h \in Chain, NEW s, Ordered(order[h], s),
         NEW M, M = [L EXCEPT ![h] = s]
  PROVE  Sorts(M)
BY DEF Sorts

\* Where a search for the place of n ends.
LEMMA StopsAt ==
  ASSUME NEW o, NEW s \in Seq(Elem), Ordered(o, s), NEW n \in Elem, NEW T,
         T = {i \in DOMAIN s : GoesBefore(n, s[i], o)}
  PROVE  /\ T = {} => Ordered(o, Ins(s, Len(s), n))
         /\ T # {} => Min(T) \in 1 .. Len(s) /\ Ordered(o, Ins(s, Min(T) - 1, n))
<1>1. Len(s) \in Nat /\ DOMAIN s = 1 .. Len(s) /\ \A i \in 1 .. Len(s) : s[i] \in Elem
  OBVIOUS
<1>2. ASSUME T = {} PROVE Ordered(o, Ins(s, Len(s), n))
  <2>1. ASSUME NEW i \in 1 .. Len(s) PROVE Fits(o, s[i], n)
    <3>1. ~GoesBefore(n, s[i], o)
      BY <1>1, <1>2
    <3> QED BY <1>1, <3>1, FitsFacts
  <2>2. \A i \in 1 .. Len(s) : IF i <= Len(s) THEN Fits(o, s[i], n) ELSE Fits(o, n, s[i])
    BY <2>1
  <2>3. Len(s) \in 0 .. Len(s)
    BY <1>1
  <2> QED BY <2>2, <2>3, OrderedIns
<1>3. ASSUME T # {} PROVE Min(T) \in 1 .. Len(s) /\ Ordered(o, Ins(s, Min(T) - 1, n))
  <2>1. T \in SUBSET Nat
    BY <1>1
  <2>2. \E c \in T : \A y \in T : c <= y
    BY <1>3, <2>1, LeastNat
  <2> DEFINE q == Min(T)
  <2>3. q \in T /\ \A y \in T : q <= y
    BY <2>2 DEF Min
  <2> HIDE DEF q
  <2>4. q \in 1 .. Len(s) /\ GoesBefore(n, s[q], o) /\ s[q] \in Elem
    BY <1>1, <2>3
  <2>5. Fits(o, n, s[q])
    BY <2>4, FitsFacts
  <2>6. ASSUME NEW i \in 1 .. Len(s) PROVE IF i <= q - 1 THEN Fits(o, s[i], n) ELSE Fits(o, n, s[i])
    <3>1. s[i] \in Elem
      BY <1>1
    <3>2. CASE i <= q - 1
      <4>1. i \notin T
        BY <2>3, <2>4, <3>2
      <4>2. ~GoesBefore(n, s[i], o)
        BY <1>1, <4>1
      <4> QED BY <3>1, <3>2, <4>2, FitsFacts
    <3>3. CASE i = q
      <4>1. ~(i <= q - 1)
        BY <2>4, <3>3
      <4> QED BY <2>5, <3>3, <4>1
    <3>4. CASE q < i
      <4>1. ~(i <= q - 1)
        BY <2>4, <3>4
      <4>2. Fits(o, s[q], s[i])
        BY <2>4, <3>4 DEF Ordered
      <4> QED BY <2>4, <2>5, <3>1, <4>1, <4>2, FitsFacts
    <3> QED BY <2>4, <3>2, <3>3, <3>4
  <2>7. q - 1 \in 0 .. Len(s)
    BY <1>1, <2>4
  <2>8. Ordered(o, Ins(s, q - 1, n))
    BY <2>6, <2>7, OrderedIns
  <2> QED BY <2>4, <2>8 DEF q
<1> QED BY <1>2, <1>3

-----------------------------------------------------------------------------
(* IhHlist: each call of ListSpec, told of the chains before and after *)

LEMMA ChainListed ==
  ASSUME NEW L, ChainsHold(fwd, pprev, L), NEW n, Unlisted(Chain, L, n)
  PROVE  n \notin Chains!Listed
<1>1. ChainsShown = L /\ L \in [Chain -> Seq(Elem)]
  BY ChainedAre DEF ChainsHold
<1>2. ASSUME NEW h \in Chain PROVE n \notin {ChainsShown[h][i] : i \in DOMAIN ChainsShown[h]}
  <2>1. \A i \in DOMAIN L[h] : L[h][i] # n
    BY <1>1 DEF Unlisted
  <2> QED BY <1>1, <2>1
<1>3. Chains!Listed = UNION {{ChainsShown[h][i] : i \in DOMAIN ChainsShown[h]} : h \in Chain}
  BY Zenon DEF Chains!Listed, Chains!Members, ChainsShown
<1> QED BY <1>2, <1>3

LEMMA ChainPosition ==
  ASSUME NEW L, ChainsHold(fwd, pprev, L), NEW h \in Chain, NEW q \in 1 .. Len(L[h]), NEW n, n = L[h][q]
  PROVE  n \in Chains!Members(h) /\ Chains!Position(h, n) = q
<1>1. ChainsShown = L /\ L \in [Chain -> Seq(Elem)] /\ Apart(Chain, L)
  BY ChainedAre DEF ChainsHold
<1> DEFINE s == L[h]
<1>2. s \in Seq(Elem) /\ s = ChainsShown[h] /\ q \in DOMAIN s /\ n = s[q]
  BY <1>1
<1>3. \A i \in DOMAIN s : s[i] = n => i = q
  BY <1>1, <1>2 DEF Apart
<1> HIDE DEF s
<1>4. (CHOOSE i \in DOMAIN s : s[i] = n) = q
  BY <1>2, <1>3
<1>5. Chains!Position(h, n) = CHOOSE i \in DOMAIN ChainsShown[h] : ChainsShown[h][i] = n
  BY Zenon DEF Chains!Position, ChainsShown
<1>6. Chains!Members(h) = {ChainsShown[h][i] : i \in DOMAIN ChainsShown[h]}
  BY Zenon DEF Chains!Members, ChainsShown
<1> QED BY <1>2, <1>4, <1>5, <1>6

LEMMA ChainPush ==
  ASSUME NEW L, ChainsShown = L, NEW M, ChainsShown' = M, NEW h \in Chain, NEW n, n \notin Chains!Listed,
         M = [L EXCEPT ![h] = <<n>> \o L[h]]
  PROVE  Chains!Push(h, n)
<1>1. ChainsShown' = [ChainsShown EXCEPT ![h] = <<n>> \o ChainsShown[h]]
  OBVIOUS
<1> QED BY <1>1, Zenon DEF Chains!Push, ChainsShown

LEMMA ChainAdd ==
  ASSUME NEW L, ChainsShown = L, NEW M, ChainsShown' = M, NEW h \in Chain, NEW n, n \notin Chains!Listed,
         M = [L EXCEPT ![h] = Append(L[h], n)]
  PROVE  Chains!Add(h, n)
<1>1. ChainsShown' = [ChainsShown EXCEPT ![h] = Append(ChainsShown[h], n)]
  OBVIOUS
<1> QED BY <1>1, Zenon DEF Chains!Add, ChainsShown

LEMMA ChainInsertAt ==
  ASSUME NEW s, NEW i, NEW n
  PROVE  Chains!InsertAt(s, i, n) = InsertAt(s, i, n)
BY Zenon DEF Chains!InsertAt, InsertAt

LEMMA ChainInsert ==
  ASSUME NEW L, ChainsShown = L, NEW M, ChainsShown' = M, NEW h \in Chain, NEW n, n \notin Chains!Listed,
         NEW i \in 1 .. Len(L[h]) + 1, M = [L EXCEPT ![h] = InsertAt(L[h], i, n)]
  PROVE  Chains!Insert(h, n)
<1>1. ChainsShown' = [ChainsShown EXCEPT ![h] = Chains!InsertAt(ChainsShown[h], i, n)]
  BY ChainInsertAt
<1>2. i \in 1 .. Len(ChainsShown[h]) + 1
  OBVIOUS
<1> QED BY <1>1, <1>2, Zenon DEF Chains!Insert, ChainsShown

LEMMA ChainBefore ==
  ASSUME NEW L, ChainsShown = L, NEW M, ChainsShown' = M, NEW h \in Chain, NEW n, n \in Chains!Members(h),
         NEW c, c \notin Chains!Listed,
         NEW q, Chains!Position(h, n) = q, M = [L EXCEPT ![h] = InsertAt(L[h], q, c)]
  PROVE  Chains!Before(h, n, c)
<1>1. ChainsShown' = [ChainsShown EXCEPT ![h] = Chains!InsertAt(ChainsShown[h], Chains!Position(h, n), c)]
  BY ChainInsertAt
<1> QED BY <1>1, Zenon DEF Chains!Before, ChainsShown

LEMMA ChainAfter ==
  ASSUME NEW L, ChainsShown = L, NEW M, ChainsShown' = M, NEW h \in Chain, NEW n, n \in Chains!Members(h),
         NEW c, c \notin Chains!Listed,
         NEW q, Chains!Position(h, n) = q, M = [L EXCEPT ![h] = InsertAt(L[h], q + 1, c)]
  PROVE  Chains!After(h, n, c)
<1>1. ChainsShown' = [ChainsShown EXCEPT ![h] = Chains!InsertAt(ChainsShown[h], Chains!Position(h, n) + 1, c)]
  BY ChainInsertAt
<1> QED BY <1>1, Zenon DEF Chains!After, ChainsShown

LEMMA ChainDelete ==
  ASSUME NEW L, ChainsShown = L, NEW M, ChainsShown' = M, NEW h \in Chain, NEW n, n \in Chains!Members(h),
         NEW q, Chains!Position(h, n) = q, M = [L EXCEPT ![h] = RemoveAt(L[h], q)]
  PROVE  Chains!Delete(h, n)
<1>1. Chains!RemoveAt(L[h], q) = RemoveAt(L[h], q)
  BY Zenon DEF Chains!RemoveAt, RemoveAt
<1>2. ChainsShown' = [ChainsShown EXCEPT ![h] = Chains!RemoveAt(ChainsShown[h], Chains!Position(h, n))]
  BY <1>1
<1> QED BY <1>2, Zenon DEF Chains!Delete, Chains!Without, ChainsShown

LEMMA ChainSplice ==
  ASSUME NEW L, ChainsShown = L, NEW M, ChainsShown' = M, NEW g \in Chain, NEW h \in Chain, g # h,
         M = [L EXCEPT ![g] = <<>>, ![h] = L[g] \o L[h]]
  PROVE  Chains!SpliceFront(h, g)
<1>1. ChainsShown' = [ChainsShown EXCEPT ![g] = <<>>, ![h] = ChainsShown[g] \o ChainsShown[h]]
  OBVIOUS
<1> QED BY <1>1, Zenon DEF Chains!SpliceFront, ChainsShown

-----------------------------------------------------------------------------
(* IhHlist: what every call makes of the chains *)

\* All chains end in NULL.
Ended(f, L) == \A h \in Chain : End(f, L[h], h) = NULL

LEMMA EndedKept ==
  ASSUME NEW f, NEW L, Ended(f, L), NEW r, NEW M, NEW g, NEW h, g \in Chain,
         EndsSame(f, L, r, M) \/ EndsMove(f, L, r, M, g, h)
  PROVE  Ended(r, M)
BY DEF Ended, EndsSame, EndsMove

\* Where a call leads: arrays that hold chains kept in order.
Goes(M) == ChainsHold(fwd', pprev', M) /\ ChainsShown' = M /\ Sorts(M)

LEMMA DelChainSteps ==
  ASSUME NEW L, ChainsHold(fwd, pprev, L), Sorts(L), Ended(fwd, L), NEW h \in Chain, NEW n \in Elem, DelNode(h, n)
  PROVE  (\E M : Goes(M) /\ Ended(fwd', M)) /\ Chains!Delete(h, n)
<1>1. n \in In(h) /\ (HlistDel(n, POISON) \/ HlistDel(n, NULL))
  BY DEF DelNode
<1>2. PICK q \in 1 .. Len(L[h]) : n = L[h][q]
  BY <1>1, InIs
<1>3. PICK rest \in {NULL, POISON} : HlistDel(n, rest)
  BY <1>1
<1> DEFINE M == [L EXCEPT ![h] = Rem(L[h], q)]
<1>4. M = [L EXCEPT ![h] = Rem(L[h], q)]
  OBVIOUS
<1> HIDE DEF M
<1>5. ChainsHold(fwd', pprev', M) /\ EndsSame(fwd, L, fwd', M)
  BY <1>2, <1>3, <1>4, DelChain
<1>6. L \in [Chain -> Seq(Elem)] /\ L[h] \in Seq(Elem)
  BY ChainFacts
<1>7. Ordered(order[h], Rem(L[h], q))
  <2> DEFINE s == L[h]
  <2>1. s \in Seq(Elem) /\ Ordered(order[h], s) /\ q \in 1 .. Len(s)
    BY <1>6 DEF Sorts
  <2> HIDE DEF s
  <2>2. Ordered(order[h], Rem(s, q))
    BY <2>1, OrderedRem
  <2> QED BY <2>2 DEF s
<1>8. Sorts(M)
  BY <1>4, <1>6, <1>7, SortsChange
<1>9. Goes(M)
  BY <1>5, <1>8, ChainedNext DEF Goes
<1>10. Ended(fwd', M)
  BY <1>5, EndedKept
<1>11. ChainsShown = L /\ n \in Chains!Members(h) /\ Chains!Position(h, n) = q
  BY <1>2, ChainedAre, ChainPosition
<1>12. M = [L EXCEPT ![h] = RemoveAt(L[h], q)]
  BY <1>4, <1>6, RemIs
<1>13. Chains!Delete(h, n)
  BY <1>9, <1>11, <1>12, ChainDelete DEF Goes
<1> QED BY <1>9, <1>10, <1>13

\* To a chain in no order a node goes anywhere.
LEMMA SortsAny ==
  ASSUME NEW L, ChainsHold(fwd, pprev, L), Sorts(L), NEW h \in Chain, order[h] = "any", NEW n \in Elem,
         NEW q \in 0 .. Len(L[h]), NEW M, M = [L EXCEPT ![h] = Ins(L[h], q, n)]
  PROVE  Sorts(M)
<1>1. L \in [Chain -> Seq(Elem)] /\ L[h] \in Seq(Elem)
  BY ChainFacts
<1>2. Ordered(order[h], Ins(L[h], q, n))
  <2> DEFINE s == L[h]
  <2>1. s \in Seq(Elem) /\ q \in 0 .. Len(s)
    BY <1>1
  <2> HIDE DEF s
  <2>2. Ordered(order[h], Ins(s, q, n))
    BY <2>1, OrderedAny
  <2> QED BY <2>2 DEF s
<1> QED BY <1>1, <1>2, SortsChange

LEMMA FirstSteps ==
  ASSUME NEW L, ChainsHold(fwd, pprev, L), Sorts(L), Ended(fwd, L), NEW h \in Chain, order[h] = "any",
         NEW n \in Loose, AddFirst(h, n)
  PROVE  (\E M : Goes(M) /\ Ended(fwd', M)) /\ Chains!Push(h, n)
<1>1. n \in Elem /\ Unlisted(Chain, L, n)
  BY LooseIs
<1>2. L \in [Chain -> Seq(Elem)] /\ L[h] \in Seq(Elem) /\ 0 \in 0 .. Len(L[h])
  BY ChainFacts
<1> DEFINE M == [L EXCEPT ![h] = Ins(L[h], 0, n)]
<1>3. M = [L EXCEPT ![h] = Ins(L[h], 0, n)]
  OBVIOUS
<1> HIDE DEF M
<1>4. h = Along(L[h], h, 0)
  BY <1>2, PlaceTypes
<1>5. fwd' = [fwd EXCEPT ![n] = fwd[h], ![h] = n] /\ pprev' = [PointBack(pprev, fwd[h], n) EXCEPT ![n] = h]
  BY Zenon DEF AddFirst, Store
<1>6. ChainsHold(fwd', pprev', M) /\ EndsSame(fwd, L, fwd', M)
  BY <1>1, <1>2, <1>3, <1>4, <1>5, AddChain
<1>7. Goes(M)
  BY <1>1, <1>2, <1>3, <1>6, SortsAny, ChainedNext DEF Goes
<1>8. Ended(fwd', M)
  BY <1>6, EndedKept
<1>9. M = [L EXCEPT ![h] = <<n>> \o L[h]]
  BY <1>1, <1>2, <1>3, InsFront
<1>10. Chains!Push(h, n)
  BY <1>1, <1>7, <1>9, ChainedAre, ChainListed, ChainPush DEF Goes
<1> QED BY <1>7, <1>8, <1>10

LEMMA LastSteps ==
  ASSUME NEW L, ChainsHold(fwd, pprev, L), NEW h \in Chain, NEW n \in Loose, AddLast(h, n)
  PROVE  \E M : /\ M = [L EXCEPT ![h] = Ins(L[h], Len(L[h]), n)]
                /\ ChainsHold(fwd', pprev', M) /\ ChainsShown' = M
                /\ Chains!Add(h, n) /\ Chains!Insert(h, n)
<1>1. n \in Elem /\ Unlisted(Chain, L, n)
  BY LooseIs
<1>2. L \in [Chain -> Seq(Elem)] /\ L[h] \in Seq(Elem) /\ Len(L[h]) \in 0 .. Len(L[h])
  BY ChainFacts
<1> DEFINE M == [L EXCEPT ![h] = Ins(L[h], Len(L[h]), n)]
<1>3. M = [L EXCEPT ![h] = Ins(L[h], Len(L[h]), n)]
  OBVIOUS
<1> HIDE DEF M
<1>4. ChainsHold(fwd', pprev', M) /\ ChainsShown' = M
  BY <1>3, LastChain, ChainedNext
<1>5. ChainsShown = L /\ n \notin Chains!Listed
  BY <1>1, ChainedAre, ChainListed
<1>6. M = [L EXCEPT ![h] = Append(L[h], n)]
  BY <1>1, <1>2, <1>3, InsBack
<1>7. Chains!Add(h, n)
  BY <1>4, <1>5, <1>6, ChainAdd
<1>8. Len(L[h]) + 1 \in 1 .. Len(L[h]) + 1
  BY <1>2
<1>9. M = [L EXCEPT ![h] = InsertAt(L[h], Len(L[h]) + 1, n)]
  BY <1>1, <1>2, <1>3, InsIs
<1>10. Chains!Insert(h, n)
  BY <1>4, <1>5, <1>8, <1>9, ChainInsert
<1> QED BY <1>3, <1>4, <1>7, <1>10

LEMMA LastAnySteps ==
  ASSUME NEW L, ChainsHold(fwd, pprev, L), Sorts(L), NEW h \in Chain, order[h] = "any",
         NEW n \in Loose, AddLast(h, n)
  PROVE  (\E M : Goes(M)) /\ Chains!Add(h, n)
<1>1. PICK M : /\ M = [L EXCEPT ![h] = Ins(L[h], Len(L[h]), n)]
               /\ ChainsHold(fwd', pprev', M) /\ ChainsShown' = M /\ Chains!Add(h, n)
  BY LastSteps
<1>2. n \in Elem /\ Len(L[h]) \in 0 .. Len(L[h])
  BY LooseIs, ChainFacts
<1>3. Sorts(M)
  BY <1>1, <1>2, SortsAny
<1> QED BY <1>1, <1>3 DEF Goes

LEMMA BesideSteps ==
  ASSUME NEW L, ChainsHold(fwd, pprev, L), Sorts(L), Ended(fwd, L), NEW h \in Chain, order[h] = "any",
         NEW n \in In(h), NEW c \in Loose
  PROVE  /\ AddBefore(c, n) => (\E M : Goes(M) /\ Ended(fwd', M)) /\ Chains!Before(h, n, c)
         /\ AddAfter(n, c) => (\E M : Goes(M) /\ Ended(fwd', M)) /\ Chains!After(h, n, c)
<1>1. c \in Elem /\ Unlisted(Chain, L, c) /\ c \notin Chains!Listed
  BY LooseIs, ChainListed
<1>2. PICK q \in 1 .. Len(L[h]) : n = L[h][q]
  BY InIs
<1>3. /\ L \in [Chain -> Seq(Elem)] /\ L[h] \in Seq(Elem)
      /\ q \in 0 .. Len(L[h]) /\ q - 1 \in 0 .. Len(L[h]) /\ (q - 1) + 1 = q
  BY ChainFacts
<1>4. ChainsShown = L /\ n \in Chains!Members(h) /\ Chains!Position(h, n) = q
  BY <1>2, ChainedAre, ChainPosition
<1>5. n = Along(L[h], h, q)
  BY <1>2 DEF Along
<1>6. ASSUME AddBefore(c, n) PROVE (\E M : Goes(M) /\ Ended(fwd', M)) /\ Chains!Before(h, n, c)
  <2> DEFINE M == [L EXCEPT ![h] = Ins(L[h], q - 1, c)]
  <2>1. M = [L EXCEPT ![h] = Ins(L[h], q - 1, c)]
    OBVIOUS
  <2> HIDE DEF M
  <2>2. ChainsHold(fwd', pprev', M) /\ EndsSame(fwd, L, fwd', M)
    BY <1>1, <1>2, <1>6, <2>1, BeforeChain
  <2>3. Sorts(M)
    BY <1>1, <1>3, <2>1, SortsAny
  <2>4. Goes(M)
    BY <2>2, <2>3, ChainedNext DEF Goes
  <2>5. Ended(fwd', M)
    BY <2>2, EndedKept
  <2>6. Ins(L[h], q - 1, c) = InsertAt(L[h], q, c)
    <3>1. Ins(L[h], q - 1, c) = InsertAt(L[h], (q - 1) + 1, c)
      BY <1>1, <1>3, InsIs
    <3> QED BY <1>3, <3>1
  <2>7. M = [L EXCEPT ![h] = InsertAt(L[h], q, c)]
    BY <2>1, <2>6
  <2>8. Chains!Before(h, n, c)
    BY <1>1, <1>4, <2>4, <2>7, ChainBefore DEF Goes
  <2> QED BY <2>4, <2>5, <2>8
<1>7. ASSUME AddAfter(n, c) PROVE (\E M : Goes(M) /\ Ended(fwd', M)) /\ Chains!After(h, n, c)
  <2> DEFINE M == [L EXCEPT ![h] = Ins(L[h], q, c)]
  <2>1. M = [L EXCEPT ![h] = Ins(L[h], q, c)]
    OBVIOUS
  <2> HIDE DEF M
  <2>2. fwd' = [fwd EXCEPT ![c] = fwd[n], ![n] = c] /\ pprev' = [PointBack(pprev, fwd[n], c) EXCEPT ![c] = n]
    BY <1>7, Zenon DEF AddAfter, Store
  <2>3. ChainsHold(fwd', pprev', M) /\ EndsSame(fwd, L, fwd', M)
    BY <1>1, <1>3, <1>5, <2>1, <2>2, AddChain
  <2>4. Sorts(M)
    BY <1>1, <1>3, <2>1, SortsAny
  <2>5. Goes(M)
    BY <2>3, <2>4, ChainedNext DEF Goes
  <2>6. Ended(fwd', M)
    BY <2>3, EndedKept
  <2>7. M = [L EXCEPT ![h] = InsertAt(L[h], q + 1, c)]
    BY <1>1, <1>3, <2>1, InsIs
  <2>8. Chains!After(h, n, c)
    BY <1>1, <1>4, <2>5, <2>7, ChainAfter DEF Goes
  <2> QED BY <2>5, <2>6, <2>8
<1> QED BY <1>6, <1>7

LEMMA SortedSteps ==
  ASSUME NEW L, ChainsHold(fwd, pprev, L), Sorts(L), NEW h \in Chain, NEW n \in Loose, AddSorted(h, n)
  PROVE  (\E M : Goes(M)) /\ Chains!Insert(h, n)
<1> DEFINE s == L[h]
           T == {i \in DOMAIN s : GoesBefore(n, s[i], order[h])}
<1>1. n \in Elem /\ Unlisted(Chain, L, n) /\ n \notin Chains!Listed
  BY LooseIs, ChainListed
<1>2. L \in [Chain -> Seq(Elem)] /\ s \in Seq(Elem) /\ Ordered(order[h], s)
  BY ChainFacts DEF Sorts
<1>3. Chained(h) = s /\ ChainsShown = L
  BY ChainedAre
<1>4. IF T = {} THEN AddLast(h, n) ELSE AddBefore(n, s[Min(T)])
  BY <1>3 DEF AddSorted
<1>5. /\ T = {} => Ordered(order[h], Ins(s, Len(s), n))
      /\ T # {} => Min(T) \in 1 .. Len(s) /\ Ordered(order[h], Ins(s, Min(T) - 1, n))
  <2> HIDE DEF s
  <2> QED BY <1>1, <1>2, StopsAt
<1> HIDE DEF T
<1>6. CASE T = {}
  <2>1. PICK M : /\ M = [L EXCEPT ![h] = Ins(L[h], Len(L[h]), n)]
                 /\ ChainsHold(fwd', pprev', M) /\ ChainsShown' = M /\ Chains!Insert(h, n)
    BY <1>4, <1>6, LastSteps
  <2>2. Sorts(M)
    BY <1>2, <1>5, <1>6, <2>1, SortsChange
  <2> QED BY <2>1, <2>2 DEF Goes
<1>7. CASE T # {}
  <2>1. PICK q : q = Min(T)
    OBVIOUS
  <2>2. q \in 1 .. Len(L[h]) /\ Ordered(order[h], Ins(L[h], q - 1, n)) /\ AddBefore(n, L[h][q])
    BY <1>4, <1>5, <1>7, <2>1
  <2> DEFINE M == [L EXCEPT ![h] = Ins(L[h], q - 1, n)]
  <2>3. M = [L EXCEPT ![h] = Ins(L[h], q - 1, n)]
    OBVIOUS
  <2> HIDE DEF M
  <2>4. ChainsHold(fwd', pprev', M)
    BY <1>1, <2>2, <2>3, BeforeChain
  <2>5. Sorts(M)
    BY <1>2, <2>2, <2>3, SortsChange
  <2>6. Goes(M)
    BY <2>4, <2>5, ChainedNext DEF Goes
  <2>7. q - 1 \in 0 .. Len(L[h]) /\ (q - 1) + 1 = q /\ q \in 1 .. Len(L[h]) + 1
    BY <1>2, <2>2
  <2>8. Ins(L[h], q - 1, n) = InsertAt(L[h], q, n)
    <3>1. Ins(L[h], q - 1, n) = InsertAt(L[h], (q - 1) + 1, n)
      BY <1>1, <1>2, <2>7, InsIs
    <3> QED BY <2>7, <3>1
  <2>9. M = [L EXCEPT ![h] = InsertAt(L[h], q, n)]
    BY <2>3, <2>8
  <2>10. Chains!Insert(h, n)
    BY <1>1, <1>3, <2>6, <2>7, <2>9, ChainInsert DEF Goes
  <2> QED BY <2>6, <2>10
<1> QED BY <1>6, <1>7

LEMMA MoveAllSteps ==
  ASSUME NEW L, ChainsHold(fwd, pprev, L), Sorts(L), Ended(fwd, L), NEW g \in Chain, NEW h \in Chain, MoveAll(g, h)
  PROVE  (\E M : Goes(M) /\ Ended(fwd', M)) /\ Chains!SpliceFront(h, g)
<1>1. g # h /\ fwd[h] = NULL /\ order[h] = order[g] /\ MoveList(g, h)
  BY DEF MoveAll
<1>2. L \in [Chain -> Seq(Elem)] /\ L[g] \in Seq(Elem)
  BY ChainFacts
<1> DEFINE M == [L EXCEPT ![g] = <<>>, ![h] = L[g]]
<1>3. M = [L EXCEPT ![g] = <<>>, ![h] = L[g]]
  OBVIOUS
<1>4. /\ M[g] = <<>> /\ M[h] = L[g]
      /\ \A c \in Chain : c # g /\ c # h => M[c] = L[c]
  BY <1>1, <1>2
<1> HIDE DEF M
<1>5. L[h] = <<>> /\ ChainsHold(fwd', pprev', M) /\ EndsMove(fwd, L, fwd', M, g, h)
  BY <1>1, <1>3, MoveChain
<1>6. Sorts(M)
  <2>1. Ordered(order[g], M[g])
    BY <1>4 DEF Ordered
  <2>2. Ordered(order[h], M[h])
    BY <1>1, <1>4 DEF Sorts
  <2>3. ASSUME NEW c \in Chain, c # g, c # h PROVE Ordered(order[c], M[c])
    BY <1>4, <2>3 DEF Sorts
  <2> QED BY <2>1, <2>2, <2>3 DEF Sorts
<1>7. Goes(M)
  BY <1>5, <1>6, ChainedNext DEF Goes
<1>8. Ended(fwd', M)
  BY <1>5, EndedKept
<1>9. L[g] \o L[h] = L[g]
  <2>1. L[g] \o <<>> = L[g]
    BY <1>2, ConcatEmptySeq
  <2> QED BY <1>5, <2>1
<1>10. M = [L EXCEPT ![g] = <<>>, ![h] = L[g] \o L[h]]
  BY <1>3, <1>9
<1>11. Chains!SpliceFront(h, g)
  BY <1>1, <1>7, <1>10, ChainedAre, ChainSplice DEF Goes
<1> QED BY <1>7, <1>8, <1>11

LEMMA HlistInitHolds ==
  ASSUME HlistInit
  PROVE  \E L : /\ L = [h \in Chain |-> <<>>]
                /\ ChainsHold(fwd, pprev, L) /\ Sorts(L) /\ Ended(fwd, L)
<1> DEFINE L == [h \in Chain |-> <<>>]
<1>1. fwd = [c \in Link |-> NULL] /\ pprev = [n \in Elem |-> NULL]
  BY DEF HlistInit
<1>2. fwd \in Firsts /\ pprev \in Backs /\ NULL \notin Elem
  BY <1>1, HlistAssumption DEF Firsts, Backs, Link
<1>3. L \in [Chain -> Seq(Elem)] /\ \A h \in Chain : L[h] = <<>> /\ Len(L[h]) = 0
  OBVIOUS
<1>4. L = [h \in Chain |-> <<>>]
  OBVIOUS
<1> HIDE DEF L
<1>5. Apart(Chain, L) /\ Sorts(L)
  BY <1>3 DEF Apart, Sorts, Ordered
<1>6. ASSUME NEW h \in Chain PROVE Strung(fwd, pprev, L[h], h) /\ End(fwd, L[h], h) = NULL
  <2>1. h \in Link /\ Along(L[h], h, 0) = h
    BY <1>3 DEF Link, Along
  <2>2. End(fwd, L[h], h) = NULL
    BY <1>1, <1>3, <2>1 DEF End
  <2> QED BY <1>2, <1>3, <2>2 DEF Strung
<1>7. \A n \in Elem : fwd[n] \notin Elem
  BY <1>1, <1>2 DEF Link
<1>8. ChainsHold(fwd, pprev, L)
  BY <1>2, <1>3, <1>5, <1>6, <1>7 DEF ChainsHold
<1> QED BY <1>4, <1>5, <1>6, <1>8 DEF Ended

\* The inductive invariant: the arrays hold some chains, kept in order, which
\* end in NULL unless the last call was one that leaves a pointer as it was.
LeftOpen == {"add_tail", "sorted"}
HlistInv == \E L : /\ ChainsHold(fwd, pprev, L) /\ Sorts(L)
                   /\ Ended(fwd, L) \/ hcall \in LeftOpen

\* What a step leads to.
ChainStep == (\E M : Goes(M) /\ (Ended(fwd', M) \/ hcall' \in LeftOpen)) /\ Chains!Next

LEMMA UsableIs ==
  ASSUME NEW L, ChainsHold(fwd, pprev, L)
  PROVE  Usable <=> Ended(fwd, L)
<1>1. \A h \in Chain : fwd[LastLink(h)] = End(fwd, L[h], h)
  BY ChainedAre DEF End
<1> QED BY <1>1 DEF Usable, Ended

LEMMA HlistSteps ==
  ASSUME NEW L, ChainsHold(fwd, pprev, L), Sorts(L), HlistNext
  PROVE  ChainStep
<1>1. Ended(fwd, L)
  BY UsableIs DEF HlistNext
<1>2. ASSUME NEW h \in Chain, NEW n \in Elem, DelNode(h, n) PROVE ChainStep
  <2>1. (\E M : Goes(M) /\ Ended(fwd', M)) /\ Chains!Delete(h, n)
    BY <1>1, <1>2, DelChainSteps
  <2>2. hcall' = "del"
    BY <1>2 DEF DelNode
  <2> QED BY <2>1, <2>2 DEF Chains!Next, ChainStep
<1>3. ASSUME NEW h \in Chain, NEW n \in Elem, AddNode(h, n) PROVE ChainStep
  <2>1. n \in Loose /\ order[h] = "any"
    BY <1>3 DEF AddNode
  <2>2. CASE AddFirst(h, n) /\ hcall' = "add"
    <3>1. (\E M : Goes(M) /\ Ended(fwd', M)) /\ Chains!Push(h, n)
      BY <1>1, <2>1, <2>2, FirstSteps
    <3> QED BY <2>2, <3>1 DEF Chains!Next, ChainStep
  <2>3. CASE AddLast(h, n) /\ hcall' = "add_tail"
    <3>1. (\E M : Goes(M)) /\ Chains!Add(h, n)
      BY <2>1, <2>3, LastAnySteps
    <3> QED BY <2>3, <3>1 DEF Chains!Next, ChainStep, LeftOpen
  <2> QED BY <1>3, <2>2, <2>3 DEF AddNode
<1>4. ASSUME NEW h \in Chain, NEW n \in Elem, AddInOrder(h, n) PROVE ChainStep
  <2>1. n \in Loose /\ AddSorted(h, n) /\ hcall' = "sorted"
    BY <1>4 DEF AddInOrder
  <2>2. (\E M : Goes(M)) /\ Chains!Insert(h, n)
    BY <2>1, SortedSteps
  <2> QED BY <2>1, <2>2 DEF Chains!Next, ChainStep, LeftOpen
<1>5. ASSUME NEW h \in Chain, NEW n \in Elem, NEW c \in Elem, AddBeside(h, n, c) PROVE ChainStep
  <2>1. n \in In(h) /\ c \in Loose /\ order[h] = "any"
    BY <1>5 DEF AddBeside
  <2>2. CASE AddBefore(c, n) /\ hcall' = "before"
    <3>1. (\E M : Goes(M) /\ Ended(fwd', M)) /\ Chains!Before(h, n, c)
      BY <1>1, <2>1, <2>2, BesideSteps
    <3> QED BY <2>2, <3>1 DEF Chains!Next, ChainStep
  <2>3. CASE AddAfter(n, c) /\ hcall' = "after"
    <3>1. (\E M : Goes(M) /\ Ended(fwd', M)) /\ Chains!After(h, n, c)
      BY <1>1, <2>1, <2>3, BesideSteps
    <3> QED BY <2>3, <3>1 DEF Chains!Next, ChainStep
  <2> QED BY <1>5, <2>2, <2>3 DEF AddBeside
<1>6. ASSUME NEW h \in Chain, NEW g \in Chain, MoveAll(g, h) PROVE ChainStep
  <2>1. (\E M : Goes(M) /\ Ended(fwd', M)) /\ Chains!SpliceFront(h, g)
    BY <1>1, <1>6, MoveAllSteps
  <2>2. hcall' = "splice"
    BY <1>6 DEF MoveAll
  <2> QED BY <2>1, <2>2 DEF Chains!Next, ChainStep
<1> QED BY <1>2, <1>3, <1>4, <1>5, <1>6 DEF HlistNext

LEMMA InvarianceHlist == HlistSpecification => []HlistInv
<1>1. HlistInit => HlistInv
  BY HlistInitHolds DEF HlistInv
<1>2. ASSUME HlistInv, [HlistNext]_hlistVars PROVE HlistInv'
  <2>1. PICK L : /\ ChainsHold(fwd, pprev, L) /\ Sorts(L)
                 /\ Ended(fwd, L) \/ hcall \in LeftOpen
    BY <1>2 DEF HlistInv
  <2>2. CASE HlistNext
    <3>1. PICK M : Goes(M) /\ (Ended(fwd', M) \/ hcall' \in LeftOpen)
      BY <2>1, <2>2, HlistSteps DEF ChainStep
    <3>2. order' = order
      BY <2>2 DEF HlistNext
    <3>3. Sorts(M)'
      BY <3>1, <3>2 DEF Goes, Sorts
    <3> QED BY <3>1, <3>3 DEF Goes, HlistInv
  <2>3. CASE UNCHANGED hlistVars
    BY <2>1, <2>3 DEF hlistVars, HlistInv, Sorts
  <2> QED BY <1>2, <2>2, <2>3
<1> QED BY <1>1, <1>2, PTL DEF HlistSpecification

LEMMA HlistTyped == HlistInv => HlistTypeOK
BY DEF HlistInv, ChainsHold, Firsts, Backs, HlistTypeOK

LEMMA ChainsAreSound == HlistInv => ChainsSound
<1>1. SUFFICES ASSUME NEW L, ChainsHold(fwd, pprev, L), Ended(fwd, L) \/ hcall \in LeftOpen
               PROVE  ChainsSound
  BY DEF HlistInv
<1>2. ASSUME NEW h \in Chain, NEW n \in In(h) PROVE fwd[pprev[n]] = n
  <2>1. PICK q \in 1 .. Len(L[h]) : n = L[h][q]
    BY <1>1, InIs
  <2> QED BY <1>1, <2>1, ChainPlaces
<1>3. ASSUME NEW h \in Chain PROVE fwd[LastLink(h)] = NULL \/ hcall \in {"add_tail", "sorted"}
  BY <1>1, ChainedAre DEF Ended, End, LeftOpen
<1> QED BY <1>2, <1>3 DEF ChainsSound

LEMMA ChainsAreSorted == HlistInv => ChainsSorted
<1>1. SUFFICES ASSUME NEW L, ChainsHold(fwd, pprev, L), Sorts(L) PROVE ChainsSorted
  BY DEF HlistInv
<1>2. ASSUME NEW h \in Chain, NEW i \in DOMAIN Chained(h), NEW j \in DOMAIN Chained(h)
      PROVE  /\ order[h] = "ascending" /\ i < j => Key[Chained(h)[i]] <= Key[Chained(h)[j]]
             /\ order[h] = "descending" /\ i < j => Key[Chained(h)[i]] >= Key[Chained(h)[j]]
  <2> DEFINE s == L[h]
  <2>1. s \in Seq(Elem) /\ Chained(h) = s /\ Ordered(order[h], s)
    BY <1>1, ChainFacts, ChainedAre DEF Sorts
  <2> HIDE DEF s
  <2>2. i \in 1 .. Len(s) /\ j \in 1 .. Len(s)
    BY <2>1
  <2>3. i < j => Fits(order[h], s[i], s[j])
    BY <2>1, <2>2 DEF Ordered
  <2> QED BY <2>1, <2>3 DEF Fits
<1> QED BY <1>2 DEF ChainsSorted

\* The stores of every chain function do to the lists what ListSpec says of it.
LEMMA ChainsImplement == HlistSpecification => ImplementsChains
<1>1. HlistInit => Chains!Init
  <2>1. SUFFICES ASSUME HlistInit PROVE Chains!Init
    OBVIOUS
  <2>2. ChainsShown = [h \in Chain |-> <<>>]
    BY <2>1, HlistInitHolds, ChainedAre
  <2>3. hcall = "none"
    BY <2>1 DEF HlistInit
  <2> QED BY <2>2, <2>3, Zenon DEF ChainsShown, Chains!Init
<1>2. HlistInv /\ [HlistNext]_hlistVars => [Chains!Next]_<<[h \in Chain |-> Chained(h)], hcall>>
  <2>1. SUFFICES ASSUME HlistInv, [HlistNext]_hlistVars
                 PROVE  Chains!Next \/ UNCHANGED <<[h \in Chain |-> Chained(h)], hcall>>
    OBVIOUS
  <2>2. PICK L : ChainsHold(fwd, pprev, L) /\ Sorts(L)
    BY <2>1 DEF HlistInv
  <2>3. CASE HlistNext
    BY <2>2, <2>3, HlistSteps DEF ChainStep
  <2>4. CASE UNCHANGED hlistVars
    BY <2>4 DEF hlistVars, Chained
  <2> QED BY <2>1, <2>3, <2>4
<1> QED BY <1>1, <1>2, InvarianceHlist, PTL DEF HlistSpecification, ImplementsChains, Chains!Spec

-----------------------------------------------------------------------------
(* The parts together: each behaviour is of one of them, and the variables   *)
(* of the others stay as they are.                                           *)

MCVars == <<vars, oblVars, listVars, hlistVars, frameVars, part>>

LEMMA FirstStates ==
  ASSUME MCInit
  PROVE  Init /\ OblInit /\ ListInit /\ HlistInit /\ FramesInit
<1>1. Init
  BY DEF MCInit, CodeIdle
<1>2. OblInit
  BY DEF MCInit, RowsIdle
<1>3. HlistInit
  BY DEF MCInit, HlistIdle
<1> QED BY <1>1, <1>2, <1>3 DEF MCInit

LEMMA OnePartMoves ==
  ASSUME [MCNext]_MCVars
  PROVE  /\ [Next]_vars /\ [OblNext]_oblVars /\ [ListNext]_listVars
         /\ [HlistNext]_hlistVars /\ [FramesNext]_frameVars
<1>1. CASE UNCHANGED MCVars
  BY <1>1 DEF MCVars
<1>2. CASE MCNext
  BY <1>2 DEF MCNext
<1> QED BY <1>1, <1>2

\* Every behaviour of the five parts together is a behaviour of each of them.
LEMMA EachPart ==
  MCSpec => Spec /\ OblSpec /\ ListSpecification /\ HlistSpecification /\ FramesSpec
<1>1. MCInit => Init /\ OblInit /\ ListInit /\ HlistInit /\ FramesInit
  BY FirstStates
<1>2. [MCNext]_MCVars => /\ [Next]_vars /\ [OblNext]_oblVars /\ [ListNext]_listVars
                         /\ [HlistNext]_hlistVars /\ [FramesNext]_frameVars
  BY OnePartMoves
<1> QED BY <1>1, <1>2, PTL DEF MCSpec, MCVars, Spec, OblSpec, ListSpecification, HlistSpecification, FramesSpec

\* Every row operation of oblas_lite.c leaves what its definition over the field
\* says, in every vector width, for every length, factor and mask.
THEOREM RowsAreExplained == MCSpec => []RowsExplained
<1>1. OblInv => RowsExplained
  BY OblExplains
<1> QED BY <1>1, EachPart, InvarianceObl, PTL

\* PacketsExplained, for the behaviours the run explores.
THEOREM FramesAreExplained == MCSpec => []FramesExplained
BY EachPart, PacketsExplained, PTL

\* SurvivorsKept, for the behaviours the run explores.
THEOREM SurvivorsAreKept == MCSpec => SurvivorsUntouched
BY EachPart, SurvivorsKept, PTL

\* The variables of all five parts keep their types.
THEOREM SequentialTypes == MCSpec => []SequentialTypeOK
<1>1. CodeInv => TypeOK
  BY DEF CodeInv
<1>2. OblInv => OblTypeOK
  BY DEF OblInv
<1> QED BY <1>1, <1>2, EachPart, InvarianceCode, InvarianceObl, InvarianceList, ListsTyped,
           InvarianceHlist, HlistTyped, FramesTypes, PTL DEF SequentialTypeOK

\* For any number of heads and nodes, after any calls in any order: the next and
\* prev pointers of a ring agree, the pprev of a node is the place of the pointer
\* to it, and a chain filled in order is sorted (ih_list.h).
THEOREM ListsAreSound == MCSpec => []ListsSound
<1>1. ListInv => RingsClosed
  BY RingsAreClosed
<1>2. HlistInv => ChainsSound /\ ChainsSorted
  BY ChainsAreSound, ChainsAreSorted
<1> QED BY <1>1, <1>2, EachPart, InvarianceList, InvarianceHlist, PTL DEF ListsSound

\* The pointer stores of every call of both lists do to the sequences of elements
\* what ListSpec says of that call.
THEOREM ListsImplemented == MCSpec => ImplementLists
BY EachPart, RingsImplement, ChainsImplement, PTL DEF ImplementLists

=============================================================================
