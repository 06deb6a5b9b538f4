------------------------------- MODULE Oblas -------------------------------
(***************************************************************************)
(* The byte rows of the erasure code (obl/oblas_lite.c): multiply a row,   *)
(* add a multiple of one row to another, exchange two, and scatter a       *)
(* factor by a bit mask.  Built for a vector unit a row is worked off in   *)
(* blocks of `width` bytes, where a product is put together from two       *)
(* tables of sixteen entries, one for each half of a byte; what is left of *)
(* the row is done byte by byte from the table of all products.  width 0   *)
(* is the build without vectors.                                           *)
(***************************************************************************)
EXTENDS GF256

CONSTANTS
  Width,      \* the builds                              (0, 16, 32, 64)
  Factors,    \* bound: the factors u
  RowLen,     \* bound: the lengths k
  Seed        \* bound: the contents of the rows

ASSUME OblasAssumption ==
  /\ Width \subseteq {0, 16, 32, 64} /\ Factors \subseteq Byte
  /\ RowLen \subseteq Nat /\ Seed \subseteq Nat

VARIABLES
  op,      \* the routine that runs
  width, u, k,
  row, other,     \* the rows a and b, GUARD bytes longer than k
  off,     \* the first byte not yet done
  start    \* history: row and other before the call

oblVars == <<op, width, u, k, row, other, off, start>>

GUARD == 64

\* Rows and masks the call is made with.
RowOf(seed, len) == [i \in 0 .. (len - 1) |-> BitsOf((seed * 37 + i * 11) % 256)]
MaskOf(seed) == [p \in 0 .. 8 |-> {z \in 0 .. 31 : (z * (p + 2) + seed) % 3 = 0}]

-----------------------------------------------------------------------------
(* One block *)

\* GF2_8_SHUF_LO and GF2_8_SHUF_HI: the products of u with n and with n * 16.
ShufLo(f) == [n \in 0 .. 15 |-> Mul(f, BitsOf(n))]
ShufHi(f) == [n \in 0 .. 15 |-> Mul(f, BitsOf(n * 16))]

\* GF2_8_MUL, the row of u.
MulRow(f) == [b \in Byte |-> Mul(f, b)]

\* shuffle_epi8: every byte is an index into the table, and 0 when its top bit is set.
Shuffle(table, v) ==
  LET Weight(b, n) == IF n \in b THEN 2^n ELSE 0
      Index(b) == Weight(b, 0) + Weight(b, 1) + Weight(b, 2) + Weight(b, 3)
  IN [i \in DOMAIN v |-> IF 7 \in v[i] THEN Zero ELSE table[Index(v[i])]]

\* srli_epi64 by 4: words of eight bytes are shifted, so that half of a byte
\* comes into the one below it.
ShiftRight4(v) ==
  [i \in DOMAIN v |->
     {b \in Bit : IF b < 4 THEN b + 4 \in v[i] ELSE i % 8 # 7 /\ b - 4 \in v[i + 1]}]

LowHalf(v) == [i \in DOMAIN v |-> v[i] \cap (0 .. 3)]

\* Mutant: the shifted word is used without its mask.
ProductsUnmasked(f, v) ==
  LET lo == Shuffle(ShufLo(f), LowHalf(v))
      hi == Shuffle(ShufHi(f), ShiftRight4(v))
  IN [i \in DOMAIN v |-> Xor(lo[i], hi[i])]

\* OBL_SHUF: the products of u with the bytes of a block.
Products(f, v) ==
  LET lo == Shuffle(ShufLo(f), LowHalf(v))
      hi == Shuffle(ShufHi(f), LowHalf(ShiftRight4(v)))
  IN [i \in DOMAIN v |-> Xor(lo[i], hi[i])]

\* Mutant: the blocks run to the end of the last block begun.
BlocksEndLate == IF width = 0 THEN 0 ELSE width * ((k + width - 1) \div width)

\* Where the whole blocks end.
BlocksEnd == IF width = 0 THEN 0 ELSE k - (k % width)

\* Bytes [from, from + n) of a row, counted from 0.
Slice(r, from, n) == [i \in 0 .. (n - 1) |-> r[from + i]]

-----------------------------------------------------------------------------
(* The routines *)

OblInit ==
  /\ op \in {"axpy", "scal", "swap", "axpyb32"}
  /\ width \in Width /\ u \in Factors /\ k \in RowLen
  /\ op = "axpyb32" => k % 32 = 0
  /\ \E seed \in Seed :
       /\ row = RowOf(seed, k + GUARD)
       /\ other = IF op = "axpyb32" THEN MaskOf(seed) ELSE RowOf(seed + 3, k + GUARD)
  /\ off = 0
  /\ start = [row |-> row, other |-> other]

\* The row b: obl_scal hands the row to itself.
Operand == IF op = "scal" THEN row ELSE other

\* obl_axpy with factor 1 and obl_swap take one byte after the other.
Plain == op = "swap" \/ (op = "axpy" /\ u = One)

PlainByte ==
  /\ Plain /\ off < k
  /\ row' = [row EXCEPT ![off] = IF op = "swap" THEN other[off] ELSE Xor(@, other[off])]
  /\ other' = IF op = "swap" THEN [other EXCEPT ![off] = row[off]] ELSE other
  /\ off' = off + 1
  /\ UNCHANGED <<op, width, u, k, start>>

\* One turn of OBL_SHUF's loop.
Block ==
  LET product == Products(u, Slice(Operand, off, width)) IN
  /\ op \in {"axpy", "scal"} /\ ~Plain
  /\ off < BlocksEnd
  /\ row' = [i \in DOMAIN row |->
               IF i \notin off .. (off + width - 1) THEN row[i]
               ELSE IF op = "scal" THEN product[i - off]
               ELSE Xor(row[i], product[i - off])]
  /\ off' = off + width
  /\ UNCHANGED <<op, width, u, k, other, start>>

\* obl_axpy_ref and obl_scal_ref: the rest of the row, byte by byte.
Rest ==
  /\ op \in {"axpy", "scal"} /\ ~Plain
  /\ off >= BlocksEnd /\ off < k
  /\ row' = [i \in DOMAIN row |->
               IF i \notin off .. (k - 1) THEN row[i]
               ELSE IF op = "scal" THEN MulRow(u)[row[i]]
               ELSE Xor(row[i], MulRow(u)[other[i]])]
  /\ off' = k
  /\ UNCHANGED <<op, width, u, k, other, start>>

\* How many bytes one word of the mask is spread over: its 32 bits, but all of
\* the vector in the build with 64 byte vectors.
Span == IF width = 64 THEN 64 ELSE 32

\* obl_axpyb32: one word of the mask, a factor for each of its bits.
Scatter ==
  /\ op = "axpyb32" /\ off < k
  /\ row' = [i \in DOMAIN row |->
               IF i \in off .. (off + Span - 1) /\ (i - off) % 32 \in other[off \div Span]
               THEN Xor(row[i], u) ELSE row[i]]
  /\ off' = off + Span
  /\ UNCHANGED <<op, width, u, k, other, start>>

OblNext == PlainByte \/ Block \/ Rest \/ Scatter

OblSpec == OblInit /\ [][OblNext]_oblVars

-----------------------------------------------------------------------------
(* Properties *)

OblTypeOK ==
  /\ op \in {"axpy", "scal", "swap", "axpyb32"}
  /\ width \in Width /\ u \in Factors /\ k \in RowLen
  /\ row \in [0 .. (k + GUARD - 1) -> Byte]
  /\ off \in 0 .. (IF op = "axpyb32" THEN k + 32 ELSE k)

\* What the routine should leave in byte i.
Meant(i) ==
  CASE op = "axpy" -> Xor(start.row[i], Mul(u, start.other[i]))
    [] op = "scal" -> Mul(u, start.row[i])
    [] op = "swap" -> start.other[i]
    [] op = "axpyb32" -> IF i % 32 \in start.other[i \div 32]
                         THEN Xor(start.row[i], u) ELSE start.row[i]

\* Whatever vectors the program is built for, at every point of the loop the
\* bytes before `off` hold the product of the field and the others are still
\* untouched, those behind the row too: the erasure code may be checked byte by
\* byte.  Only a mask spread over 64 byte vectors goes wrong, and there are no
\* callers for that.
RowsAgree ==
  op # "axpyb32" =>
    \A i \in DOMAIN row : row[i] = IF i < off THEN Meant(i) ELSE start.row[i]

\* A scattered factor lands where the mask says, unless two words of the mask
\* fall to one vector of 64 bytes: from byte 32 on the first word is used
\* again, and a row of 32 bytes is written behind its end.
ScatterExplained ==
  op = "axpyb32" /\ off >= k =>
    \A i \in DOMAIN row :
      \/ row[i] = IF i < k THEN Meant(i) ELSE start.row[i]
      \/ width = 64 /\ i >= 32

\* What every routine leaves in the rows, in every build.
RowsExplained == RowsAgree /\ ScatterExplained

=============================================================================
