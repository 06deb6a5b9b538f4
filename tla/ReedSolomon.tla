----------------------------- MODULE ReedSolomon -----------------------------
(***************************************************************************)
(* The erasure code (rs.c): reed_solomon_encode computes ps parity shards  *)
(* from ds data shards with the matrix of reed_solomon_new; any shards are *)
(* lost; reed_solomon_decode solves for the missing data shards by Gauss   *)
(* elimination without pivoting, one step of invert_mat's loops an action. *)
(* The code treats the bytes of a shard alike and apart: a shard is one    *)
(* byte here.                                                              *)
(***************************************************************************)
EXTENDS GF256, Sequences

CONSTANTS
  Codes,    \* the codes <<ds, ps>> checked                       (<<2, 1>>)
  Values,   \* bound: the bytes of the data shards
  Garbage   \* what a lost shard's buffer holds

ASSUME ReedSolomonAssumption ==
  /\ Codes \subseteq (Nat \ {0}) \X (Nat \ {0})
  /\ Values \subseteq Byte /\ Garbage \in Byte

VARIABLES
  code,      \* <<ds, ps>>
  original,  \* history: the data shards that were encoded
  shards,    \* data, then parity shards
  marks,     \* the shards that are missing
  pc,        \* "encode", "lose", "place", "reduce", "forward", "back", "done", "failed"
  x,         \* the loop variable of "reduce", "forward" and "back"
  wrk,       \* the work matrix, row by row
  overrun    \* history: bytes written past the end of wrk, at most

vars == <<code, original, shards, marks, pc, x, wrk, overrun>>

ds == code[1]
ps == code[2]
DataIdx == 0 .. (ds - 1)
ParityIdx == ds .. (ds + ps - 1)
Cell == 0 .. (ps * ds - 1)

\* Mutant: the matrix without its offset is not a Cauchy matrix.
PNoOffset(j, i) == Inv(Xor(BitsOf(i), BitsOf(j)))

\* rs->p, the Cauchy matrix 1 / ((ps + i) ^ j).
P(j, i) == Inv(Xor(BitsOf(ps + i), BitsOf(j)))

\* The indexes of S in ascending order, the order in which the loops meet them.
Sorted(S) ==
  [i \in 1 .. Cardinality(S) |-> CHOOSE n \in S : Cardinality({m \in S : m < n}) = i - 1]

\* Mutant: the marks are read the other way round.
ErasuresInverted == Sorted(DataIdx \ marks)

\* The missing data shards (erasures), and their number (gaps).
Erasures == Sorted(DataIdx \cap marks)
W == Len(Erasures)

\* Mutant: the missing shards count as known.
KnownAll == DataIdx

\* The data shards in hand, the first columns of colperm.
Known == DataIdx \ marks

\* The parity shards in hand.
Spare == Sorted(ParityIdx \ marks)

Init ==
  /\ code \in Codes
  /\ original \in [DataIdx -> Values]
  /\ shards = [i \in DataIdx \cup ParityIdx |-> IF i < ds THEN original[i] ELSE Garbage]
  /\ marks = {}
  /\ pc = "encode"
  /\ x = 0
  /\ wrk = [i \in Cell |-> Zero]
  /\ overrun = 0

-----------------------------------------------------------------------------

\* reed_solomon_encode, gemm.
Encode ==
  /\ pc = "encode"
  /\ shards' = [s \in DOMAIN shards |->
                  IF s \in DataIdx THEN shards[s]
                  ELSE XorOver(DataIdx, [i \in DataIdx |-> Mul(P(s - ds, i), shards[i])])]
  /\ pc' = "lose"
  /\ UNCHANGED <<code, original, marks, x, wrk, overrun>>

\* What the receiver never gets.
Lose ==
  /\ pc = "lose"
  /\ marks' \in SUBSET DOMAIN shards
  /\ shards' = [s \in DOMAIN shards |-> IF s \in marks' THEN Garbage ELSE shards[s]]
  /\ pc' = "place"
  /\ UNCHANGED <<code, original, x, wrk, overrun>>

\* reed_solomon_decode: parity shards take the place of the missing data, and
\* it fails when they are too few; then invert_mat sets up the work matrix,
\* one row for each parity shard used and one column for each missing shard.
Place ==
  LET placed == IF W <= Len(Spare) THEN W ELSE Len(Spare) IN
  /\ pc = "place"
  /\ shards' = [s \in DOMAIN shards |->
                  IF \E i \in 1 .. placed : Erasures[i] = s
                  THEN shards[Spare[CHOOSE i \in 1 .. placed : Erasures[i] = s]]
                  ELSE shards[s]]
  /\ \/ Len(Spare) < W /\ pc' = "failed" /\ UNCHANGED wrk
     \/ /\ Len(Spare) >= W
        /\ pc' = "reduce"
        /\ wrk' = [n \in Cell |->
                     IF n < W * W
                     THEN P(Spare[(n \div W) + 1] - ds, Erasures[(n % W) + 1])
                     ELSE wrk[n]]
  /\ x' = 0
  /\ UNCHANGED <<code, original, marks, overrun>>

\* Take the known data shards out of the parity shard in row x.
Reduce ==
  LET at == Erasures[x + 1]
      row == Spare[x + 1] - ds
  IN
  /\ pc = "reduce" /\ x < W
  /\ shards' = [shards EXCEPT
                  ![at] = Xor(@, XorOver(Known, [i \in Known |-> Mul(P(row, i), shards[i])]))]
  /\ x' = x + 1
  /\ UNCHANGED <<code, original, marks, pc, wrk, overrun>>

StartForward ==
  /\ pc = "reduce" /\ x = W
  /\ pc' = "forward" /\ x' = 0
  /\ UNCHANGED <<code, original, shards, marks, wrk, overrun>>

\* Row x is scaled to make its diagonal one, W cells from the diagonal on, and
\* taken from the rows below.  The cells past the end of wrk, the last array of the
\* allocation, are written too; nothing of what is decoded is read from there.
Forward ==
  LET u == Inv(wrk[x * W + x])
      scaled == [n \in Cell |-> IF n \in (x * W + x) .. (x * W + x + W - 1)
                                THEN Scal(wrk[n], u) ELSE wrk[n]]
      pivot == Scal(shards[Erasures[x + 1]], u)
      Below(row) == x < row /\ row < W
      Factor(row) == scaled[row * W + x]
      past == x * W + x + W - ps * ds
  IN
  /\ pc = "forward" /\ x < W
  /\ wrk' = [n \in Cell |->
               IF n < W * W /\ Below(n \div W)
               THEN Axpy(scaled[n], scaled[x * W + (n % W)], Factor(n \div W))
               ELSE scaled[n]]
  /\ shards' = [s \in DOMAIN shards |->
                  IF s = Erasures[x + 1] THEN pivot
                  ELSE IF \E row \in 0 .. (W - 1) : Below(row) /\ s = Erasures[row + 1]
                  THEN Axpy(shards[s], pivot,
                            Factor(CHOOSE row \in 0 .. (W - 1) : s = Erasures[row + 1]))
                  ELSE shards[s]]
  /\ overrun' = IF u \notin {Zero, One} /\ past > overrun THEN past ELSE overrun
  /\ x' = x + 1
  /\ UNCHANGED <<code, original, marks, pc>>

StartBack ==
  /\ pc = "forward" /\ x = W
  /\ pc' = "back" /\ x' = W - 1
  /\ UNCHANGED <<code, original, shards, marks, wrk, overrun>>

\* Row x is taken from the rows above.
Back ==
  /\ pc = "back" /\ x >= 0
  /\ shards' = [s \in DOMAIN shards |->
                  IF \E row \in 0 .. (x - 1) : s = Erasures[row + 1]
                  THEN Axpy(shards[s], shards[Erasures[x + 1]],
                            wrk[(CHOOSE row \in 0 .. (x - 1) : s = Erasures[row + 1]) * W + x])
                  ELSE shards[s]]
  /\ x' = x - 1
  /\ UNCHANGED <<code, original, marks, pc, wrk, overrun>>

Decoded ==
  /\ pc = "back" /\ x < 0
  /\ pc' = "done" /\ x' = 0
  /\ UNCHANGED <<code, original, shards, marks, wrk, overrun>>

Next ==
  \/ Encode \/ Lose \/ Place \/ Reduce \/ StartForward
  \/ Forward \/ StartBack \/ Back \/ Decoded

Spec == Init /\ [][Next]_vars

-----------------------------------------------------------------------------
(* Properties *)

TypeOK ==
  /\ code \in Codes
  /\ original \in [DataIdx -> Values]
  /\ shards \in [DataIdx \cup ParityIdx -> Byte]
  /\ marks \subseteq DataIdx \cup ParityIdx
  /\ pc \in {"encode", "lose", "place", "reduce", "forward", "back", "done", "failed"}
  /\ x \in -1 .. ds
  /\ wrk \in [Cell -> Byte]
  /\ overrun \in Nat

\* The promise of an MDS code: the data is recovered from any ds of the shards,
\* and decode reports failure exactly when fewer are left.
Recovered ==
  /\ pc = "done" => \A i \in DataIdx : shards[i] = original[i]
  /\ pc = "failed" => Cardinality(DOMAIN shards \ marks) < ds

\* Elimination without row exchanges never meets a zero on the diagonal, for
\* which the table gives the inverse 0 and scal leaves the row as it is.
PivotsNonZero == pc = "forward" /\ x < W => wrk[x * W + x] # Zero

\* The W cells scaled from the diagonal on run into the next row and change
\* nothing there, for those columns are eliminated.
ScaleHarmless ==
  pc = "forward" /\ x < W =>
    \A n \in (x + 1) * W .. (x * W + x + W - 1) : n < W * W => wrk[n] = Zero

\* The work matrix fits its workspace, and the cells scaled run past the end of it
\* only when the code has as many parity as data shards and all its data shards are
\* lost; then by less than ds bytes.
WorkspaceKept ==
  /\ pc \in {"reduce", "forward", "back"} => W * W <= ps * ds
  /\ overrun > 0 => ds = ps /\ W = ds /\ overrun < ds

\* The elimination without pivoting, and with rows scaled W cells at a time
\* from the diagonal, never goes wrong but for the bytes WorkspaceKept names.
EliminationSound == PivotsNonZero /\ ScaleHarmless /\ WorkspaceKept

\* Decoding, or failing to, never harms a shard that was received.
SurvivorsUntouched ==
  [][pc # "encode" => \A s \in DOMAIN shards \ marks' : shards'[s] = shards[s]]_vars

=============================================================================
