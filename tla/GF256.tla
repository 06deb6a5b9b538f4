-------------------------------- MODULE GF256 --------------------------------
(***************************************************************************)
(* The field GF(2^8) of the erasure code: bytes as the set of their one    *)
(* bits, products reduced by x^8 + x^4 + x^3 + x^2 + 1.  The code looks    *)
(* products and inverses up in the tables GF2_8_MUL and GF2_8_INV.         *)
(***************************************************************************)
EXTENDS Integers, FiniteSets

Bit == 0 .. 7
Byte == SUBSET Bit
Zero == {}
One == {0}

BitsOf(n) == {k \in Bit : (n \div 2^k) % 2 = 1}

Xor(a, b) == (a \ b) \cup (b \ a)

Odd(S) == Cardinality(S) % 2 = 1

\* The sum of f[i] over the indexes S.
XorOver(S, f) == {k \in Bit : Odd({i \in S : k \in f[i]})}

\* x^8 to x^14, reduced.
Reduced == <<{0, 2, 3, 4}, {1, 3, 4, 5}, {2, 4, 5, 6}, {3, 5, 6, 7},
             {0, 2, 3, 6, 7}, {0, 1, 2, 7}, {0, 1, 4}>>

Power(n) == IF n < 8 THEN {n} ELSE Reduced[n - 7]

Mul(a, b) == {k \in Bit : Odd({t \in a \X b : k \in Power(t[1] + t[2])})}

\* GF2_8_INV as a^254, which is 0 at 0 as the table is.
Inv(a) ==
  LET Square(b) == Mul(b, b)
      b2 == Square(a)   b4 == Square(b2)   b8 == Square(b4)   b16 == Square(b8)
      b32 == Square(b16)   b64 == Square(b32)   b128 == Square(b64)
  IN Mul(b2, Mul(b4, Mul(b8, Mul(b16, Mul(b32, Mul(b64, b128))))))

\* axpy: add u times b to a.
Axpy(a, b, u) == Xor(a, Mul(u, b))

\* scal: multiply by u, but leave the byte alone when u is 0 or 1.
Scal(a, u) == IF u \in {Zero, One} THEN a ELSE Mul(u, a)
=============================================================================
