------------------------------ MODULE SeqSpace ------------------------------
(***************************************************************************)
(* Sequence numbers of the tunnel (script/tun-vpn): a uint16_t counter     *)
(* that wraps, and the table slot a number selects.                        *)
(***************************************************************************)
EXTENDS Integers, TLAPS

CONSTANTS
  SEQ_MAP_SIZE,   \* entries of seq_map and fec_dedup_state  (8192 in the code)
  LAPS            \* rounds of the table a uint16_t makes       (8 in the code)

\* The values a uint16_t counter takes before it wraps to 0.
SEQ_MOD == LAPS * SEQ_MAP_SIZE

ASSUME SeqSpaceAssumption ==
  /\ SEQ_MAP_SIZE \in Nat \ {0}
  /\ LAPS \in Nat \ {0}

SeqNo == 0 .. (SEQ_MOD - 1)
Slot == 0 .. (SEQ_MAP_SIZE - 1)

\* The sequence number of the n-th packet numbered since the counter was 0.
SeqOf(n) == n % SEQ_MOD

SlotOf(seq) == seq % SEQ_MAP_SIZE

-----------------------------------------------------------------------------
(* For every table size and every number of rounds: which packets can meet *)
(* in a slot, and which share a number.                                    *)

\* The counter and its reduction to a slot stay in range.
LEMMA SeqTypes ==
  ASSUME NEW n \in Nat
  PROVE  /\ SEQ_MOD \in Nat \ {0}
         /\ SeqOf(n) \in SeqNo
         /\ \A s \in SeqNo : SlotOf(s) \in Slot
<1>1. SEQ_MOD \in Nat \ {0}
  BY SeqSpaceAssumption, SMT DEF SEQ_MOD
<1>2. SeqOf(n) \in SeqNo
  BY <1>1 DEF SeqOf, SeqNo
<1>3. \A s \in SeqNo : SlotOf(s) \in Slot
  BY SeqSpaceAssumption DEF SeqNo, SlotOf, Slot
<1> QED BY <1>1, <1>2, <1>3

\* A multiple of a positive number that is itself positive is at least that
\* number.
LEMMA PositiveMultiple ==
  ASSUME NEW a \in Nat \ {0}, NEW k \in Int, a * k > 0
  PROVE  a * k >= a
<1>1. k >= 1
  <2>1. CASE k <= 0
    BY <2>1, SMT
  <2>2. CASE k >= 1
    BY <2>2
  <2> QED BY <2>1, <2>2
<1> QED BY <1>1, SMT

\* Division with remainder, in the form the lemmas below use it.
LEMMA DivMod ==
  ASSUME NEW x \in Nat, NEW a \in Nat \ {0}
  PROVE  /\ x % a \in 0 .. (a - 1)
         /\ \E q \in Nat : x = (a * q) + (x % a)
<1>1. /\ x \div a \in Nat
      /\ x % a \in 0 .. (a - 1)
      /\ x = (a * (x \div a)) + (x % a)
  BY SMT
<1> QED BY <1>1

\* Two numbers with the same remainder are at least the divisor apart.
LEMMA ModDistance ==
  ASSUME NEW a \in Nat \ {0}, NEW i \in Nat, NEW j \in Nat,
         i < j, i % a = j % a
  PROVE  i + a <= j
<1>1. PICK p \in Nat : i = (a * p) + (i % a)
  BY DivMod
<1>2. PICK q \in Nat : j = (a * q) + (j % a)
  BY DivMod
<1>3. i % a \in Int
  BY DivMod
<1> DEFINE r == i % a
<1>4. r \in Int /\ i = (a * p) + r /\ j = (a * q) + r
  BY <1>1, <1>2, <1>3
<1> HIDE DEF r
<1>5. j - i = a * (q - p)
  BY <1>4, SMT
<1>6. a * (q - p) > 0
  BY <1>5
<1>7. a * (q - p) >= a
  BY <1>6, PositiveMultiple
<1> QED BY <1>5, <1>7

\* Reducing modulo a multiple first changes nothing: the wrap of the counter
\* does not disturb the slots, because SEQ_MOD is a multiple of SEQ_MAP_SIZE.
LEMMA ModMod ==
  ASSUME NEW a \in Nat \ {0}, NEW b \in Nat \ {0}, NEW x \in Nat
  PROVE  (x % (b * a)) % a = x % a
<1> DEFINE d == b * a
           y == x % d
<1>1. d \in Nat \ {0}
  BY SMT
<1>2. PICK q \in Nat : x = (d * q) + y
  BY <1>1, DivMod
<1>3. y \in Nat
  BY <1>1, DivMod
<1>4. PICK p \in Nat : y = (a * p) + (y % a)
  BY <1>3, DivMod
<1>5. PICK s \in Nat : x = (a * s) + (x % a)
  BY DivMod
<1> DEFINE u == y % a
           v == x % a
<1>6. u \in 0 .. (a - 1) /\ v \in 0 .. (a - 1)
  BY <1>3, DivMod
<1>7. y = (a * p) + u /\ x = (a * s) + v
  BY <1>4, <1>5
<1>8. x = ((b * a) * q) + y
  BY <1>2
<1> HIDE DEF u, v, y, d
<1>9. v - u = a * (((b * q) + p) - s)
  BY <1>3, <1>6, <1>7, <1>8, SMT
<1>10. u - v = a * (s - ((b * q) + p))
  BY <1>3, <1>6, <1>7, <1>8, SMT
<1>11. ~(v - u > 0)
  BY <1>6, <1>9, PositiveMultiple
<1>12. ~(u - v > 0)
  BY <1>6, <1>10, PositiveMultiple
<1> QED BY <1>6, <1>11, <1>12 DEF u, v, y, d

\* Packets that meet in a slot are at least SEQ_MAP_SIZE packets apart.
LEMMA SlotDistance ==
  ASSUME NEW i \in Nat, NEW j \in Nat, i < j,
         SlotOf(SeqOf(i)) = SlotOf(SeqOf(j))
  PROVE  i + SEQ_MAP_SIZE <= j
<1>1. /\ SlotOf(SeqOf(i)) = i % SEQ_MAP_SIZE
      /\ SlotOf(SeqOf(j)) = j % SEQ_MAP_SIZE
  BY SeqSpaceAssumption, ModMod DEF SlotOf, SeqOf, SEQ_MOD
<1> QED BY <1>1, SeqSpaceAssumption, ModDistance

\* Packets with the same number are at least SEQ_MOD packets apart.
LEMMA SeqDistance ==
  ASSUME NEW i \in Nat, NEW j \in Nat, i < j, SeqOf(i) = SeqOf(j)
  PROVE  i + SEQ_MOD <= j
BY SeqTypes, ModDistance DEF SeqOf

\* Counting one packet on steps the counter on modulo SEQ_MOD.
LEMMA SeqSuccessor ==
  ASSUME NEW n \in Nat
  PROVE  (SeqOf(n) + 1) % SEQ_MOD = SeqOf(n + 1)
<1> DEFINE d == SEQ_MOD
           r == n % d
<1>1. d \in Nat \ {0}
  BY SeqTypes
<1>2. PICK q \in Nat : n = (d * q) + r
  BY <1>1, DivMod
<1>3. r \in 0 .. (d - 1)
  BY <1>1, DivMod
<1> DEFINE w == n + 1
           z == r + 1
<1>4. PICK p \in Nat : w = (d * p) + (w % d)
  <2>1. w \in Nat
    OBVIOUS
  <2> HIDE DEF w, d
  <2> QED BY <1>1, <2>1, DivMod
<1>5. PICK s \in Nat : z = (d * s) + (z % d)
  <2>1. z \in Nat
    BY <1>3
  <2> HIDE DEF z, d
  <2> QED BY <1>1, <2>1, DivMod
<1> DEFINE u == (r + 1) % d
           v == (n + 1) % d
<1>6. u \in 0 .. (d - 1) /\ v \in 0 .. (d - 1)
  BY <1>1, <1>3, DivMod
<1>7. n + 1 = (d * p) + v /\ r + 1 = (d * s) + u
  BY <1>4, <1>5
<1> HIDE DEF u, v, r, d
<1>8. v - u = d * ((q + s) - p) /\ u - v = d * (p - (q + s))
  BY <1>1, <1>2, <1>3, <1>6, <1>7, SMT
<1>9. ~(v - u > 0)
  BY <1>1, <1>6, <1>8, PositiveMultiple
<1>10. ~(u - v > 0)
  BY <1>1, <1>6, <1>8, PositiveMultiple
<1> QED BY <1>6, <1>9, <1>10 DEF u, v, r, d, SeqOf

=============================================================================
