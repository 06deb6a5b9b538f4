------------------------------- MODULE SeqMap -------------------------------
(***************************************************************************)
(* The duplicate filter both ends of the tunnel keep (struct dedup_state   *)
(* of script/tun-vpn/ustun.c and uctun.c): a table of SEQ_MAP_SIZE 16-bit  *)
(* entries, slot seq % SEQ_MAP_SIZE holding the last sequence number       *)
(* accepted in it.  A packet is a duplicate when its slot already holds    *)
(* its number.                                                             *)
(*                                                                         *)
(* memset(seq_map, 0x55AA, ...) stores the low byte 0xAA everywhere, so a  *)
(* cleared entry reads 0xAAAA: a sequence number that packets do carry.    *)
(* EMPTY is that value.                                                    *)
(***************************************************************************)
EXTENDS SeqSpace

CONSTANTS
  EMPTY,          \* what a cleared entry reads        (0xAAAA in the code)
  CONN_TIMEOUT    \* idle seconds after which the table is cleared    (180)

ASSUME SeqMapAssumption ==
  /\ EMPTY \in SeqNo
  /\ CONN_TIMEOUT \in Nat

\* Mutant: a sentinel that is no sequence number does not fit the uint16_t.
ClearedOutside == [s \in Slot |-> SEQ_MOD]

\* The table after memset.
Cleared == [s \in Slot |-> EMPTY]

\* Mutant: any number in the slot passes for this one.
HoldsAny(map, seq) == map[SlotOf(seq)] # EMPTY

Holds(map, seq) == map[SlotOf(seq)] = seq

\* Mutant: the accepted number is not stored.
StoreNothing(map, seq) == map

Store(map, seq) == [map EXCEPT ![SlotOf(seq)] = seq]

\* Mutant: the comparison drops the timeout.
IdleAtOnce(ts, last) == ts - last >= 0

\* The idle test at the head of is_duplicate.
Idle(ts, last) == ts - last > CONN_TIMEOUT

=============================================================================
