------------------------------- MODULE IhHlist -------------------------------
(***************************************************************************)
(* The hash-chain list of script/tun-vpn/ih_list.h: a head with one        *)
(* pointer, nodes with a next pointer and a pprev pointer, which points to *)
(* the pointer that points to the node.  Unlike the ring's functions, two  *)
(* of these expect something of the node that is added: the next pointer   *)
(* of a new last element is left as it is.                                 *)
(***************************************************************************)
EXTENDS Integers, SequencesExt

CONSTANTS
  Chain,     \* heads
  Elem,      \* nodes
  Key,       \* the number a node is sorted by
  NULL,
  POISON     \* IH_LIST_POISON1 and 2

Link == Chain \cup Elem     \* where a pointer to a node lies: first or next
ASSUME HlistAssumption ==
  /\ Chain \cap Elem = {} /\ {NULL, POISON} \cap Link = {} /\ NULL # POISON
  /\ Key \in [Elem -> Nat] /\ IsFiniteSet(Elem)

VARIABLES
  fwd,     \* first of each head, next of each node
  pprev,   \* of each node: the place of the pointer to it
  order,   \* how the chain of each head is kept: "any", "ascending", "descending"
  hcall    \* history: the last call

hlistVars == <<fwd, pprev, order, hcall>>

\* The ih_hlist_for_each loops; a poisoned pointer would not be followed well.
Chained(h) ==
  LET at[i \in 1 .. Cardinality(Elem)] ==
        IF i = 1 THEN fwd[h] ELSE IF at[i - 1] \in Elem THEN fwd[at[i - 1]] ELSE at[i - 1]
  IN [i \in 1 .. Cardinality({j \in 1 .. Cardinality(Elem) : at[j] \in Elem}) |-> at[i]]

LastLink(h) == IF Chained(h) = <<>> THEN h ELSE Last(Chained(h))
In(h) == ToSet(Chained(h))
Loose == Elem \ UNION {In(h) : h \in Chain}

-----------------------------------------------------------------------------
(* The functions, as stores into the two arrays of pointers *)

Store(f, p) == fwd' = f /\ pprev' = p
\* if (n) n->pprev = place
PointBack(p, n, place) == IF n \in Elem THEN [p EXCEPT ![n] = place] ELSE p

\* __ih_hlist_del, then what ih_hlist_del (POISON) or ih_hlist_del_init (NULL)
\* leaves in the node.
HlistDel(n, rest) ==
  Store([fwd EXCEPT ![pprev[n]] = fwd[n], ![n] = rest],
        [PointBack(pprev, fwd[n], pprev[n]) EXCEPT ![n] = rest])

AddFirst(h, n) ==
  Store([fwd EXCEPT ![n] = fwd[h], ![h] = n], [PointBack(pprev, fwd[h], n) EXCEPT ![n] = h])

AddLast(h, n) ==
  Store([fwd EXCEPT ![LastLink(h)] = n], [pprev EXCEPT ![n] = LastLink(h)])

AddBefore(n, x) ==
  Store([fwd EXCEPT ![n] = x, ![pprev[x]] = n], [pprev EXCEPT ![n] = pprev[x], ![x] = n])

\* x goes after n.
AddAfter(n, x) ==
  Store([fwd EXCEPT ![x] = fwd[n], ![n] = x],
        [PointBack(pprev, fwd[n], x) EXCEPT ![x] = n])

\* Whether the new node n goes before x.
GoesBefore(n, x, o) == IF o = "ascending" THEN Key[x] >= Key[n] ELSE Key[x] <= Key[n]

\* ih_hlist_add_ascending, ih_hlist_add_descending: before the first node the
\* search stops at, or after the last.
AddSorted(h, n) ==
  LET list == Chained(h)
      stops == {i \in DOMAIN list : GoesBefore(n, list[i], order[h])}
  IN IF stops = {} THEN AddLast(h, n) ELSE AddBefore(n, list[Min(stops)])

MoveList(old, new) ==
  Store([fwd EXCEPT ![new] = fwd[old], ![old] = NULL], PointBack(pprev, fwd[old], new))

-----------------------------------------------------------------------------
(* Calls, until a chain ends in a poisoned pointer: the next walk to its   *)
(* end, or removal of its last node, would follow it.                      *)

Usable == \A h \in Chain : fwd[LastLink(h)] = NULL

DelNode(h, n) ==
  /\ n \in In(h)
  /\ HlistDel(n, POISON) \/ HlistDel(n, NULL)
  /\ hcall' = "del"

AddNode(h, n) ==
  /\ n \in Loose /\ order[h] = "any"
  /\ \/ AddFirst(h, n) /\ hcall' = "add"
     \/ AddLast(h, n) /\ hcall' = "add_tail"

AddBeside(h, n, x) ==
  /\ n \in In(h) /\ x \in Loose /\ order[h] = "any"
  /\ \/ AddBefore(x, n) /\ hcall' = "before"
     \/ AddAfter(n, x) /\ hcall' = "after"

AddInOrder(h, n) ==
  /\ n \in Loose /\ order[h] # "any"
  /\ AddSorted(h, n)
  /\ hcall' = "sorted"

MoveAll(old, new) ==
  /\ old # new /\ fwd[new] = NULL /\ order[new] = order[old]
  /\ MoveList(old, new)
  /\ hcall' = "splice"

HlistInit ==
  /\ fwd = [c \in Link |-> NULL]
  /\ pprev = [n \in Elem |-> NULL]
  /\ order \in [Chain -> {"any", "ascending", "descending"}]
  /\ hcall = "none"

HlistNext ==
  /\ Usable
  /\ \E h \in Chain :
       \/ \E n \in Elem : DelNode(h, n) \/ AddNode(h, n) \/ AddInOrder(h, n)
       \/ \E n, x \in Elem : AddBeside(h, n, x)
       \/ \E g \in Chain : MoveAll(g, h)
  /\ UNCHANGED order

HlistSpecification == HlistInit /\ [][HlistNext]_hlistVars

-----------------------------------------------------------------------------
(* Properties *)

HlistTypeOK ==
  /\ fwd \in [Link -> Elem \cup {NULL, POISON}]
  /\ pprev \in [Elem -> Link \cup {NULL, POISON}]

\* The pprev of every node of a chain is the place of the pointer to it, so
\* that it can be removed; and the chain ends in NULL, unless its last node was
\* put there by ih_hlist_add_tail or in order after it had been removed with
\* ih_hlist_del: those calls do not set its next pointer.
ChainsSound ==
  \A h \in Chain :
    /\ \A n \in In(h) : fwd[pprev[n]] = n
    /\ fwd[LastLink(h)] = NULL \/ hcall \in {"add_tail", "sorted"}

\* A chain to which nodes are added in order is sorted, whatever was removed.
ChainsSorted ==
  \A h \in Chain : \A i, j \in DOMAIN Chained(h) :
    /\ order[h] = "ascending" /\ i < j => Key[Chained(h)[i]] <= Key[Chained(h)[j]]
    /\ order[h] = "descending" /\ i < j => Key[Chained(h)[i]] >= Key[Chained(h)[j]]

Chains == INSTANCE ListSpec WITH
  Root <- Chain, Node <- Elem, lists <- [h \in Chain |-> Chained(h)], call <- hcall

\* Every call does to the lists what ListSpec says of it.
ImplementsChains == Chains!Spec
=============================================================================
