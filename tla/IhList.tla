-------------------------------- MODULE IhList --------------------------------
(***************************************************************************)
(* The doubly linked ring of script/tun-vpn/ih_list.h, in which the server *)
(* keeps its gateways and connections: heads and nodes with next and prev  *)
(* pointers, and each function as the stores it makes, in order.  The      *)
(* lists ListSpec speaks of are what a walk along next finds.              *)
(***************************************************************************)
EXTENDS Integers, SequencesExt

CONSTANTS
  Root,      \* list heads
  Node,      \* elements
  Poison     \* IH_LIST_POISON1 and 2

ListCell == Root \cup Node
ASSUME ListAssumption ==
  /\ Root \cap Node = {} /\ Poison \notin ListCell /\ Root # {} /\ Node # {}
  /\ IsFiniteSet(ListCell)

VARIABLES
  ring,      \* [next, prev]: the two pointers of every cell
  dangling,  \* heads a splice has left pointing into another list
  call       \* history: the last call

listVars == <<ring, dangling, call>>

-----------------------------------------------------------------------------
(* Walks *)

\* From a head on along the pointers ptr, next or prev, as far as a cell that is
\* no element: the ih_list_for_each loops.  A walk that meets a poisoned pointer
\* ends there.
Walk(ptr, h) ==
  LET at[i \in 1 .. Cardinality(ListCell)] ==
        IF i = 1 THEN ptr[h] ELSE IF at[i - 1] \in Node THEN ptr[at[i - 1]] ELSE at[i - 1]
  IN [i \in 1 .. Cardinality({j \in 1 .. Cardinality(ListCell) : at[j] \in Node}) |-> at[i]]

ListOf(h) == IF h \in dangling THEN <<>> ELSE Walk(ring.next, h)
Members(h) == ToSet(ListOf(h))
Free == Node \ UNION {Members(h) : h \in Root}
Sound == Root \ dangling

\* ih_list_empty, ih_list_empty_careful, ih_list_is_last, ih_list_is_singular
Empty(h) == ring.next[h] = h
EmptyCareful(h) == Empty(h) /\ ring.prev[h] = h
IsLast(n, h) == ring.next[n] = h
IsSingular(h) == ~Empty(h) /\ ring.next[h] = ring.prev[h]

-----------------------------------------------------------------------------
(* The functions, as stores into a heap m *)

InitHead(m, h) == [m EXCEPT !.next[h] = h, !.prev[h] = h]

\* Mutant: the new element's prev is not set.
AddBetweenOneWay(m, n, p, x) == [m EXCEPT !.prev[x] = n, !.next[n] = x, !.next[p] = n]

AddBetween(m, n, p, x) ==
  [m EXCEPT !.prev[x] = n, !.next[n] = x, !.prev[n] = p, !.next[p] = n]

AddHead(m, n, h) == AddBetween(m, n, h, m.next[h])
AddTail(m, n, h) == AddBetween(m, n, m.prev[h], h)

DelBetween(m, p, x) == [m EXCEPT !.prev[x] = p, !.next[p] = x]
Unlink(m, n) == DelBetween(m, m.prev[n], m.next[n])
Del(m, n) == [Unlink(m, n) EXCEPT !.next[n] = Poison, !.prev[n] = Poison]

Replace(m, o, n) ==
  LET a == [m EXCEPT !.next[n] = m.next[o], !.prev[m.next[o]] = n]
  IN [a EXCEPT !.prev[n] = a.prev[o], !.next[a.prev[o]] = n]

\* g takes the list of h from its first element to e.
CutAt(m, g, h, e) ==
  LET a == [m EXCEPT !.next[g] = m.next[h], !.prev[m.next[h]] = g]
  IN [a EXCEPT !.prev[g] = e, !.next[e] = g, !.next[h] = m.next[e], !.prev[m.next[e]] = h]

CutPosition(m, g, h, e) ==
  CASE Empty(h) \/ (IsSingular(h) /\ m.next[h] # e /\ h # e) -> m
    [] ~Empty(h) /\ e = h -> InitHead(m, g)
    [] OTHER -> CutAt(m, g, h, e)

\* Mutant: the last element keeps pointing to its old head.
SpliceBetweenLoose(m, g, p, x) ==
  [m EXCEPT !.prev[m.next[g]] = p, !.next[p] = m.next[g], !.prev[x] = m.prev[g]]

SpliceBetween(m, g, p, x) ==
  [m EXCEPT !.prev[m.next[g]] = p, !.next[p] = m.next[g],
            !.next[m.prev[g]] = x, !.prev[x] = m.prev[g]]

SpliceFront(m, g, h) == IF Empty(g) THEN m ELSE SpliceBetween(m, g, h, m.next[h])
SpliceTail(m, g, h) == IF Empty(g) THEN m ELSE SpliceBetween(m, g, m.prev[h], h)

\* ih_list_free deletes every element, the next one having been read before.
FreeAll(m, h) ==
  LET list == Walk(m.next, h)
      freed[i \in 0 .. Len(list)] == IF i = 0 THEN m ELSE Del(freed[i - 1], list[i])
  IN freed[Len(list)]

-----------------------------------------------------------------------------
(* Calls.  A caller adds only elements that are in no list, and deletes or *)
(* moves only elements that are in one.                                    *)

InitList(h) ==
  /\ ring' = InitHead(ring, h)
  /\ dangling' = dangling \ {h}
  /\ call' = "init"

FreeList(h) ==
  /\ h \in Sound
  /\ ring' = FreeAll(ring, h)
  /\ call' = "init"
  /\ UNCHANGED dangling

AddOne(h, n) ==
  /\ h \in Sound /\ n \in Free
  /\ \/ ring' = AddHead(ring, n, h) /\ call' = "add"
     \/ ring' = AddTail(ring, n, h) /\ call' = "add_tail"
  /\ UNCHANGED dangling

\* ih_list_del, ih_list_del_init
DelOne(h, n) ==
  /\ n \in Members(h)
  /\ ring' \in {Del(ring, n), InitHead(Unlink(ring, n), n)}
  /\ call' = "del"
  /\ UNCHANGED dangling

\* ih_list_replace, ih_list_replace_init
ReplaceOne(h, o, n) ==
  /\ o \in Members(h) /\ n \in Free
  /\ ring' \in {Replace(ring, o, n), InitHead(Replace(ring, o, n), o)}
  /\ call' = "replace"
  /\ UNCHANGED dangling

MoveOne(g, h, n) ==
  /\ n \in Members(g) /\ h \in Sound
  /\ \/ ring' = AddHead(Unlink(ring, n), n, h) /\ call' = "move"
     \/ ring' = AddTail(Unlink(ring, n), n, h) /\ call' = "move_tail"
  /\ UNCHANGED dangling

\* ih_list_cut_position at an element, or at the head itself.
CutList(g, h) ==
  /\ g # h /\ h \in Sound
  /\ \/ \E e \in Members(h) : /\ ring' = CutPosition(ring, g, h, e)
                              /\ call' = "cut"
     \/ /\ ring' = CutPosition(ring, g, h, h)
        /\ ring' # ring
        /\ call' = "init"
  /\ dangling' = dangling \ {g}

\* ih_list_splice, ih_list_splice_tail: the source head is left as it was.
SpliceList(g, h) ==
  /\ g # h /\ {g, h} \subseteq Sound
  /\ \/ ring' = SpliceFront(ring, g, h) /\ call' = "splice"
     \/ ring' = SpliceTail(ring, g, h) /\ call' = "splice_tail"
  /\ dangling' = IF Empty(g) THEN dangling ELSE dangling \cup {g}

\* ih_list_splice_init, ih_list_splice_tail_init
SpliceInitList(g, h) ==
  /\ g # h /\ {g, h} \subseteq Sound
  /\ \/ ring' = InitHead(SpliceFront(ring, g, h), g) /\ call' = "splice"
     \/ ring' = InitHead(SpliceTail(ring, g, h), g) /\ call' = "splice_tail"
  /\ UNCHANGED dangling

ListInit ==
  /\ ring = [next |-> [c \in ListCell |-> IF c \in Root THEN c ELSE Poison],
             prev |-> [c \in ListCell |-> IF c \in Root THEN c ELSE Poison]]
  /\ dangling = {}
  /\ call = "none"

ListNext ==
  \E h \in Root :
    \/ InitList(h) \/ FreeList(h)
    \/ \E n \in Node : AddOne(h, n) \/ DelOne(h, n)
    \/ \E n, o \in Node : ReplaceOne(h, o, n)
    \/ \E g \in Root : \/ \E n \in Node : MoveOne(g, h, n)
                       \/ CutList(g, h) \/ SpliceList(g, h) \/ SpliceInitList(g, h)

ListSpecification == ListInit /\ [][ListNext]_listVars

-----------------------------------------------------------------------------
(* Properties *)

ListTypeOK ==
  /\ ring \in [next : [ListCell -> ListCell \cup {Poison}], prev : [ListCell -> ListCell \cup {Poison}]]
  /\ dangling \subseteq Root

\* The two directions agree: a walk along prev meets the elements of a walk
\* along next in the opposite order, and the tests of emptiness, of one element
\* and of the last one say what the walk finds.  Every function stores four
\* pointers or more, some of which may be the same cell's.
RingsClosed ==
  \A h \in Sound :
    LET list == Walk(ring.next, h) IN
    /\ Walk(ring.prev, h) = Reverse(list)
    /\ Empty(h) = (list = <<>>) /\ EmptyCareful(h) = (list = <<>>)
    /\ IsSingular(h) = (Len(list) = 1)
    /\ \A i \in DOMAIN list : IsLast(list[i], h) = (i = Len(list))

Lists == INSTANCE ListSpec WITH
  Root <- Root, Node <- Node, lists <- [h \in Root |-> ListOf(h)], call <- call

\* Every call does to the lists what ListSpec says of it.
ImplementsLists == Lists!Spec
=============================================================================
