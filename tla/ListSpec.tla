------------------------------- MODULE ListSpec -------------------------------
(***************************************************************************)
(* What a linked list promises its users: some lists, each a sequence of   *)
(* elements, no element in two places; and what each call makes of them.   *)
(***************************************************************************)
EXTENDS SequencesExt

CONSTANTS Root, Node

VARIABLES
  lists,   \* the elements of each list
  call     \* the last call

Calls == {"none", "init", "add", "add_tail", "del", "replace", "move", "move_tail",
          "cut", "splice", "splice_tail", "before", "after", "sorted"}

Members(h) == {lists[h][i] : i \in DOMAIN lists[h]}
Listed == UNION {Members(h) : h \in Root}
Position(h, n) == CHOOSE i \in DOMAIN lists[h] : lists[h][i] = n
Without(h, n) == [lists EXCEPT ![h] = RemoveAt(@, Position(h, n))]

Init == lists = [h \in Root |-> <<>>] /\ call = "none"

Clear(h) == lists' = [lists EXCEPT ![h] = <<>>]
Push(h, n) == n \notin Listed /\ lists' = [lists EXCEPT ![h] = <<n>> \o @]
Add(h, n) == n \notin Listed /\ lists' = [lists EXCEPT ![h] = Append(@, n)]
Insert(h, n) ==
  /\ n \notin Listed
  /\ \E i \in 1 .. Len(lists[h]) + 1 : lists' = [lists EXCEPT ![h] = InsertAt(@, i, n)]
Delete(h, n) == n \in Members(h) /\ lists' = Without(h, n)

Replace(h, n, m) ==
  /\ n \in Members(h) /\ m \notin Listed
  /\ lists' = [lists EXCEPT ![h][Position(h, n)] = m]

\* n, of the list of g, goes to an end of the list of h.
MoveFront(h, n, g) ==
  n \in Members(g) /\ lists' = [Without(g, n) EXCEPT ![h] = <<n>> \o @]
MoveTail(h, n, g) ==
  n \in Members(g) /\ lists' = [Without(g, n) EXCEPT ![h] = Append(@, n)]

\* g takes over the list of h as far as n, and forgets its own elements.
Cut(h, n, g) ==
  /\ n \in Members(h) /\ g # h
  /\ lists' = [lists EXCEPT ![g] = SubSeq(lists[h], 1, Position(h, n)),
                            ![h] = SubSeq(@, Position(h, n) + 1, Len(@))]

\* The elements of g go to an end of the list of h.
SpliceFront(h, g) == g # h /\ lists' = [lists EXCEPT ![g] = <<>>, ![h] = lists[g] \o @]
SpliceTail(h, g) == g # h /\ lists' = [lists EXCEPT ![g] = <<>>, ![h] = @ \o lists[g]]

\* m goes before or after n.
Before(h, n, m) ==
  /\ n \in Members(h) /\ m \notin Listed
  /\ lists' = [lists EXCEPT ![h] = InsertAt(@, Position(h, n), m)]
After(h, n, m) ==
  /\ n \in Members(h) /\ m \notin Listed
  /\ lists' = [lists EXCEPT ![h] = InsertAt(@, Position(h, n) + 1, m)]

Next ==
  \/ call' = "init" /\ \E h \in Root : Clear(h)
  \/ call' = "add" /\ \E h \in Root, n \in Node : Push(h, n)
  \/ call' = "add_tail" /\ \E h \in Root, n \in Node : Add(h, n)
  \/ call' = "del" /\ \E h \in Root, n \in Node : Delete(h, n)
  \/ call' = "replace" /\ \E h \in Root, n, m \in Node : Replace(h, n, m)
  \/ call' = "move" /\ \E h, g \in Root, n \in Node : MoveFront(h, n, g)
  \/ call' = "move_tail" /\ \E h, g \in Root, n \in Node : MoveTail(h, n, g)
  \/ call' = "cut" /\ \E h, g \in Root, n \in Node : Cut(h, n, g)
  \/ call' = "splice" /\ \E h, g \in Root : SpliceFront(h, g)
  \/ call' = "splice_tail" /\ \E h, g \in Root : SpliceTail(h, g)
  \/ call' = "before" /\ \E h \in Root, n, m \in Node : Before(h, n, m)
  \/ call' = "after" /\ \E h \in Root, n, m \in Node : After(h, n, m)
  \/ call' = "sorted" /\ \E h \in Root, n \in Node : Insert(h, n)

Spec == Init /\ [][Next]_<<lists, call>>
=============================================================================
