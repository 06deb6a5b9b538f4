---------------------------- MODULE MCCodeAndLists ----------------------------
(***************************************************************************)
(* The sequential parts of the tunnel, each on its own: the erasure code   *)
(* (ReedSolomon), its row operations in every vector width (Oblas), the    *)
(* buffers and lengths of a datagram (Frames) and the two kinds of linked  *)
(* list (IhList, IhHlist).  A behaviour is of one of them; the others stay *)
(* in one first state.                                                     *)
(*                                                                         *)
(* The program's code and three larger ones are checked.  Coding is linear *)
(* in the data, so the unit vectors, among those checked here, stand for   *)
(* all data.                                                               *)
(***************************************************************************)
EXTENDS ReedSolomon, Oblas, IhList, IhHlist, Frames

VARIABLE part   \* the component this behaviour is of

SmallCodes == {<<2, 1>>, <<2, 2>>, <<3, 2>>, <<4, 3>>}
FewValues == {Zero, BitsOf(183)}
Stale == BitsOf(90)

\* Inv finds the inverse of every byte that has one.
ASSUME InvInverts == \A a \in Byte \ {Zero} : Mul(a, Inv(a)) = One

FewFactors == {Zero, One, BitsOf(2), BitsOf(183)}

\* Two of the nodes sort alike.
Keys == [n \in Elem |-> IF n = "n1" THEN 1 ELSE 2]

\* The first state of a component that stays in it.
CodeIdle == code = <<2, 1>> /\ original = [i \in 0 .. 1 |-> Zero] /\ Init
RowsIdle == op = "swap" /\ width = 0 /\ u = Zero /\ k = 0 /\ row = RowOf(1, GUARD) /\ OblInit
HlistIdle == order = [h \in Chain |-> "any"] /\ HlistInit

MCInit ==
  /\ part \in {"code", "rows", "list", "hlist", "frames"}
  /\ ListInit
  /\ FramesInit /\ (part # "frames" => gl_fec)
  /\ IF part = "code" THEN Init ELSE CodeIdle
  /\ IF part = "rows" THEN OblInit ELSE RowsIdle
  /\ IF part = "hlist" THEN HlistInit ELSE HlistIdle

MCNext ==
  /\ \/ part = "code" /\ Next /\ UNCHANGED <<oblVars, listVars, hlistVars, frameVars>>
     \/ part = "rows" /\ OblNext /\ UNCHANGED <<vars, listVars, hlistVars, frameVars>>
     \/ part = "list" /\ ListNext /\ UNCHANGED <<vars, oblVars, hlistVars, frameVars>>
     \/ part = "hlist" /\ HlistNext /\ UNCHANGED <<vars, oblVars, listVars, frameVars>>
     \/ part = "frames" /\ FramesNext /\ UNCHANGED <<vars, oblVars, listVars, hlistVars>>
  /\ UNCHANGED part

MCSpec == MCInit /\ [][MCNext]_<<vars, oblVars, listVars, hlistVars, frameVars, part>>

\* The nodes of a list are interchangeable, and so are its heads.
Symmetry == Permutations(Root) \cup Permutations(Node)

\* Every variable of the five components holds a value of its type.
SequentialTypeOK == TypeOK /\ OblTypeOK /\ ListTypeOK /\ HlistTypeOK /\ FramesTypeOK

\* Any ps lost shards are restored, and on the way the elimination of invert_mat
\* (rs.c) meets no zero on its diagonal, runs past no row that matters, and past its
\* workspace in the one case WorkspaceKept names; see ReedSolomon.
DecodingSound == Recovered /\ EliminationSound

\* The pointers of both kinds of list agree with each other, and what is added
\* in order stays in order (ih_list.h; see IhList and IhHlist).
ListsSound == RingsClosed /\ ChainsSound /\ ChainsSorted

\* The pointer stores of every call implement what ListSpec says of it.
ImplementLists == ImplementsLists /\ ImplementsChains

=============================================================================
