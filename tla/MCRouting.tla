------------------------------ MODULE MCRouting ------------------------------
(***************************************************************************)
(* Small routing tables, two instances of the same variables: two receiver *)
(* threads and two paths of one gateway, where a thread is overtaken and   *)
(* malloc may fail, and two gateways with three connections, two of which  *)
(* have one hash: their sums differ by WORD.  In the second instance an    *)
(* entry not used for a second expires, and another gateway may enter it.  *)
(***************************************************************************)
EXTENDS Routing, TLC

CONSTANTS g1, g2, p1, w1   \* the members of the second instance

VARIABLE part   \* which of the two instances this behaviour is of

\* The connections of the two instances.
OneFlow == {<<1, 4>>}
AlikeFlows == {<<1, 4>>, <<7, 6>>, <<1, 3>>}

Two ==
  INSTANCE Routing WITH
    Gateway <- {g1, g2}, Apn <- {p1}, Flow <- AlikeFlows, Worker <- {w1},
    CONN_TIMEOUT <- 0, STALL <- 0, MALLOC_FAILS <- FALSE, MaxTime <- 2

PathsInit == part = "paths" /\ Init
PathsNext == part = "paths" /\ Next /\ UNCHANGED part
PathsSpec == PathsInit /\ [][PathsNext]_<<vars, part>>

MCInit ==
  \/ PathsInit
  \/ part = "gateways" /\ Two!Init

MCNext ==
  \/ PathsNext
  \/ part = "gateways" /\ Two!Next /\ UNCHANGED part

MCSpec == MCInit /\ [][MCNext]_<<vars, part>>

\* Sound for both instances: each has functions on all of its members, so a
\* permutation that relates two of its states permutes its own members.
Symmetry ==
  Permutations(Worker) \cup Permutations(Apn) \cup Permutations({g1, g2})

-----------------------------------------------------------------------------
(* The two properties of Routing that name the constants, per instance *)

\* TypeOK of the instance the behaviour is of.
TypeOKHere == IF part = "paths" THEN TypeOK ELSE Two!TypeOK

\* A cleanup forgets only what was silent for CONN_TIMEOUT (less a stall):
\* ExpiresOnlyTheSilent of Routing, of either instance.
ExpiresOnlyTheSilentHere ==
  [][IF part = "paths" THEN ForgetsOnlySilent ELSE Two!ForgetsOnlySilent]_vars

=============================================================================
