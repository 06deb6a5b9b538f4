----------------------------- MODULE MCDownlink -----------------------------
(***************************************************************************)
(* A downlink of two paths with a sequence map of two entries and numbers  *)
(* that wrap after four: a packet number is reused and the table idles out *)
(* within the bounds.  Two instances of the same variables: a server that  *)
(* is restarted once, on a short clock, and one that is not, on a longer   *)
(* clock, so that copies may be a second late.                             *)
(***************************************************************************)
EXTENDS DownlinkRestart, TLC

VARIABLE part   \* which of the two instances this behaviour is of

Steady == INSTANCE DownlinkRestart WITH CONN_TIMEOUT <- 2, LIFE <- 1, MaxTime <- 3

MCInit ==
  /\ part \in {"restarted", "steady"}
  /\ RInit

MCNext ==
  /\ \/ part = "restarted" /\ RNext
     \/ part = "steady" /\ (Steady!RSend \/ Steady!ClientOrNetwork)
  /\ UNCHANGED part

MCSpec == MCInit /\ [][MCNext]_<<rvars, part>>

\* The two paths are interchangeable.
Symmetry == Permutations(Path)

=============================================================================
