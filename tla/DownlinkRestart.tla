--------------------------- MODULE DownlinkRestart ---------------------------
(***************************************************************************)
(* The downlink when the server is restarted: its static counter starts    *)
(* again at 0, and nothing tells the client, whose sequence map still      *)
(* holds the numbers of the previous run.  (The other direction has a      *)
(* start flag, see Uplink.)  A restart is taken to outlast the copies the  *)
(* previous run left in the network.                                       *)
(***************************************************************************)
EXTENDS Downlink

CONSTANT MaxRestarts   \* bound: restarts of the server

ASSUME RestartAssumption == MaxRestarts \in Nat

VARIABLES
  run,       \* the server's current run
  runOf,     \* history: the run each packet was numbered in
  seqOf      \* history: the number each packet was given

rvars == <<vars, run, runOf, seqOf>>

RInit ==
  /\ Init
  /\ run = 0
  /\ runOf = [n \in Pkt |-> 0]
  /\ seqOf = [n \in Pkt |-> 0]

\* main() of ustun.c from its start: the sender's statics are zero again.
ServerRestart ==
  /\ run < MaxRestarts
  /\ UnderWay = {}
  /\ run' = run + 1
  /\ sequence' = 0
  /\ UNCHANGED <<net, workerVars, dedupVars, now, sent, sentAt, written, runOf, seqOf>>

RSend ==
  /\ SendToGateway
  /\ runOf' = [runOf EXCEPT ![sent] = run]
  /\ seqOf' = [seqOf EXCEPT ![sent] = sequence]
  /\ UNCHANGED run

ClientOrNetwork ==
  /\ \/ Tick
     \/ \E c \in net : Lose(c)
     \/ \E p \in Path, c \in net : Receive(p, c)
     \/ \E p \in Path : IsDuplicate(p)
     \/ \E p \in Path : WriteTun(p)
  /\ UNCHANGED <<run, runOf, seqOf>>

RNext ==
  \/ ServerRestart
  \/ RSend
  \/ ClientOrNetwork

RSpec == RInit /\ [][RNext]_rvars

-----------------------------------------------------------------------------
(* Properties *)

RTypeOK ==
  /\ TypeOK
  /\ run \in 0 .. MaxRestarts
  /\ runOf \in [Pkt -> 0 .. MaxRestarts]
  /\ seqOf \in [Pkt -> SeqNo]

\* A packet is thrown away unseen only for the number a cleared entry reads,
\* or because an accepted packet of an earlier run, or one a lap of the
\* counter older in the same run, had its number: a restart of the server
\* costs packets, and for no other reason than the client's stale map.
RestartDropsExplained ==
  \A n \in dropped :
    \/ seqOf[n] = EMPTY
    \/ \E m \in accepted :
         /\ seqOf[m] = seqOf[n]
         /\ \/ runOf[m] < runOf[n]
            \/ runOf[m] = runOf[n] /\ m + SEQ_MOD <= n

=============================================================================
