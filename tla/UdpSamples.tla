------------------------------ MODULE UdpSamples ------------------------------
(***************************************************************************)
(* The UDP samples under mcast/: three receivers and the three senders     *)
(* that go with them (unicast, broadcast, multicast), a network that may   *)
(* lose and reorder, other hosts that send to the same port, and the       *)
(* signals that stop a receiver.                                           *)
(***************************************************************************)
EXTENDS Naturals, Sequences

CONSTANTS
  ForeignLen,    \* lengths of the datagrams other hosts send
  LineLen,       \* lengths of the lines typed at the multicast sender
  MaxForeign,    \* bound: datagrams of other hosts
  MaxLines       \* bound: lines typed

ASSUME UdpAssumption ==
  ForeignLen \subseteq Nat /\ LineLen \subseteq Nat /\ MaxForeign \in Nat /\ MaxLines \in Nat

(***************************************************************************)
(* The programs: the steps before the loop, each of which may fail and end *)
(* the program, the size of the buffer and the length given to recvfrom.   *)
(***************************************************************************)
SimpleServer == [steps |-> <<"socket", "address", "bind">>,
                 size |-> 128, length |-> 128]
BroadcastServer ==
  [steps |-> <<"signals", "socket", "reuse", "timeout", "address", "bind">>,
   size |-> 128, length |-> 127]
McastServer == [steps |-> <<"socket", "group", "interface", "join", "bind">>,
                size |-> 1501, length |-> 1500]
SimpleClient == <<"socket", "address">>
BroadcastClient == <<"socket", "broadcast", "address">>
McastClient == <<"socket", "ttl", "interface", "address", "bind">>

Pair == {"simple", "broadcast", "mcast"}
Receiver(p) == [simple |-> SimpleServer, broadcast |-> BroadcastServer,
                mcast |-> McastServer][p]
Sender(p) == [simple |-> SimpleClient, broadcast |-> BroadcastClient,
              mcast |-> McastClient][p]
Greeting == 15              \* strlen("hello, i'm here")
FGETS_MAX == 254            \* fgets of BUFLEN 255 leaves room for the zero

VARIABLES
  pair,      \* which receiver and sender run
  addr,      \* the receiver's address: "any" or "one"
  joined,    \* some other program of the host is a member of another group
  rx, rxAt,  \* the receiver: "setup", "loop", "tested", "receiving", "exited"
  tx, txAt,  \* the sender: "setup", "sending" or "exited"
  line,      \* bytes of the typed line not yet sent
  typed, foreign,   \* lines typed, datagrams of others, so far
  net,       \* datagrams under way
  queue,     \* datagrams in the receiver's socket
  printed,   \* datagrams the receiver has printed
  zeroAt,    \* the index at which the receiver last wrote the terminator
  running    \* keep_running
udpVars == <<pair, addr, joined, rx, rxAt, tx, txAt, line, typed, foreign, net,
             queue, printed, zeroAt, running>>

Datagram == [len : Nat, to : {"host", "broadcast", "group", "other group"},
             by : {"sample", "foreign"}]

UdpInit ==
  /\ pair \in Pair /\ joined \in BOOLEAN
  /\ addr \in IF pair = "mcast" THEN {"any"} ELSE {"any", "one"}
  /\ rx = "setup" /\ rxAt = 1 /\ tx = "setup" /\ txAt = 1
  /\ line = 0 /\ typed = 0 /\ foreign = 0
  /\ net = {} /\ queue = <<>> /\ printed = {} /\ zeroAt = 0 /\ running = TRUE

Done(step) == \E i \in 1..(rxAt - 1) : Receiver(pair).steps[i] = step

\* The receiver's next step; a failure ends the program.
Setup ==
  /\ rx = "setup"
  /\ \/ /\ rxAt' = rxAt + 1
        /\ rx' = IF rxAt = Len(Receiver(pair).steps) THEN "loop" ELSE "setup"
     \/ rx' = "exited" /\ UNCHANGED rxAt
  /\ UNCHANGED <<pair, addr, joined, tx, txAt, line, typed, foreign, net, queue,
                 printed, zeroAt, running>>

\* SIGINT or SIGTERM: the handler clears the flag, and a recvfrom that waits
\* is interrupted and leaves the loop; without a handler the program dies.
SigInt ==
  /\ rx # "exited" /\ running
  /\ IF Done("signals")
       THEN /\ running' = FALSE
            /\ rx' = IF rx = "receiving" THEN "exited" ELSE rx
       ELSE rx' = "exited" /\ UNCHANGED running
  /\ UNCHANGED <<pair, addr, joined, rxAt, tx, txAt, line, typed, foreign, net,
                 queue, printed, zeroAt>>

\* The head of the loop; only the broadcast receiver looks at the flag.
Loop ==
  /\ rx = "loop"
  /\ rx' = IF pair = "broadcast" /\ ~running THEN "exited" ELSE "tested"
  /\ UNCHANGED <<pair, addr, joined, rxAt, tx, txAt, line, typed, foreign, net,
                 queue, printed, zeroAt, running>>

\* The call of recvfrom; a signal before it interrupts nothing.
Recvfrom ==
  /\ rx = "tested" /\ rx' = "receiving"
  /\ UNCHANGED <<pair, addr, joined, rxAt, tx, txAt, line, typed, foreign, net,
                 queue, printed, zeroAt, running>>

\* A datagram longer than the length given is cut; the terminator goes behind
\* what was received.
Receive ==
  /\ rx = "receiving" /\ queue # <<>>
  /\ LET d == Head(queue)
         cut == Receiver(pair).length
         n == IF d.len < cut THEN d.len ELSE cut
     IN  zeroAt' = n /\ printed' = printed \cup {[d EXCEPT !.len = n]}
  /\ queue' = Tail(queue) /\ rx' = "loop"
  /\ UNCHANGED <<pair, addr, joined, rxAt, tx, txAt, line, typed, foreign, net,
                 running>>

\* recvfrom gives up after a second, where that was asked for.
Timeout ==
  /\ rx = "receiving" /\ queue = <<>> /\ Done("timeout")
  /\ rx' = "loop"
  /\ UNCHANGED <<pair, addr, joined, rxAt, tx, txAt, line, typed, foreign, net,
                 queue, printed, zeroAt, running>>

(***************************************************************************)
(* The senders and the network.                                            *)
(***************************************************************************)
Target == [simple |-> "host", broadcast |-> "broadcast", mcast |-> "group"][pair]
OwnDatagram(n) == [len |-> n, to |-> Target, by |-> "sample"]

SendSetup ==
  /\ tx = "setup"
  /\ \/ /\ txAt' = txAt + 1
        /\ tx' = IF txAt = Len(Sender(pair)) THEN "sending" ELSE "setup"
     \/ tx' = "exited" /\ UNCHANGED txAt
  /\ UNCHANGED <<pair, addr, joined, rx, rxAt, line, typed, foreign, net, queue,
                 printed, zeroAt, running>>

\* simple_udpclient and broadc-udpclient send one greeting and end.
SendOnce ==
  /\ tx = "sending" /\ pair # "mcast"
  /\ tx' = "exited" /\ net' \in {net, net \cup {OwnDatagram(Greeting)}}
  /\ UNCHANGED <<pair, addr, joined, rx, rxAt, txAt, line, typed, foreign,
                 queue, printed, zeroAt, running>>

\* mcastclient: a line is typed, or the input ends.
Type ==
  /\ tx = "sending" /\ pair = "mcast" /\ line = 0
  /\ \/ /\ typed < MaxLines /\ typed' = typed + 1 /\ line' \in LineLen
        /\ UNCHANGED tx
     \/ tx' = "exited" /\ UNCHANGED <<line, typed>>
  /\ UNCHANGED <<pair, addr, joined, rx, rxAt, txAt, foreign, net, queue,
                 printed, zeroAt, running>>
\* Each fgets takes what fits; a failed sendto drops that piece only.
SendPiece ==
  LET n == IF line < FGETS_MAX THEN line ELSE FGETS_MAX IN
  /\ tx = "sending" /\ line > 0 /\ line' = line - n
  /\ net' \in {net, net \cup {OwnDatagram(n)}}
  /\ UNCHANGED <<pair, addr, joined, rx, rxAt, tx, txAt, typed, foreign, queue,
                 printed, zeroAt, running>>

Foreign ==
  /\ foreign < MaxForeign /\ foreign' = foreign + 1
  /\ \E n \in ForeignLen, to \in {"host", "broadcast", "group", "other group"} :
       net' = net \cup {[len |-> n, to |-> to, by |-> "foreign"]}
  /\ UNCHANGED <<pair, addr, joined, rx, rxAt, tx, txAt, line, typed, queue,
                 printed, zeroAt, running>>

\* What the kernel hands to the socket: a socket bound to any address also
\* gets the groups other programs of the host are members of.
Reaches(d) ==
  CASE d.to = "host"      -> TRUE
    [] d.to = "broadcast" -> addr = "any"
    [] d.to = "group"     -> Done("join")
    [] OTHER              -> addr = "any" /\ joined
Deliver ==
  \E d \in net :
    /\ net' = net \ {d}
    /\ queue' = IF Done("bind") /\ rx # "exited" /\ Reaches(d)
                THEN Append(queue, d) ELSE queue
    /\ UNCHANGED <<pair, addr, joined, rx, rxAt, tx, txAt, line, typed, foreign,
                   printed, zeroAt, running>>
Lose ==
  \E d \in net :
    /\ net' = net \ {d}
    /\ UNCHANGED <<pair, addr, joined, rx, rxAt, tx, txAt, line, typed, foreign,
                   queue, printed, zeroAt, running>>

UdpNext == Setup \/ SigInt \/ Loop \/ Recvfrom \/ Receive \/ Timeout
             \/ SendSetup \/ SendOnce \/ Type \/ SendPiece \/ Foreign \/ Deliver \/ Lose

\* The receiver is scheduled, and its timeout comes.
UdpFairness == WF_udpVars(Setup) /\ WF_udpVars(Loop \/ Recvfrom \/ Receive \/ Timeout)
UdpSpec == UdpInit /\ [][UdpNext]_udpVars /\ UdpFairness
-----------------------------------------------------------------------------
UdpTypeOK ==
  /\ pair \in Pair /\ addr \in {"any", "one"} /\ joined \in BOOLEAN
  /\ rx \in {"setup", "loop", "tested", "receiving", "exited"}
  /\ tx \in {"setup", "sending", "exited"}
  /\ rxAt \in 1..(Len(Receiver(pair).steps) + 1)
  /\ txAt \in 1..(Len(Sender(pair)) + 1)
  /\ typed \in 0..MaxLines /\ foreign \in 0..MaxForeign
  /\ \A d \in net \cup printed : d \in Datagram
  /\ running \in BOOLEAN

(***************************************************************************)
(* The terminator is written inside the buffer, except by simple_udpserver *)
(* for a datagram that fills the buffer: recvfrom gets all 128 bytes of    *)
(* it, so buff[len] is one past its end.                                   *)
(***************************************************************************)
TerminatorInside ==
  zeroAt < Receiver(pair).size \/ (pair = "simple" /\ zeroAt = 128)

(***************************************************************************)
(* A receiver prints only what was sent to its host, to the broadcast      *)
(* address or to its own group - and, when bound to any address, what was  *)
(* sent to a group another program of the host has joined: the multicast   *)
(* receiver tells the groups apart no more than the others do.             *)
(***************************************************************************)
OthersTrafficExplained ==
  \A d \in printed :
    /\ d.to = "group" => pair = "mcast"
    /\ d.to = "other group" => joined /\ addr = "any"
=============================================================================
