------------------------------ MODULE TunProcess ------------------------------
(***************************************************************************)
(* The tunnel's two programs as processes (ustun.c the server, uctun.c the *)
(* client): a run creates the TUN device, opens a socket for each receiver *)
(* thread, loops until SIGINT, and closes everything.  The server's threads*)
(* open their own sockets while main already sends; the client's main does *)
(* it before.  NAT rules outlive a run: they are the kernel's.             *)
(*                                                                         *)
(* What the packets are, and what is in them, is the business of the other *)
(* modules; here only the socket a batch of FEC shards is given to.        *)
(***************************************************************************)
EXTENDS Integers, FiniteSetsExt

CONSTANTS
  UDP_WORKER,   \* receiver threads                                   (2)
  Lan,          \* addresses br1 can have on the client
  NoLan,        \* br1 has none
  MaxRuns,      \* bound: runs of the program
  MaxMoves      \* bound: changes of br1's address

ASSUME ProcAssumption ==
  /\ UDP_WORKER \in Nat \ {0}
  /\ NoLan \notin Lan
  /\ MaxRuns \in Nat /\ MaxMoves \in Nat

Worker == 0 .. (UDP_WORKER - 1)

VARIABLES
  prog,      \* "server" or "client"
  main,      \* main(): "out" (no process), "tun", "socks", "loop", "wait" (in
             \*   the read), "fec" (socket chosen), "close", "rules"
  exit_flag, \* gl_exit_flag
  tun,       \* tun_fds[0]: "open", or "stdin": 0, what the array began with
  sock,      \* udp_sock / sock_apn: "fd" (above 0), "zero", "minus"
  live,      \* external: the workers whose socket is open
  thread,    \* receiver thread: "none", "setup", "recv", "closing", "done"
  worker,    \* send_packet: the worker it will send with
  rules,     \* external: NAT rules of the tunnel, for each address
  lan,       \* external: the address of br1
  runs, moves, \* runs begun, changes of lan
  untidy,    \* history: early ends of the client and moves of br1
  misses     \* history: FEC batches given to no open socket

procVars == <<prog, main, exit_flag, tun, sock, live, thread, worker>>
ruleVars == <<rules, lan, moves, untidy>>
allProcVars == <<procVars, ruleVars, runs, misses>>

Server == prog = "server"
\* The server's rule does not depend on an address.
Address == IF Server THEN NoLan ELSE lan

ProcInit ==
  /\ prog = "server" /\ main = "out" /\ exit_flag = FALSE /\ tun = "stdin"
  /\ sock = [w \in Worker |-> "zero"] /\ live = {}
  /\ thread = [w \in Worker |-> "none"] /\ worker = 0
  /\ rules = [l \in Lan \cup {NoLan} |-> 0] /\ lan = NoLan
  /\ runs = 0 /\ moves = 0 /\ untidy = 0 /\ misses = {}

-----------------------------------------------------------------------------
(* A run begins.  The client and the server run on different machines: the *)
(* program changes only when nothing was left behind.                      *)

Begin(p) ==
  /\ main = "out" /\ runs < MaxRuns
  /\ runs = 0 \/ p = prog
  /\ prog' = p /\ main' = "tun" /\ exit_flag' = FALSE /\ tun' = "stdin"
  /\ sock' = [w \in Worker |-> "zero"]
  /\ thread' = [w \in Worker |-> "none"]
  /\ runs' = runs + 1
  /\ UNCHANGED <<live, worker, ruleVars, misses>>

\* The process ends: the kernel closes its descriptors.
Ended ==
  /\ main' = "out" /\ live' = {} /\ exit_flag' = FALSE
  /\ thread' = [w \in Worker |-> "none"]

\* Mutant: the server adds its rule without deleting the old one.
RuleAppended(r) == [r EXCEPT ![Address] = @ + 1]

\* The rules after create_tun_device (the server deletes its rule first) or
\* set_rules (the client appends one if br1 has an address).
RuleAdded(r) ==
  CASE Server                  -> [r EXCEPT ![NoLan] = 1]
    [] ~Server /\ lan \in Lan  -> [r EXCEPT ![lan] = @ + 1]
    [] OTHER                   -> r

\* Where main goes on when create_tun_device returned 0.
AfterTun ==
  IF Server THEN /\ main' = "loop" /\ thread' = [w \in Worker |-> "setup"]
            ELSE /\ main' = "socks" /\ UNCHANGED thread

TunCreated ==
  /\ main = "tun"
  /\ tun' = "open"
  /\ AfterTun
  /\ rules' = RuleAdded(rules)
  /\ UNCHANGED <<prog, exit_flag, sock, live, worker, lan, moves, untidy, runs, misses>>

\* ioctl failed, its result is returned and main gives up.
TunRefused ==
  /\ main = "tun"
  /\ Ended
  /\ UNCHANGED <<prog, tun, sock, worker, ruleVars, runs, misses>>

\* open failed: create_tun_device returns err, which nothing has set.  If it is
\* not 0 main gives up as above; if it is, main goes on with descriptor 0.
TunMissing ==
  /\ main = "tun"
  /\ AfterTun
  /\ rules' = IF Server THEN rules ELSE RuleAdded(rules)
  /\ UNCHANGED <<prog, exit_flag, tun, sock, live, worker, lan, moves, untidy, runs, misses>>

-----------------------------------------------------------------------------
(* Sockets *)

\* The server's receiver thread makes its socket ready, or gives up at one of
\* the steps and leaves udp_sock as it was.
ThreadSetup(w) ==
  /\ thread[w] = "setup"
  /\ \/ /\ sock' = [sock EXCEPT ![w] = "fd"]
        /\ live' = live \cup {w}
        /\ thread' = [thread EXCEPT ![w] = "recv"]
     \/ /\ thread' = [thread EXCEPT ![w] = "done"]
        /\ UNCHANGED <<sock, live>>
  /\ UNCHANGED <<prog, main, exit_flag, tun, worker, ruleVars, runs, misses>>

\* The client's main opens them in order; a socket that cannot be set up or
\* bound to its interface is closed and its place becomes -1.
OpenSocket(w) ==
  /\ main = "socks"
  /\ sock[w] = "zero" /\ \A v \in Worker : v < w => sock[v] # "zero"
  /\ \/ /\ sock' = [sock EXCEPT ![w] = "fd"]
        /\ live' = live \cup {w}
        /\ thread' = [thread EXCEPT ![w] = "recv"]
     \/ /\ sock' = [sock EXCEPT ![w] = "minus"]
        /\ UNCHANGED <<live, thread>>
  /\ UNCHANGED <<prog, main, exit_flag, tun, worker, ruleVars, runs, misses>>

\* socket() failed, or no socket could be bound: return 1, the rule stays.
GiveUp ==
  /\ main = "socks"
  /\ (\E w \in Worker : sock[w] = "zero") \/ (\A w \in Worker : sock[w] = "minus")
  /\ Ended
  /\ untidy' = untidy + 1
  /\ UNCHANGED <<prog, tun, sock, worker, rules, lan, moves, runs, misses>>

SocketsReady ==
  /\ main = "socks"
  /\ \A w \in Worker : sock[w] # "zero"
  /\ \E w \in Worker : sock[w] = "fd"
  /\ main' = "loop"
  /\ UNCHANGED <<prog, exit_flag, tun, sock, live, thread, worker, ruleVars, runs, misses>>

-----------------------------------------------------------------------------
(* The loop *)

MayWait == ~exit_flag

EnterRead ==
  /\ main = "loop"
  /\ MayWait
  /\ main' = "wait"
  /\ UNCHANGED <<prog, exit_flag, tun, sock, live, thread, worker, ruleVars, runs, misses>>

LeaveLoop ==
  /\ main = "loop"
  /\ ~MayWait
  /\ main' = "close"
  /\ UNCHANGED <<prog, exit_flag, tun, sock, live, thread, worker, ruleVars, runs, misses>>

\* A packet that is not encoded goes out on every socket above 0; that, and a
\* read that gave nothing (EAGAIN: the client's device is not blocking), leave
\* nothing behind here.
ReadReturns ==
  /\ main = "wait"
  /\ ~Server /\ tun = "open"
  /\ main' = "loop"
  /\ UNCHANGED <<prog, exit_flag, tun, sock, live, thread, worker, ruleVars, runs, misses>>

\* The same for what may never come: a packet for the server, which sleeps in
\* io_uring_wait_cqe, and input on descriptor 0.
BlockedReadReturns ==
  /\ main = "wait"
  /\ Server \/ tun = "stdin"
  /\ main' = "loop"
  /\ UNCHANGED <<prog, exit_flag, tun, sock, live, thread, worker, ruleVars, runs, misses>>

\* The client's main ends its loop on any other error.
TunReadFails ==
  /\ main = "wait"
  /\ ~Server
  /\ main' = "close"
  /\ UNCHANGED <<prog, exit_flag, tun, sock, live, thread, worker, ruleVars, runs, misses>>

\* Mutant: the round robin's choice is taken as it is.
NextWorkerAny(w) == w

\* The round robin's worker, or the first with a socket if its own is below 0.
NextWorker(w) ==
  LET bound == {v \in Worker : sock[v] = "fd"} IN
  IF sock[w] = "minus" /\ bound # {} THEN CHOOSE v \in bound : \A u \in bound : v <= u
  ELSE w

\* A packet to be encoded: the worker is chosen, then the batch is made up.
ChooseWorker(w) ==
  /\ main = "wait"
  /\ worker' = NextWorker(w)
  /\ main' = "fec"
  /\ UNCHANGED <<prog, exit_flag, tun, sock, live, thread, ruleVars, runs, misses>>

SendMmsg ==
  /\ main = "fec"
  /\ main' = "loop"
  /\ misses' = IF sock[worker] = "fd" /\ worker \in live THEN misses
               ELSE misses \cup {[prog |-> prog, sock |-> sock[worker], exiting |-> exit_flag]}
  /\ UNCHANGED <<prog, exit_flag, tun, sock, live, thread, worker, ruleVars, runs>>

\* SIGINT: the handler sets the flag; io_uring_wait_cqe ends with EINTR if main
\* is in it already, and read on descriptor 0 is begun again.
Sigint ==
  /\ main # "out" /\ ~exit_flag
  /\ exit_flag' = TRUE
  /\ main' = IF main = "wait" /\ Server THEN "loop" ELSE main
  /\ UNCHANGED <<prog, tun, sock, live, thread, worker, ruleVars, runs, misses>>

-----------------------------------------------------------------------------
(* The end *)

\* A receiver thread polls its socket and sees the flag ...
ThreadCloses(w) ==
  /\ thread[w] = "recv" /\ exit_flag
  /\ live' = live \ {w}
  /\ thread' = [thread EXCEPT ![w] = "closing"]
  /\ UNCHANGED <<prog, main, exit_flag, tun, sock, worker, ruleVars, runs, misses>>

\* ... and only then says that the socket is gone.
ThreadDone(w) ==
  /\ thread[w] = "closing"
  /\ sock' = [sock EXCEPT ![w] = "minus"]
  /\ thread' = [thread EXCEPT ![w] = "done"]
  /\ UNCHANGED <<prog, main, exit_flag, tun, live, worker, ruleVars, runs, misses>>

\* main, after sleep(1), closes the device and the sockets that are left.
CloseAll ==
  /\ main = "close"
  /\ live' = live \ {w \in Worker : sock[w] = "fd"}
  /\ main' = "rules"
  /\ UNCHANGED <<prog, exit_flag, tun, sock, thread, worker, ruleVars, runs, misses>>

\* The client deletes one rule of br1's address, if it has one now.
RuleDeleted(r) ==
  IF ~Server /\ lan \in Lan /\ r[lan] > 0 THEN [r EXCEPT ![lan] = @ - 1] ELSE r

ProcExits ==
  /\ main = "rules"
  /\ rules' = RuleDeleted(rules)
  /\ Ended
  /\ UNCHANGED <<prog, tun, sock, worker, lan, moves, untidy, runs, misses>>

\* A crash, or SIGKILL.
Killed ==
  /\ main # "out"
  /\ Ended
  /\ untidy' = untidy + 1
  /\ UNCHANGED <<prog, tun, sock, worker, rules, lan, moves, runs, misses>>

\* br1 gets, loses or changes its address.
LanMoves(l) ==
  /\ moves < MaxMoves /\ l # lan
  /\ lan' = l /\ moves' = moves + 1
  /\ untidy' = untidy + 1
  /\ UNCHANGED <<procVars, rules, runs, misses>>

MainStep ==
  \/ TunCreated \/ TunRefused \/ TunMissing
  \/ (\E w \in Worker : OpenSocket(w)) \/ SocketsReady \/ GiveUp
  \/ EnterRead \/ LeaveLoop \/ ReadReturns \/ SendMmsg \/ CloseAll \/ ProcExits

ProcNext ==
  \/ \E p \in {"server", "client"} : Begin(p)
  \/ \E w \in Worker : ThreadSetup(w) \/ ChooseWorker(w) \/ ThreadCloses(w) \/ ThreadDone(w)
  \/ BlockedReadReturns \/ TunReadFails
  \/ MainStep
  \/ Sigint \/ Killed
  \/ \E l \in Lan \cup {NoLan} : LanMoves(l)

\* main and the threads get to run; nothing is said of packets or of signals.
ProcFairness == WF_allProcVars(MainStep)

ProcSpec == ProcInit /\ [][ProcNext]_allProcVars /\ ProcFairness

-----------------------------------------------------------------------------
(* Properties *)

ProcTypeOK ==
  /\ prog \in {"server", "client"}
  /\ main \in {"out", "tun", "socks", "loop", "wait", "fec", "close", "rules"}
  /\ exit_flag \in BOOLEAN /\ tun \in {"open", "stdin"}
  /\ sock \in [Worker -> {"fd", "zero", "minus"}] /\ live \subseteq Worker
  /\ thread \in [Worker -> {"none", "setup", "recv", "closing", "done"}]
  /\ worker \in Worker
  /\ rules \in [Lan \cup {NoLan} -> 0 .. MaxRuns] /\ lan \in Lan \cup {NoLan}
  /\ runs \in 0 .. MaxRuns /\ moves \in 0 .. MaxMoves /\ untidy \in Nat
  /\ misses \subseteq [prog : {"server", "client"}, sock : {"fd", "zero", "minus"},
                        exiting : BOOLEAN]

\* A batch of FEC shards goes to no open socket only while the program ends, or
\* on the server when the worker's thread has not made its socket, or never
\* could: send_to_gateway takes 0 for a socket and does not look further.
FecMissExplained ==
  \A m \in misses : m.exiting \/ (m.prog = "server" /\ m.sock = "zero")

\* The NAT rules do not pile up: the server has one at most whatever its runs
\* did, and the client one for the run at hand and one for each run that ended
\* early (crash, no socket) or change of br1's address.
RulesExplained ==
  /\ rules[NoLan] <= 1
  /\ MapThenSumSet(LAMBDA l : rules[l], Lan) <= untidy + (IF main \in {"out", "tun"} THEN 0 ELSE 1)

\* After SIGINT the program ends, unless main sleeps in a read that only a
\* packet ends: the server's wait for a completion, when the signal came after
\* the flag was tested and before the wait, or a read of descriptor 0.
SigintEnds ==
  exit_flag ~> (main = "out" \/ (main = "wait" /\ (Server \/ tun = "stdin")))
=============================================================================
