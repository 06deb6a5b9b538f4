------------------------------- MODULE Uplink -------------------------------
(***************************************************************************)
(* Client to server, packets sent whole (no FEC), with restarts of the     *)
(* client.  Each gateway (uctun.c) numbers its packets from 0 and marks the*)
(* first one GATEWAY_START, "notify server clean packet sequence".  The    *)
(* server (ustun.c) reads all gateways' copies in UDP_WORKER receiver      *)
(* threads that share one sequence map: on a start flag a thread runs      *)
(* init_dedup_state, which tests and sets last_ts and clears the map       *)
(* without taking dedup_mutex, then looks the copy up like any other.      *)
(***************************************************************************)
EXTENDS SeqMap, TLC

CONSTANTS
  Gateway,      \* the clients
  Path,         \* the APNs of a client
  Worker,       \* the server's receiver threads
  CLEAN_SECS,   \* seconds between two cleans of the map (3 in the code)
  SKEW,         \* packets numbered while a copy is still under way
  LIFE,         \* seconds a copy is under way
  GAP,          \* seconds between a client's first packet and its restart
  MaxPackets,   \* bound: packets numbered by all clients together
  MaxTime,      \* bound: seconds
  MaxRuns,      \* bound: runs of each client
  NoCopy        \* a receiver thread that holds no copy

ASSUME UplinkAssumption ==
  /\ CLEAN_SECS \in Nat /\ SKEW \in Nat \ {0} /\ LIFE \in Nat /\ GAP \in Nat
  /\ MaxPackets \in Nat /\ MaxTime \in Nat /\ MaxRuns \in Nat \ {0}

Pkt == 0 .. (MaxPackets - 1)
Run == 1 .. MaxRuns
Copy == [n : Pkt, gw : Gateway, run : Run, seq : SeqNo, start : BOOLEAN, path : Path]

VARIABLES
  sequence,     \* client: static uint16_t sequence of send_packet
  first,        \* client: static int first of send_packet
  run,          \* client: history, which run of the program this is
  started,      \* client: history, when the last first packet was sent
  net,          \* copies in the network
  pc,           \* thread: "recv", "init", "mark", "clear", "time", "check", "write"
  copy,         \* thread: the copy it is handling
  ts,           \* thread: the last time(NULL) it read
  pos,          \* thread: entries its memset has cleared
  seq_map,      \* dedup_state.seq_map of the server
  last_update,  \* dedup_state.last_update of the server
  last_ts,      \* static last_ts of init_dedup_state
  now,          \* the clock
  sent,         \* history: packets numbered so far
  sentAt,       \* history: when each packet was sent
  accepted,     \* history: packets is_duplicate let through
  settled,      \* history: those first let through when no start was pending
  handled,      \* history: runs <<g, r>> a start copy of which was handled
  dropped,      \* history: packets judged duplicate before any was accepted,
                \*   and whether the clean for their run was over by then
  written       \* history: how often each packet reached the TUN device

clientVars == <<sequence, first, run, started, sent, sentAt>>
dedupVars == <<seq_map, last_update, last_ts>>
workerVars == <<pc, copy, ts, pos>>
verdictVars == <<accepted, settled, dropped>>
vars == <<clientVars, net, workerVars, dedupVars, now, verdictVars, handled, written>>

\* The server has just started: main() has run init_dedup_state.
Init ==
  /\ sequence = [g \in Gateway |-> 0]
  /\ first = [g \in Gateway |-> TRUE]
  /\ run = [g \in Gateway |-> 1]
  /\ started = [g \in Gateway |-> 0]
  /\ net = {}
  /\ pc = [w \in Worker |-> "recv"]
  /\ copy = [w \in Worker |-> NoCopy]
  /\ ts = [w \in Worker |-> 0]
  /\ pos = [w \in Worker |-> 0]
  /\ seq_map = Cleared
  /\ last_update = 0
  /\ last_ts = 0
  /\ now = 0
  /\ sent = 0
  /\ sentAt = [n \in Pkt |-> 0]
  /\ accepted = {}
  /\ settled = {}
  /\ handled = {}
  /\ dropped = {}
  /\ written = [n \in Pkt |-> 0]

\* Copies that will still be looked up, unless they are lost.
UnderWay == net \cup {copy[w] : w \in {v \in Worker : pc[v] \notin {"recv", "write"}}}

-----------------------------------------------------------------------------
(* A client *)

\* send_packet, the branch that sends the packet whole on every bound socket.
SendPacket(g) ==
  /\ sent < MaxPackets
  /\ \A c \in UnderWay : sent + 1 - c.n <= SKEW
  /\ \E up \in SUBSET Path :
       net' = net \cup {[n |-> sent, gw |-> g, run |-> run[g], seq |-> sequence[g],
                         start |-> first[g], path |-> p] : p \in up}
  /\ first' = [first EXCEPT ![g] = FALSE]
  /\ started' = IF first[g] THEN [started EXCEPT ![g] = now] ELSE started
  /\ sequence' = [sequence EXCEPT ![g] = (@ + 1) % SEQ_MOD]
  /\ sent' = sent + 1
  /\ sentAt' = [sentAt EXCEPT ![sent] = now]
  /\ UNCHANGED <<run, workerVars, dedupVars, now, verdictVars, handled, written>>

\* The program ends and is started again; what it had sent has arrived or is
\* lost by then.
ClientRestart(g) ==
  /\ run[g] < MaxRuns
  /\ now - started[g] > GAP
  /\ \A c \in UnderWay : c.gw # g
  /\ sequence' = [sequence EXCEPT ![g] = 0]
  /\ first' = [first EXCEPT ![g] = TRUE]
  /\ run' = [run EXCEPT ![g] = @ + 1]
  /\ UNCHANGED <<started, sent, sentAt, net, workerVars, dedupVars, now, verdictVars, handled, written>>

-----------------------------------------------------------------------------
(* The network and the clock *)

Lose(c) ==
  /\ net' = net \ {c}
  /\ UNCHANGED <<clientVars, workerVars, dedupVars, now, verdictVars, handled, written>>

Tick ==
  /\ now < MaxTime
  /\ \A c \in UnderWay : now + 1 - sentAt[c.n] <= LIFE
  /\ now' = now + 1
  /\ UNCHANGED <<clientVars, net, workerVars, dedupVars, verdictVars, handled, written>>

-----------------------------------------------------------------------------
(* A receiver thread of the server (udp_receiver_thread) *)

\* recvmmsg returns a copy, which the network may yet deliver again.
Receive(w, c) ==
  /\ pc[w] = "recv"
  /\ net' \in {net, net \ {c}}
  /\ copy' = [copy EXCEPT ![w] = c]
  /\ pc' = [pc EXCEPT ![w] = IF c.start THEN "init" ELSE "time"]
  /\ UNCHANGED <<clientVars, ts, pos, dedupVars, now, verdictVars, handled, written>>

\* The start flag has been seen to; on to update_gateway_map and is_duplicate.
StartHandled(w) ==
  /\ handled' = handled \cup {<<copy[w].gw, copy[w].run>>}
  /\ pc' = [pc EXCEPT ![w] = "time"]

\* Mutant: the map is always taken to have been cleaned just now.
InitTestNever(w) ==
  /\ pc[w] = "init"
  /\ ts' = [ts EXCEPT ![w] = now]
  /\ StartHandled(w)
  /\ UNCHANGED <<clientVars, net, copy, pos, dedupVars, now, verdictVars, written>>

\* init_dedup_state: the test of last_ts, taken without a lock.
InitTest(w) ==
  /\ pc[w] = "init"
  /\ ts' = [ts EXCEPT ![w] = now]
  /\ \/ /\ now - last_ts > CLEAN_SECS
        /\ pc' = [pc EXCEPT ![w] = "mark"]
        /\ UNCHANGED handled
     \/ /\ now - last_ts <= CLEAN_SECS
        /\ StartHandled(w)
  /\ UNCHANGED <<clientVars, net, copy, pos, dedupVars, now, verdictVars, written>>

\* ... the store of last_ts.
InitMark(w) ==
  /\ pc[w] = "mark"
  /\ last_ts' = ts[w]
  /\ pos' = [pos EXCEPT ![w] = 0]
  /\ pc' = [pc EXCEPT ![w] = "clear"]
  /\ UNCHANGED <<clientVars, net, copy, ts, seq_map, last_update, now, verdictVars, handled, written>>

\* ... the memset, one entry at a time as the other threads see it, and the
\* store of last_update after the last one.
InitClear(w) ==
  /\ pc[w] = "clear"
  /\ \/ /\ pos[w] < SEQ_MAP_SIZE
        /\ seq_map' = [seq_map EXCEPT ![pos[w]] = EMPTY]
        /\ pos' = [pos EXCEPT ![w] = @ + 1]
        /\ UNCHANGED <<pc, last_update, handled>>
     \/ /\ pos[w] = SEQ_MAP_SIZE
        /\ last_update' = ts[w]
        /\ StartHandled(w)
        /\ UNCHANGED <<seq_map, pos>>
  /\ UNCHANGED <<clientVars, net, copy, ts, last_ts, now, verdictVars, written>>

\* is_duplicate reads the clock before it takes the lock.
ReadTime(w) ==
  /\ pc[w] = "time"
  /\ ts' = [ts EXCEPT ![w] = now]
  /\ pc' = [pc EXCEPT ![w] = "check"]
  /\ UNCHANGED <<clientVars, net, copy, pos, dedupVars, now, verdictVars, handled, written>>

\* The thread goes back to recvmmsg; its locals are dead.
Done(w) ==
  /\ pc' = [pc EXCEPT ![w] = "recv"]
  /\ copy' = [copy EXCEPT ![w] = NoCopy]
  /\ ts' = [ts EXCEPT ![w] = 0]
  /\ pos' = [pos EXCEPT ![w] = 0]

\* No thread is inside init_dedup_state; no start copy will get there either.
NoClean == \A v \in Worker : pc[v] \notin {"init", "mark", "clear"}
StartOver == NoClean /\ \A c \in net : ~c.start

\* The locked section of is_duplicate.
IsDuplicate(w) ==
  LET c    == copy[w]
      idle == Idle(ts[w], last_update)
      map  == IF idle THEN Cleared ELSE seq_map
      known == <<c.gw, c.run>> \in handled /\ NoClean
  IN
  /\ pc[w] = "check"
  /\ \/ /\ Holds(map, c.seq)
        /\ seq_map' = map
        /\ last_update' = IF idle THEN ts[w] ELSE last_update
        /\ dropped' = IF c.n \in accepted THEN dropped
                      ELSE dropped \cup {[n |-> c.n, seq |-> c.seq, known |-> known]}
        /\ Done(w)
        /\ UNCHANGED <<accepted, settled>>
     \/ /\ ~Holds(map, c.seq)
        /\ seq_map' = Store(map, c.seq)
        /\ last_update' = ts[w]
        /\ accepted' = accepted \cup {c.n}
        /\ settled' = IF StartOver /\ c.n \notin accepted
                      THEN settled \cup {c.n} ELSE settled
        /\ pc' = [pc EXCEPT ![w] = "write"]
        /\ UNCHANGED <<copy, ts, pos, dropped>>
  /\ UNCHANGED <<clientVars, net, last_ts, now, handled, written>>

\* write(tun_fd, ...), outside the lock.
WriteTun(w) ==
  /\ pc[w] = "write"
  /\ written' = [written EXCEPT ![copy[w].n] = @ + 1]
  /\ Done(w)
  /\ UNCHANGED <<clientVars, net, dedupVars, now, verdictVars, handled>>

Next ==
  \/ \E g \in Gateway : SendPacket(g) \/ ClientRestart(g)
  \/ Tick
  \/ \E c \in net : Lose(c)
  \/ \E w \in Worker, c \in net : Receive(w, c)
  \/ \E w \in Worker : \/ InitTest(w) \/ InitMark(w) \/ InitClear(w)
                       \/ ReadTime(w) \/ IsDuplicate(w) \/ WriteTun(w)

Spec == Init /\ [][Next]_vars

\* For the checks: paths, and receiver threads, are interchangeable.
Symmetry == Permutations(Path) \cup Permutations(Worker)

-----------------------------------------------------------------------------
(* Properties *)

TypeOK ==
  /\ sequence \in [Gateway -> SeqNo]
  /\ first \in [Gateway -> BOOLEAN]
  /\ run \in [Gateway -> Run]
  /\ started \in [Gateway -> Nat]
  /\ net \subseteq Copy
  /\ pc \in [Worker -> {"recv", "init", "mark", "clear", "time", "check", "write"}]
  /\ copy \in [Worker -> Copy \cup {NoCopy}]
  /\ \A w \in Worker : pc[w] # "recv" => copy[w] \in Copy
  /\ ts \in [Worker -> Nat]
  /\ pos \in [Worker -> 0 .. SEQ_MAP_SIZE]
  /\ seq_map \in [Slot -> SeqNo]
  /\ last_update \in Nat /\ last_ts \in Nat /\ now \in Nat
  /\ sent \in 0 .. MaxPackets
  /\ sentAt \in [Pkt -> Nat]
  /\ settled \subseteq accepted /\ accepted \subseteq Pkt
  /\ handled \subseteq Gateway \X Run
  /\ dropped \subseteq [n : Pkt, seq : SeqNo, known : BOOLEAN]
  /\ written \in [Pkt -> Nat]

\* Duplicates reach the server's IP stack only around a client's start: a
\* packet first accepted when no start copy was under way and no thread was
\* clearing the map is written once, though init_dedup_state and is_duplicate
\* share the map and last_ts without a common lock.
SettledOnce == \A n \in settled : written[n] <= 1

\* Once a start copy of a client's run has been handled, and while no thread
\* is still clearing the map for it, a packet of that run is thrown away unseen
\* only for carrying the number a cleared entry reads.  (A run too short to
\* wrap the counter.)
StartCleans == \A d \in dropped : d.known => d.seq = EMPTY

\* What ustun.c says of the packets it drops at that place: duplicates.
OnlyDuplicatesDropped == dropped = {}

=============================================================================
