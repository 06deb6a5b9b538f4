------------------------------- MODULE Routing -------------------------------
(***************************************************************************)
(* Which gateway, and which of its addresses, a packet from the server's   *)
(* TUN device is sent to.  The receiver threads learn the gateways'        *)
(* addresses (update_gateway_map) and who opened which connection          *)
(* (update_conn_table); the main thread looks both up for every packet,    *)
(* uses the gateway's entry after the unlock, and cleans both tables, but  *)
(* only after a packet and at most once per CONN_TIMEOUT.                  *)
(*                                                                         *)
(* Both lists hold a key at most once, looked up and inserted under one    *)
(* mutex: they are modelled as functions from the keys present.            *)
(***************************************************************************)
EXTENDS Integers, FiniteSets, Functions

CONSTANTS
  Gateway,        \* gateway ids
  Apn,            \* paths of a gateway, 1 to MAX_GW_APN              (2)
  CONN_TIMEOUT,   \* seconds                                        (180)
  Flow,           \* connections: <<address of the client, of the other host>>
  WORD,           \* the values of an address and of hash_val       (2^32)
  Addr,           \* addresses a gateway's packets come from
  Worker,         \* the UDP_WORKER receiver threads                  (2)
  STALL,          \* seconds between time() and the lock, at most
  MALLOC_FAILS,   \* whether malloc may return NULL
  MaxTime,        \* bound: the clock
  None,           \* no value; of an address: all zero
  Torn            \* an address read while it is being written

ASSUME RoutingAssumption ==
  /\ CONN_TIMEOUT \in Nat /\ STALL \in Nat /\ MaxTime \in Nat \ {0}
  /\ WORD \in Nat \ {0} /\ Flow \subseteq (0 .. WORD - 1) \X (0 .. WORD - 1)
  /\ MALLOC_FAILS \in BOOLEAN

Time == 0 .. MaxTime

\* hash_val, the key of a connection: all that an entry is compared by.  The
\* same for the packets of both directions.
conn_hash_cal(src, dst) == (src + dst) % WORD

Key == {conn_hash_cal(f[1], f[2]) : f \in Flow}
Message == [gw : Gateway, apn : Apn, addr : Addr, flow : Flow \cup {None}]
GatewayAddr == [addr_apn : [Apn -> Addr \cup {None}], last_seen_apn : [Apn -> Time]]
ConnEntry == [gateway_id : Gateway, last_used : Time]

VARIABLES
  now,            \* time(NULL)
  gateway_addrs,  \* gateway id -> its addresses
  conn_table,     \* hash -> the connection's entry
  pc,             \* receiver thread: "recv", "gateway", "conn"
  msg,            \* receiver thread: the packet it is handling
  ts,             \* receiver thread: the time it read
  main,           \* main thread: "read", "send", "check", "conns"
  pkt,            \* main thread: the packet's flow and the gateway found for it
  last_cleanup,   \* main thread: when it last cleaned the tables
  out,            \* history: datagrams of the packet sent last
  wild,           \* history: gateways whose missing entry was used all the same
  heard,          \* history: the latest packet of each path handled
  opened,         \* history: <<gateway, flow>> of the packets read
  announced,      \* history: <<gateway, path, address>> of the packets read
  removed,        \* history: gateways a cleanup removed
  unmade          \* history: gateways malloc refused an entry

tables == <<gateway_addrs, conn_table>>
workerVars == <<pc, msg, ts>>
mainVars == <<main, pkt, last_cleanup, out, wild, removed>>
history == <<heard, opened, announced, unmade>>
vars == <<now, tables, workerVars, mainVars, history>>

Init ==
  /\ now = 1
  /\ gateway_addrs = <<>>
  /\ conn_table = <<>>
  /\ pc = [w \in Worker |-> "recv"]
  /\ msg = [w \in Worker |-> None]
  /\ ts = [w \in Worker |-> 0]
  /\ main = "read"
  /\ pkt = None
  /\ last_cleanup = 1
  /\ out = {}
  /\ wild = {}
  /\ heard = [g \in Gateway |-> [p \in Apn |-> 0]]
  /\ opened = {}
  /\ announced = {}
  /\ removed = {}
  /\ unmade = {}

\* The clock; no thread keeps a time it read for more than STALL seconds.
Tick ==
  /\ now < MaxTime
  /\ \A w \in Worker : pc[w] = "gateway" => now + 1 - ts[w] <= STALL
  /\ now' = now + 1
  /\ UNCHANGED <<tables, workerVars, mainVars, history>>

Set(f, x, v) == [y \in DOMAIN f \cup {x} |-> IF y = x THEN v ELSE f[y]]

-----------------------------------------------------------------------------
(* A receiver thread *)

\* Mutant: the packet's gateway is not entered before its connection.
ReceiveSkipsGateway(w) ==
  /\ pc[w] = "recv"
  /\ \E m \in Message :
       /\ msg' = [msg EXCEPT ![w] = m]
       /\ opened' = opened \cup ({m.gw} \X ({m.flow} \ {None}))
       /\ announced' = announced \cup {<<m.gw, m.apn, m.addr>>}
  /\ pc' = [pc EXCEPT ![w] = "conn"]
  /\ UNCHANGED <<now, tables, ts, mainVars, heard, unmade>>

\* A packet is read, and update_gateway_map takes the time before the lock.
\* The payload of a shard need not be an IPv4 header (None), or is one by
\* chance.
Receive(w) ==
  /\ pc[w] = "recv"
  /\ \E m \in Message :
       /\ msg' = [msg EXCEPT ![w] = m]
       /\ opened' = opened \cup ({m.gw} \X ({m.flow} \ {None}))
       /\ announced' = announced \cup {<<m.gw, m.apn, m.addr>>}
  /\ ts' = [ts EXCEPT ![w] = now]
  /\ pc' = [pc EXCEPT ![w] = "gateway"]
  /\ UNCHANGED <<now, tables, mainVars, heard, unmade>>

\* Mutant: without the memset the entry's addresses are whatever was there.
FreshUncleared == [addr_apn |-> [p \in Apn |-> Torn],
                   last_seen_apn |-> [p \in Apn |-> 0]]

\* A new entry is all zero but for the path the packet came over.
FreshGateway == [addr_apn |-> [p \in Apn |-> None],
                 last_seen_apn |-> [p \in Apn |-> 0]]

\* Mutant: the path the packet came over is ignored.
RefreshedAll(e, m, t) ==
  [e EXCEPT !.addr_apn = [p \in Apn |-> m.addr], !.last_seen_apn = [p \in Apn |-> t]]

Refreshed(e, m, t) ==
  [e EXCEPT !.addr_apn[m.apn] = m.addr, !.last_seen_apn[m.apn] = t]

UpdateGatewayMap(w) ==
  LET m == msg[w]
      known == m.gw \in DOMAIN gateway_addrs
      entry == IF known THEN gateway_addrs[m.gw] ELSE FreshGateway
  IN
  /\ pc[w] = "gateway"
  /\ \/ /\ gateway_addrs' = Set(gateway_addrs, m.gw, Refreshed(entry, m, ts[w]))
        /\ UNCHANGED unmade
     \/ /\ ~known /\ MALLOC_FAILS
        /\ unmade' = unmade \cup {m.gw}
        /\ UNCHANGED gateway_addrs
  /\ heard' = [heard EXCEPT ![m.gw][m.apn] = IF @ > ts[w] THEN @ ELSE ts[w]]
  /\ pc' = [pc EXCEPT ![w] = "conn"]
  /\ ts' = [ts EXCEPT ![w] = 0]
  /\ UNCHANGED <<now, conn_table, msg, mainVars, opened, announced>>

\* The entry of a connection keeps the gateway that opened it.
Touched(h, g) ==
  [gateway_id |-> IF h \in DOMAIN conn_table THEN conn_table[h].gateway_id ELSE g,
   last_used  |-> now]

UpdateConnTable(w) ==
  LET f == msg[w].flow
      h == conn_hash_cal(f[1], f[2])
  IN
  /\ pc[w] = "conn"
  /\ \/ f = None /\ UNCHANGED conn_table
     \/ /\ f # None
        /\ \/ conn_table' = Set(conn_table, h, Touched(h, msg[w].gw))
           \/ h \notin DOMAIN conn_table /\ MALLOC_FAILS /\ UNCHANGED conn_table
  /\ pc' = [pc EXCEPT ![w] = "recv"]
  /\ msg' = [msg EXCEPT ![w] = None]
  /\ UNCHANGED <<now, gateway_addrs, ts, mainVars, history>>

-----------------------------------------------------------------------------
(* The main thread *)

\* Mutant: the hashes are not compared.
FindGatewayAny(f) ==
  /\ main = "read"
  /\ \E h \in DOMAIN conn_table :
       /\ conn_table' = [conn_table EXCEPT ![h].last_used = now]
       /\ pkt' = [flow |-> f, gw |-> conn_table[h].gateway_id]
  /\ main' = "send"
  /\ UNCHANGED <<now, gateway_addrs, workerVars, last_cleanup, out, wild, removed, history>>

\* find_gateway_for_packet, of a packet from the other host to the client: one
\* with no entry of its hash is dropped.
FindGateway(f) ==
  LET h == conn_hash_cal(f[2], f[1]) IN
  /\ main = "read"
  /\ \/ /\ h \in DOMAIN conn_table
        /\ conn_table' = [conn_table EXCEPT ![h].last_used = now]
        /\ pkt' = [flow |-> f, gw |-> conn_table[h].gateway_id]
        /\ main' = "send"
     \/ /\ h \notin DOMAIN conn_table
        /\ main' = "check"
        /\ UNCHANGED <<conn_table, pkt>>
  /\ UNCHANGED <<now, gateway_addrs, workerVars, last_cleanup, out, wild, removed, history>>

\* Some thread may be writing this path of the entry while main reads it.
Racing(g, p) ==
  \E w \in Worker : pc[w] = "gateway" /\ msg[w].gw = g /\ msg[w].apn = p

\* What the main thread may find in the entry for one path: the address to
\* send to, or None for no datagram.  last_seen_apn may be seen before, and
\* the address in the middle of, a write; sendto refuses an address of zeros.
Reads(g, p) ==
  LET e == gateway_addrs[g]
      racing == IF Racing(g, p) THEN {e.addr_apn[p], Torn} ELSE {}
  IN (IF e.last_seen_apn[p] > 0 THEN {e.addr_apn[p]} ELSE {None}) \cup racing

\* A packet sent as shards goes to one path, whether it was ever heard or not.
FecReads(g, p) ==
  {gateway_addrs[g].addr_apn[p]} \cup (IF Racing(g, p) THEN {Torn} ELSE {})

Datagrams(paths, to) ==
  {[flow |-> pkt.flow, gw |-> pkt.gw, apn |-> p, addr |-> to[p]] :
     p \in {q \in paths : to[q] # None}}

\* get_gateway_addr has found the entry.  When the list does not hold the gateway
\* the cursor ends on the list head, not NULL, and the memory around it is used
\* as an entry; what is sent then is not modelled.
GetGatewayAddr(id) == id \in DOMAIN gateway_addrs

SendToGateway ==
  /\ main = "send"
  /\ \/ /\ GetGatewayAddr(pkt.gw)
        /\ \/ \E to \in [Apn -> Addr \cup {None, Torn}] :
                /\ \A p \in Apn : to[p] \in Reads(pkt.gw, p)
                /\ out' = Datagrams(Apn, to)
           \/ \E p \in Apn : \E a \in FecReads(pkt.gw, p) :
                out' = Datagrams({p}, [q \in {p} |-> a])
        /\ UNCHANGED wild
     \/ /\ ~GetGatewayAddr(pkt.gw)
        /\ wild' = wild \cup {pkt.gw}
        /\ UNCHANGED out
  /\ main' = "check"
  /\ pkt' = None
  /\ UNCHANGED <<now, tables, workerVars, last_cleanup, removed, history>>

\* Mutant: expired a second early.
ExpiredEarly(t) == t > 0 /\ now - t >= CONN_TIMEOUT

Expired(t) == t > 0 /\ now - t > CONN_TIMEOUT

AllExpired(e) == \A p \in Apn : Expired(e.last_seen_apn[p])

\* Paths silent for too long are forgotten, their addresses stay.
Forgotten(e) ==
  [addr_apn |-> e.addr_apn,
   last_seen_apn |-> [p \in Apn |-> IF Expired(e.last_seen_apn[p]) THEN 0 ELSE e.last_seen_apn[p]]]

\* A gateway whose paths all expire in the same round is removed.
CleanupExpiredGateways ==
  LET gone == {g \in DOMAIN gateway_addrs : AllExpired(gateway_addrs[g])} IN
  /\ main = "check" /\ now - last_cleanup > CONN_TIMEOUT
  /\ gateway_addrs' = [g \in DOMAIN gateway_addrs \ gone |-> Forgotten(gateway_addrs[g])]
  /\ removed' = removed \cup gone
  /\ last_cleanup' = now
  /\ main' = "conns"
  /\ out' = {}
  /\ UNCHANGED <<now, conn_table, workerVars, pkt, wild, history>>

CleanupExpiredConnections ==
  /\ main = "conns"
  /\ conn_table' =
       Restrict(conn_table, {h \in DOMAIN conn_table :
                               ~Expired(conn_table[h].last_used)})
  /\ main' = "read"
  /\ UNCHANGED <<now, gateway_addrs, workerVars, pkt, last_cleanup, out, wild, removed, history>>

\* No cleanup after this packet: the last one is recent, or io_uring_poll has
\* more packets of its batch to send first.
NextPacket ==
  /\ main = "check"
  /\ main' = "read"
  /\ out' = {}
  /\ UNCHANGED <<now, tables, workerVars, pkt, last_cleanup, wild, removed, history>>

Next ==
  \/ Tick
  \/ \E w \in Worker : Receive(w) \/ UpdateGatewayMap(w) \/ UpdateConnTable(w)
  \/ \E f \in Flow : FindGateway(f)
  \/ SendToGateway
  \/ CleanupExpiredGateways \/ CleanupExpiredConnections \/ NextPacket

Spec == Init /\ [][Next]_vars

-----------------------------------------------------------------------------
(* Properties *)

Partial(f, S, T) == DOMAIN f \subseteq S /\ \A x \in DOMAIN f : f[x] \in T

TypeOK ==
  /\ now \in Time /\ last_cleanup \in Time
  /\ Partial(gateway_addrs, Gateway, GatewayAddr)
  /\ Partial(conn_table, Key, ConnEntry)
  /\ pc \in [Worker -> {"recv", "gateway", "conn"}]
  /\ msg \in [Worker -> Message \cup {None}]
  /\ ts \in [Worker -> Time]
  /\ main \in {"read", "send", "check", "conns"}
  /\ pkt \in [flow : Flow, gw : Gateway] \cup {None}
  /\ main = "send" => pkt \in [flow : Flow, gw : Gateway]
  /\ out \subseteq [flow : Flow, gw : Gateway, apn : Apn, addr : Addr \cup {Torn}]
  /\ wild \subseteq Gateway /\ removed \subseteq Gateway /\ unmade \subseteq Gateway
  /\ heard \in [Gateway -> [Apn -> Time]]
  /\ opened \subseteq Gateway \X Flow
  /\ announced \subseteq Gateway \X Apn \X Addr

\* The table cannot tell one connection from the other.
Alike(e, f) == conn_hash_cal(e[1], e[2]) = conn_hash_cal(f[1], f[2])

\* A packet goes to a gateway that sent one of the same connection or, as entries
\* are compared by the sum of the two addresses only, of one with the same sum:
\* whichever of them was entered first keeps the gateway of the others.
RepliesToHashOwner ==
  \A d \in out : \E o \in opened : o[1] = d.gw /\ Alike(o[2], d.flow)

\* It goes over a path to an address the gateway used on that very path,
\* although the entry is read without the lock and every thread writes it.
ToAnnouncedAddress ==
  \A d \in out : d.addr = Torn \/ <<d.gw, d.apn, d.addr>> \in announced

\* The lookup of a gateway's addresses (the early return for it in
\* send_to_gateway is never taken) fails for two reasons only, the receiver
\* threads entering a gateway before a connection of it: a cleanup removed the
\* entry while packets to it kept the connection alive, or malloc refused the
\* entry and the connection was entered all the same.
MissingOnlyAfterRemoval == wild \subseteq removed \cup unmade

\* A cleanup forgets only what was silent: neither a path nor a gateway is
\* expired that was heard in the last CONN_TIMEOUT (less a thread's stall),
\* although threads store the times they read in any order.
ForgetsOnlySilent ==
  \A g \in DOMAIN gateway_addrs : \A p \in Apn :
    /\ gateway_addrs[g].last_seen_apn[p] > 0
    /\ g \in DOMAIN gateway_addrs' => gateway_addrs'[g].last_seen_apn[p] = 0
    => now - heard[g][p] > CONN_TIMEOUT - STALL
ExpiresOnlyTheSilent == [][ForgetsOnlySilent]_vars

\* "Gateway %u not found": a gateway that is not in the list is noticed.
NotFoundHandled == wild = {}

=============================================================================
