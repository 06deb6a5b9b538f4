---------------------------- MODULE Routing_proofs ----------------------------
(***************************************************************************)
(* Where the server's packets go, for every number of gateways, paths,     *)
(* connections and receiver threads: type correctness; that a datagram     *)
(* carries an address its gateway announced on that path; that a gateway's *)
(* entry is missing only after a removal or a failed malloc; that a reply  *)
(* goes to a gateway of its connection or of one with the same hash; and   *)
(* that a cleanup forgets only what was silent.                            *)
(***************************************************************************)
EXTENDS Routing, TLAPS

-----------------------------------------------------------------------------
(* Functions with some of their arguments *)

LEMMA SetPartial ==
  ASSUME NEW f, NEW S, NEW T, NEW x \in S, NEW v \in T, Partial(f, S, T)
  PROVE  Partial(Set(f, x, v), S, T)
BY DEF Partial, Set

LEMMA SetValue ==
  ASSUME NEW f, NEW x, NEW v
  PROVE  /\ DOMAIN Set(f, x, v) = DOMAIN f \cup {x}
         /\ Set(f, x, v)[x] = v
         /\ \A y \in DOMAIN f : y # x => Set(f, x, v)[y] = f[y]
BY DEF Set

-----------------------------------------------------------------------------
(* Type correctness *)

\* A thread past "recv" is handling a packet.
Handling == \A w \in Worker : pc[w] # "recv" => msg[w] \in Message

Typed == TypeOK /\ Handling

LEMMA TypeInit == Init => Typed
<1> SUFFICES ASSUME Init PROVE Typed
  OBVIOUS
<1>1. DOMAIN gateway_addrs = {} /\ DOMAIN conn_table = {}
  BY DEF Init
<1>2. Partial(gateway_addrs, Gateway, GatewayAddr) /\ Partial(conn_table, Key, ConnEntry)
  BY <1>1 DEF Partial
<1>3. 0 \in Time /\ 1 \in Time
  BY RoutingAssumption DEF Time
<1>4. TypeOK
  BY <1>2, <1>3 DEF Init, TypeOK
<1>5. Handling
  BY DEF Init, Handling
<1> QED BY <1>4, <1>5 DEF Typed

\* The entry update_gateway_map stores.
LEMMA RefreshedType ==
  ASSUME NEW e \in GatewayAddr, NEW m \in Message, NEW t \in Time
  PROVE  Refreshed(e, m, t) \in GatewayAddr
BY DEF Refreshed, GatewayAddr, Message

LEMMA FreshType == FreshGateway \in GatewayAddr
BY RoutingAssumption DEF FreshGateway, GatewayAddr, Time

\* The entry cleanup_expired_gateways leaves.
LEMMA ForgottenType == ASSUME NEW e \in GatewayAddr PROVE Forgotten(e) \in GatewayAddr
BY RoutingAssumption DEF Forgotten, GatewayAddr, Time

LEMMA TypeNext == Typed /\ [Next]_vars => Typed'
<1> SUFFICES ASSUME Typed, [Next]_vars PROVE Typed'
  OBVIOUS
<1> USE DEF Typed
<1>1. CASE Tick
  <2>1. now' \in Time
    BY <1>1, RoutingAssumption DEF Tick, Time, TypeOK
  <2> QED BY <1>1, <2>1 DEF Tick, TypeOK, Handling, tables, workerVars, mainVars, history
<1>2. ASSUME NEW w \in Worker, Receive(w) PROVE Typed'
  <2> USE <1>2 DEF Receive, tables, mainVars
  <2>1. PICK m \in Message :
          /\ msg' = [msg EXCEPT ![w] = m]
          /\ opened' = opened \cup ({m.gw} \X ({m.flow} \ {None}))
          /\ announced' = announced \cup {<<m.gw, m.apn, m.addr>>}
    OBVIOUS
  <2>2. m.gw \in Gateway /\ m.apn \in Apn /\ m.addr \in Addr /\ m.flow \in Flow \cup {None}
    BY DEF Message
  <2>3. opened' \subseteq Gateway \X Flow /\ announced' \subseteq Gateway \X Apn \X Addr
    BY <2>1, <2>2 DEF TypeOK
  <2>4. /\ msg' \in [Worker -> Message \cup {None}] /\ ts' \in [Worker -> Time]
        /\ pc' \in [Worker -> {"recv", "gateway", "conn"}]
    BY <2>1 DEF TypeOK
  <2>5. Handling'
    BY <2>1 DEF Handling, TypeOK
  <2> QED BY <2>3, <2>4, <2>5 DEF TypeOK
<1>3. ASSUME NEW w \in Worker, UpdateGatewayMap(w) PROVE Typed'
  <2> USE <1>3 DEF UpdateGatewayMap, mainVars
  <2> DEFINE m == msg[w]
             e == IF m.gw \in DOMAIN gateway_addrs THEN gateway_addrs[m.gw] ELSE FreshGateway
  <2>1. m \in Message /\ m.gw \in Gateway /\ m.apn \in Apn
    BY DEF Handling, Message
  <2>2. e \in GatewayAddr /\ ts[w] \in Time
    BY <2>1, FreshType DEF TypeOK, Partial
  <2>3. Partial(gateway_addrs', Gateway, GatewayAddr)
    <3>1. Partial(Set(gateway_addrs, m.gw, Refreshed(e, m, ts[w])), Gateway, GatewayAddr)
      <4> HIDE DEF m, e
      <4> QED BY <2>1, <2>2, RefreshedType, SetPartial DEF TypeOK
    <3> QED BY <3>1 DEF TypeOK
  <2>4. heard' \in [Gateway -> [Apn -> Time]]
    BY <2>1, <2>2 DEF TypeOK
  <2>5. unmade' \subseteq Gateway
    BY <2>1 DEF TypeOK
  <2>6. /\ ts' \in [Worker -> Time] /\ pc' \in [Worker -> {"recv", "gateway", "conn"}]
    BY RoutingAssumption DEF TypeOK, Time
  <2>7. Handling'
    BY <2>1 DEF Handling, TypeOK
  <2> QED BY <2>3, <2>4, <2>5, <2>6, <2>7 DEF TypeOK
<1>4. ASSUME NEW w \in Worker, UpdateConnTable(w) PROVE Typed'
  <2> USE <1>4 DEF UpdateConnTable, mainVars, history
  <2> DEFINE h == conn_hash_cal(msg[w].flow[1], msg[w].flow[2])
  <2>1. msg[w] \in Message /\ msg[w].gw \in Gateway /\ msg[w].flow \in Flow \cup {None}
    BY DEF Handling, Message
  <2>2. Partial(conn_table', Key, ConnEntry)
    <3>1. CASE conn_table' = conn_table
      BY <3>1 DEF TypeOK
    <3>2. CASE msg[w].flow # None /\ conn_table' = Set(conn_table, h, Touched(h, msg[w].gw))
      <4>1. h \in Key
        BY <3>2, <2>1 DEF Key
      <4>2. Touched(h, msg[w].gw) \in ConnEntry
        BY <2>1 DEF Touched, ConnEntry, TypeOK, Partial
      <4> HIDE DEF h
      <4> QED BY <3>2, <4>1, <4>2, SetPartial DEF TypeOK
    <3> QED BY <3>1, <3>2
  <2>3. /\ msg' \in [Worker -> Message \cup {None}]
        /\ pc' \in [Worker -> {"recv", "gateway", "conn"}]
    BY DEF TypeOK
  <2>4. Handling'
    BY DEF Handling, TypeOK
  <2> QED BY <2>2, <2>3, <2>4 DEF TypeOK
<1>5. ASSUME NEW f \in Flow, FindGateway(f) PROVE Typed'
  <2> USE <1>5 DEF FindGateway, workerVars, history
  <2> DEFINE h == conn_hash_cal(f[2], f[1])
  <2>1. CASE /\ h \in DOMAIN conn_table
             /\ conn_table' = [conn_table EXCEPT ![h].last_used = now]
             /\ pkt' = [flow |-> f, gw |-> conn_table[h].gateway_id]
             /\ main' = "send"
    <3>1. conn_table[h] \in ConnEntry /\ now \in Time
      BY <2>1 DEF TypeOK, Partial
    <3>2. Partial(conn_table', Key, ConnEntry)
      BY <2>1, <3>1 DEF TypeOK, Partial, ConnEntry
    <3>3. pkt' \in [flow : Flow, gw : Gateway]
      BY <2>1, <3>1 DEF ConnEntry
    <3> QED BY <2>1, <3>2, <3>3 DEF TypeOK, Handling
  <2>2. CASE main' = "check" /\ UNCHANGED <<conn_table, pkt>>
    BY <2>2 DEF TypeOK, Handling
  <2> QED BY <2>1, <2>2
<1>6. CASE SendToGateway
  <2> USE <1>6 DEF SendToGateway, tables, workerVars, history
  <2>1. pkt \in [flow : Flow, gw : Gateway]
    BY DEF TypeOK
  <2>2. out' \subseteq [flow : Flow, gw : Gateway, apn : Apn, addr : Addr \cup {Torn}]
    <3>1. CASE \E to \in [Apn -> Addr \cup {None, Torn}] :
                 /\ \A p \in Apn : to[p] \in Reads(pkt.gw, p)
                 /\ out' = Datagrams(Apn, to)
      BY <3>1, <2>1 DEF Datagrams
    <3>2. CASE /\ GetGatewayAddr(pkt.gw)
               /\ \E p \in Apn : \E a \in FecReads(pkt.gw, p) :
                    out' = Datagrams({p}, [q \in {p} |-> a])
      <4>0. PICK p \in Apn : \E a \in FecReads(pkt.gw, p) :
              out' = Datagrams({p}, [q \in {p} |-> a])
        BY <3>2
      <4>1. PICK a \in FecReads(pkt.gw, p) : out' = Datagrams({p}, [q \in {p} |-> a])
        BY <4>0
      <4>2. a \in Addr \cup {None, Torn}
        BY <3>2, <2>1 DEF FecReads, GetGatewayAddr, TypeOK, Partial, GatewayAddr
      <4> QED BY <4>1, <4>2, <2>1 DEF Datagrams
    <3>3. CASE out' = out
      BY <3>3 DEF TypeOK
    <3> QED BY <3>1, <3>2, <3>3
  <2>3. wild' \subseteq Gateway
    BY <2>1 DEF TypeOK
  <2> QED BY <2>2, <2>3 DEF TypeOK, Handling
<1>7. CASE CleanupExpiredGateways
  <2> USE <1>7 DEF CleanupExpiredGateways, workerVars, history
  <2>1. Partial(gateway_addrs', Gateway, GatewayAddr)
    BY ForgottenType DEF TypeOK, Partial
  <2>2. removed' \subseteq Gateway
    BY DEF TypeOK, Partial
  <2> QED BY <2>1, <2>2 DEF TypeOK, Handling
<1>8. CASE CleanupExpiredConnections
  <2> USE <1>8 DEF CleanupExpiredConnections, workerVars, history
  <2>1. Partial(conn_table', Key, ConnEntry)
    BY DEF TypeOK, Partial, Restrict
  <2> QED BY <2>1 DEF TypeOK, Handling
<1>9. CASE NextPacket
  BY <1>9 DEF NextPacket, TypeOK, Handling, tables, workerVars, history
<1>10. CASE UNCHANGED vars
  BY <1>10 DEF vars, TypeOK, Handling, tables, workerVars, mainVars, history
<1> QED BY <1>1, <1>2, <1>3, <1>4, <1>5, <1>6, <1>7, <1>8, <1>9, <1>10 DEF Next

\* Every variable of the routing tables and of the threads keeps its type.
THEOREM RoutingTypeCorrect == Spec => []TypeOK
<1>1. Init => Typed
  BY TypeInit
<1>2. Typed /\ [Next]_vars => Typed'
  BY TypeNext
<1>3. Typed => TypeOK
  BY DEF Typed
<1> QED BY <1>1, <1>2, <1>3, PTL DEF Spec
-----------------------------------------------------------------------------
(* Addresses *)

\* The addresses in hand and those stored were announced by their gateway on
\* their path.
Announcements ==
  /\ \A w \in Worker : pc[w] = "gateway" =>
       <<msg[w].gw, msg[w].apn, msg[w].addr>> \in announced
  /\ \A g \in DOMAIN gateway_addrs : \A p \in Apn :
       \/ gateway_addrs[g].addr_apn[p] = None
       \/ <<g, p, gateway_addrs[g].addr_apn[p]>> \in announced

AddressInv == Announcements /\ ToAnnouncedAddress

LEMMA AddressInit == Init => AddressInv
<1> SUFFICES ASSUME Init PROVE AddressInv
  OBVIOUS
<1>1. DOMAIN gateway_addrs = {} /\ out = {}
  BY DEF Init
<1>2. \A w \in Worker : pc[w] # "gateway"
  BY DEF Init
<1> QED BY <1>1, <1>2 DEF AddressInv, Announcements, ToAnnouncedAddress

\* The datagram to one path.
Sent(p, a) == [flow |-> pkt.flow, gw |-> pkt.gw, apn |-> p, addr |-> a]

LEMMA AddressNext == Typed /\ AddressInv /\ [Next]_vars => AddressInv'
<1> SUFFICES ASSUME Typed, AddressInv, [Next]_vars PROVE AddressInv'
  OBVIOUS
<1> USE DEF Typed, AddressInv
<1>1. CASE Tick
  BY <1>1 DEF Tick, Announcements, ToAnnouncedAddress, tables, workerVars, mainVars, history
<1>2. ASSUME NEW w \in Worker, Receive(w) PROVE AddressInv'
  <2>1. /\ announced \subseteq announced'
        /\ <<msg'[w].gw, msg'[w].apn, msg'[w].addr>> \in announced'
    BY <1>2 DEF Receive, TypeOK
  <2>2. \A v \in Worker \ {w} : pc'[v] = pc[v] /\ msg'[v] = msg[v]
    BY <1>2 DEF Receive, TypeOK
  <2>3. gateway_addrs' = gateway_addrs /\ out' = out
    BY <1>2 DEF Receive, tables, mainVars
  <2> QED BY <2>1, <2>2, <2>3 DEF Announcements, ToAnnouncedAddress
<1>3. ASSUME NEW w \in Worker, UpdateGatewayMap(w) PROVE AddressInv'
  <2> DEFINE m == msg[w]
             e == IF m.gw \in DOMAIN gateway_addrs THEN gateway_addrs[m.gw] ELSE FreshGateway
  <2>1. /\ m \in Message /\ m.gw \in Gateway /\ m.apn \in Apn
        /\ <<m.gw, m.apn, m.addr>> \in announced
    BY <1>3 DEF UpdateGatewayMap, Handling, Message, Announcements
  <2>2. e \in GatewayAddr
    BY FreshType DEF TypeOK, Partial
  <2>3. announced' = announced /\ out' = out /\ msg' = msg
    BY <1>3 DEF UpdateGatewayMap, mainVars
  <2>4. \A v \in Worker : pc'[v] = "gateway" => pc[v] = "gateway"
    BY <1>3 DEF UpdateGatewayMap, TypeOK
  <2>5. ASSUME NEW g \in DOMAIN gateway_addrs', NEW p \in Apn
        PROVE  \/ gateway_addrs'[g].addr_apn[p] = None
               \/ <<g, p, gateway_addrs'[g].addr_apn[p]>> \in announced
    <3>1. CASE gateway_addrs' = gateway_addrs
      BY <3>1, <2>5 DEF Announcements
    <3>2. CASE gateway_addrs' = Set(gateway_addrs, m.gw, Refreshed(e, m, ts[w]))
      <4>1. CASE g # m.gw
        BY <4>1, <3>2, <2>5 DEF Announcements, Set
      <4>2. CASE g = m.gw
        <5>1. gateway_addrs'[g] = Refreshed(e, m, ts[w])
          <6> HIDE DEF m, e
          <6> QED BY <4>2, <3>2 DEF Set
        <5>2. Refreshed(e, m, ts[w]).addr_apn[p] = IF p = m.apn THEN m.addr ELSE e.addr_apn[p]
          BY <2>1, <2>2 DEF Refreshed, GatewayAddr
        <5>3. e.addr_apn[p] = None \/ <<m.gw, p, e.addr_apn[p]>> \in announced
          BY DEF Announcements, FreshGateway
        <5> QED BY <5>1, <5>2, <5>3, <4>2, <2>1
      <4> QED BY <4>1, <4>2
    <3> QED BY <3>1, <3>2, <1>3 DEF UpdateGatewayMap
  <2> QED BY <2>3, <2>4, <2>5 DEF Announcements, ToAnnouncedAddress
<1>4. ASSUME NEW w \in Worker, UpdateConnTable(w) PROVE AddressInv'
  <2>1. \A v \in Worker : pc'[v] = "gateway" => pc[v] = "gateway" /\ msg'[v] = msg[v]
    BY <1>4 DEF UpdateConnTable, TypeOK
  <2> QED BY <2>1, <1>4 DEF UpdateConnTable, Announcements, ToAnnouncedAddress, mainVars, history
<1>5. ASSUME NEW f \in Flow, FindGateway(f) PROVE AddressInv'
  BY <1>5 DEF FindGateway, Announcements, ToAnnouncedAddress, workerVars, history
<1>6. CASE SendToGateway
  <2> USE <1>6 DEF SendToGateway
  <2>1. UNCHANGED <<gateway_addrs, pc, msg, announced>>
    BY DEF tables, workerVars, history
  <2>2. GetGatewayAddr(pkt.gw) =>
          \A p \in Apn : \A a \in Reads(pkt.gw, p) \cup FecReads(pkt.gw, p) :
            a = None \/ a = Torn \/ <<pkt.gw, p, a>> \in announced
    BY DEF Reads, FecReads, GetGatewayAddr, Announcements
  <2>3. ToAnnouncedAddress'
    <3>1. CASE /\ GetGatewayAddr(pkt.gw)
               /\ \E to \in [Apn -> Addr \cup {None, Torn}] :
                    /\ \A p \in Apn : to[p] \in Reads(pkt.gw, p)
                    /\ out' = Datagrams(Apn, to)
      <4>1. PICK to : /\ \A p \in Apn : to[p] \in Reads(pkt.gw, p)
                      /\ out' = Datagrams(Apn, to)
        BY <3>1
      <4> SUFFICES ASSUME NEW d \in out'
                   PROVE  d.addr = Torn \/ <<d.gw, d.apn, d.addr>> \in announced
        BY <2>1 DEF ToAnnouncedAddress
      <4>2. PICK p \in Apn : d = Sent(p, to[p]) /\ to[p] # None
        BY <4>1 DEF Datagrams, Sent
      <4> QED BY <4>1, <4>2, <3>1, <2>2 DEF Sent
    <3>2. CASE /\ GetGatewayAddr(pkt.gw)
               /\ \E p \in Apn : \E a \in FecReads(pkt.gw, p) :
                    out' = Datagrams({p}, [q \in {p} |-> a])
      <4>1. PICK p \in Apn : \E a \in FecReads(pkt.gw, p) :
              out' = Datagrams({p}, [q \in {p} |-> a])
        BY <3>2
      <4>2. PICK a \in FecReads(pkt.gw, p) : out' = Datagrams({p}, [q \in {p} |-> a])
        BY <4>1
      <4> SUFFICES ASSUME NEW d \in out'
                   PROVE  d.addr = Torn \/ <<d.gw, d.apn, d.addr>> \in announced
        BY <2>1 DEF ToAnnouncedAddress
      <4>3. d = Sent(p, a) /\ a # None
        BY <4>2 DEF Datagrams, Sent
      <4> QED BY <4>3, <3>2, <2>2 DEF Sent
    <3>3. CASE out' = out
      BY <3>3, <2>1 DEF ToAnnouncedAddress
    <3> QED BY <3>1, <3>2, <3>3
  <2> QED BY <2>1, <2>3 DEF Announcements
<1>7. CASE CleanupExpiredGateways
  <2>1. \A g \in DOMAIN gateway_addrs' : /\ g \in DOMAIN gateway_addrs
                                         /\ gateway_addrs'[g].addr_apn = gateway_addrs[g].addr_apn
    BY <1>7 DEF CleanupExpiredGateways, Forgotten
  <2> QED BY <2>1, <1>7
          DEF CleanupExpiredGateways, Announcements, ToAnnouncedAddress, workerVars, history
<1>8. CASE CleanupExpiredConnections
  BY <1>8 DEF CleanupExpiredConnections, Announcements, ToAnnouncedAddress, workerVars, history
<1>9. CASE NextPacket
  BY <1>9 DEF NextPacket, Announcements, ToAnnouncedAddress, tables, workerVars, history
<1>10. CASE UNCHANGED vars
  BY <1>10 DEF vars, Announcements, ToAnnouncedAddress, tables, workerVars, mainVars, history
<1> QED BY <1>1, <1>2, <1>3, <1>4, <1>5, <1>6, <1>7, <1>8, <1>9, <1>10 DEF Next

\* A datagram carries an address its gateway announced on that very path, or
\* one read in the middle of a write (send_to_gateway, update_gateway_map).
THEOREM RoutingToAnnouncedAddress == Spec => []ToAnnouncedAddress
<1>1. Init => Typed /\ AddressInv
  BY TypeInit, AddressInit
<1>2. Typed /\ AddressInv /\ [Next]_vars => Typed' /\ AddressInv'
  BY TypeNext, AddressNext
<1>3. AddressInv => ToAnnouncedAddress
  BY DEF AddressInv
<1> QED BY <1>1, <1>2, <1>3, PTL DEF Spec
-----------------------------------------------------------------------------
(* Missing entries *)

\* A gateway is in the list, or there is a reason why it is not.
Accounted(g) == g \in DOMAIN gateway_addrs \/ g \in removed \cup unmade

\* Whatever may lead to a lookup names gateways that are accounted for.
Presence ==
  /\ \A w \in Worker : pc[w] = "conn" => Accounted(msg[w].gw)
  /\ \A h \in DOMAIN conn_table : Accounted(conn_table[h].gateway_id)
  /\ main = "send" => Accounted(pkt.gw)

PresenceInv == Presence /\ MissingOnlyAfterRemoval

LEMMA PresenceInit == Init => PresenceInv
<1> SUFFICES ASSUME Init PROVE PresenceInv
  OBVIOUS
<1>1. DOMAIN conn_table = {} /\ wild = {} /\ main # "send"
  BY DEF Init
<1>2. \A w \in Worker : pc[w] # "conn"
  BY DEF Init
<1> QED BY <1>1, <1>2 DEF PresenceInv, Presence, MissingOnlyAfterRemoval

\* No step makes a gateway unaccounted for: only a cleanup takes an entry out.
LEMMA StaysAccounted ==
  ASSUME [Next]_vars, NEW g, Accounted(g) PROVE Accounted(g)'
<1> USE DEF Accounted
<1>1. CASE Tick
  BY <1>1 DEF Tick, tables, mainVars, history
<1>2. ASSUME NEW w \in Worker, Receive(w) PROVE Accounted(g)'
  BY <1>2 DEF Receive, tables, mainVars
<1>3. ASSUME NEW w \in Worker, UpdateGatewayMap(w) PROVE Accounted(g)'
  BY <1>3 DEF UpdateGatewayMap, Set, mainVars
<1>4. ASSUME NEW w \in Worker, UpdateConnTable(w) PROVE Accounted(g)'
  BY <1>4 DEF UpdateConnTable, mainVars, history
<1>5. ASSUME NEW f \in Flow, FindGateway(f) PROVE Accounted(g)'
  BY <1>5 DEF FindGateway, history
<1>6. CASE SendToGateway
  BY <1>6 DEF SendToGateway, tables, history
<1>7. CASE CleanupExpiredGateways
  BY <1>7 DEF CleanupExpiredGateways, history
<1>8. CASE CleanupExpiredConnections
  BY <1>8 DEF CleanupExpiredConnections, history
<1>9. CASE NextPacket
  BY <1>9 DEF NextPacket, tables, history
<1>10. CASE UNCHANGED vars
  BY <1>10 DEF vars, tables, mainVars, history
<1> QED BY <1>1, <1>2, <1>3, <1>4, <1>5, <1>6, <1>7, <1>8, <1>9, <1>10 DEF Next

LEMMA PresenceNext == Typed /\ PresenceInv /\ [Next]_vars => PresenceInv'
<1> SUFFICES ASSUME Typed, PresenceInv, [Next]_vars PROVE PresenceInv'
  OBVIOUS
<1> USE DEF Typed, PresenceInv
<1>0. \A g : Accounted(g) => Accounted(g)'
  BY StaysAccounted
<1>1. CASE Tick
  BY <1>1, <1>0
     DEF Tick, Presence, MissingOnlyAfterRemoval, tables, workerVars, mainVars, history
<1>2. ASSUME NEW w \in Worker, Receive(w) PROVE PresenceInv'
  <2>1. \A v \in Worker : pc'[v] = "conn" => pc[v] = "conn" /\ msg'[v] = msg[v]
    BY <1>2 DEF Receive, TypeOK
  <2> QED BY <2>1, <1>0, <1>2 DEF Receive, Presence, MissingOnlyAfterRemoval, tables, mainVars
<1>3. ASSUME NEW w \in Worker, UpdateGatewayMap(w) PROVE PresenceInv'
  <2>1. Accounted(msg[w].gw)'
    BY <1>3 DEF UpdateGatewayMap, Accounted, Set, mainVars
  <2>2. \A v \in Worker : v # w => pc'[v] = pc[v]
    BY <1>3 DEF UpdateGatewayMap, TypeOK
  <2>3. UNCHANGED <<msg, conn_table, main, pkt, wild, removed>> /\ unmade \subseteq unmade'
    BY <1>3 DEF UpdateGatewayMap, mainVars
  <2>4. \A v \in Worker : pc'[v] = "conn" => Accounted(msg[v].gw)'
    BY <2>1, <2>2, <2>3, <1>0 DEF Presence
  <2> QED BY <2>3, <2>4, <1>0 DEF Presence, MissingOnlyAfterRemoval
<1>4. ASSUME NEW w \in Worker, UpdateConnTable(w) PROVE PresenceInv'
  <2>1. \A v \in Worker : pc'[v] = "conn" => pc[v] = "conn" /\ msg'[v] = msg[v]
    BY <1>4 DEF UpdateConnTable, TypeOK
  <2>2. UNCHANGED <<gateway_addrs, main, pkt, wild, removed, unmade>>
    BY <1>4 DEF UpdateConnTable, mainVars, history
  <2>3. Accounted(msg[w].gw)
    BY <1>4 DEF UpdateConnTable, Presence
  <2>4. \A h \in DOMAIN conn_table' : Accounted(conn_table'[h].gateway_id)
    BY <1>4, <2>3 DEF UpdateConnTable, Presence, Set, Touched
  <2> QED BY <2>1, <2>2, <2>4, <1>0 DEF Presence, MissingOnlyAfterRemoval, Accounted
<1>5. ASSUME NEW f \in Flow, FindGateway(f) PROVE PresenceInv'
  <2>1. UNCHANGED <<gateway_addrs, pc, msg, wild, removed, unmade>>
    BY <1>5 DEF FindGateway, workerVars, history
  <2>2. \A h \in DOMAIN conn_table' : Accounted(conn_table'[h].gateway_id)
    BY <1>5 DEF FindGateway, Presence, TypeOK, Partial, ConnEntry
  <2>3. main' = "send" => Accounted(pkt'.gw)
    BY <1>5 DEF FindGateway, Presence
  <2> QED BY <2>1, <2>2, <2>3 DEF Presence, MissingOnlyAfterRemoval, Accounted
<1>6. CASE SendToGateway
  <2>1. UNCHANGED <<tables, pc, msg, removed, unmade>> /\ main' # "send"
    BY <1>6 DEF SendToGateway, workerVars, history
  <2>2. wild' \subseteq wild \cup {pkt.gw} /\ (wild' = wild \/ pkt.gw \notin DOMAIN gateway_addrs)
    BY <1>6 DEF SendToGateway, GetGatewayAddr
  <2>3. Accounted(pkt.gw)
    BY <1>6 DEF SendToGateway, Presence
  <2>4. MissingOnlyAfterRemoval'
    BY <2>1, <2>2, <2>3 DEF MissingOnlyAfterRemoval, Accounted
  <2> QED BY <2>1, <2>4 DEF Presence, Accounted, tables
<1>7. CASE CleanupExpiredGateways
  BY <1>7, <1>0
     DEF CleanupExpiredGateways, Presence, MissingOnlyAfterRemoval, workerVars, history
<1>8. CASE CleanupExpiredConnections
  BY <1>8, <1>0
     DEF CleanupExpiredConnections, Presence, MissingOnlyAfterRemoval, Restrict, workerVars, history
<1>9. CASE NextPacket
  BY <1>9, <1>0
     DEF NextPacket, Presence, MissingOnlyAfterRemoval, tables, workerVars, history
<1>10. CASE UNCHANGED vars
  BY <1>10, <1>0
     DEF vars, Presence, MissingOnlyAfterRemoval, tables, workerVars, mainVars, history
<1> QED BY <1>1, <1>2, <1>3, <1>4, <1>5, <1>6, <1>7, <1>8, <1>9, <1>10 DEF Next

\* A lookup fails only for a gateway that a cleanup removed or malloc refused
\* (get_gateway_addr): no interleaving of the threads enters a connection before
\* its gateway.
THEOREM RoutingMissingOnlyAfterRemoval == Spec => []MissingOnlyAfterRemoval
<1>1. Init => Typed /\ PresenceInv
  BY TypeInit, PresenceInit
<1>2. Typed /\ PresenceInv /\ [Next]_vars => Typed' /\ PresenceInv'
  BY TypeNext, PresenceNext
<1>3. PresenceInv => MissingOnlyAfterRemoval
  BY DEF PresenceInv
<1> QED BY <1>1, <1>2, <1>3, PTL DEF Spec

-----------------------------------------------------------------------------
(* Owners *)

\* The gateway sent a packet with this hash.
Opener(g, h) == \E o \in opened : o[1] = g /\ conn_hash_cal(o[2][1], o[2][2]) = h

\* A reply has the hash of the packets it answers: the sum commutes.
LEMMA HashSymmetric ==
  ASSUME NEW f \in Flow PROVE conn_hash_cal(f[2], f[1]) = conn_hash_cal(f[1], f[2])
<1>1. f[1] \in 0 .. WORD - 1 /\ f[2] \in 0 .. WORD - 1
  BY RoutingAssumption
<1>2. f[2] + f[1] = f[1] + f[2]
  BY <1>1
<1> QED BY <1>2 DEF conn_hash_cal

\* A connection's entry names a gateway that sent a packet with its hash.
Owners ==
  /\ \A w \in Worker : pc[w] # "recv" /\ msg[w].flow # None =>
       <<msg[w].gw, msg[w].flow>> \in opened
  /\ \A h \in DOMAIN conn_table : Opener(conn_table[h].gateway_id, h)
  /\ main = "send" => Opener(pkt.gw, conn_hash_cal(pkt.flow[1], pkt.flow[2]))

OwnerInv == Owners /\ RepliesToHashOwner

LEMMA OwnerInit == Init => OwnerInv
<1> SUFFICES ASSUME Init PROVE OwnerInv
  OBVIOUS
<1>1. DOMAIN conn_table = {} /\ out = {} /\ main # "send"
  BY DEF Init
<1>2. \A w \in Worker : pc[w] = "recv"
  BY DEF Init
<1> QED BY <1>1, <1>2 DEF OwnerInv, Owners, RepliesToHashOwner

LEMMA OwnerNext == Typed /\ OwnerInv /\ [Next]_vars => OwnerInv'
<1> SUFFICES ASSUME Typed, OwnerInv, [Next]_vars PROVE OwnerInv'
  OBVIOUS
<1> USE DEF Typed, OwnerInv
<1>1. CASE Tick
  BY <1>1 DEF Tick, Owners, Opener, RepliesToHashOwner, tables, workerVars, mainVars, history
<1>2. ASSUME NEW w \in Worker, Receive(w) PROVE OwnerInv'
  <2>1. opened \subseteq opened' /\ UNCHANGED <<conn_table, main, pkt, out>>
    BY <1>2 DEF Receive, tables, mainVars
  <2>2. msg'[w].flow # None => <<msg'[w].gw, msg'[w].flow>> \in opened'
    BY <1>2 DEF Receive, TypeOK
  <2>3. \A v \in Worker \ {w} : pc'[v] = pc[v] /\ msg'[v] = msg[v]
    BY <1>2 DEF Receive, TypeOK
  <2> QED BY <2>1, <2>2, <2>3 DEF Owners, Opener, RepliesToHashOwner
<1>3. ASSUME NEW w \in Worker, UpdateGatewayMap(w) PROVE OwnerInv'
  <2>1. UNCHANGED <<conn_table, msg, main, pkt, out, opened>>
    BY <1>3 DEF UpdateGatewayMap, mainVars
  <2>2. \A v \in Worker : pc'[v] # "recv" => pc[v] # "recv"
    BY <1>3 DEF UpdateGatewayMap, TypeOK
  <2> QED BY <2>1, <2>2 DEF Owners, Opener, RepliesToHashOwner
<1>4. ASSUME NEW w \in Worker, UpdateConnTable(w) PROVE OwnerInv'
  <2> DEFINE new == conn_hash_cal(msg[w].flow[1], msg[w].flow[2])
  <2>1. UNCHANGED <<main, pkt, out, opened>>
    BY <1>4 DEF UpdateConnTable, mainVars, history
  <2>2. \A v \in Worker : pc'[v] # "recv" => pc[v] # "recv" /\ msg'[v] = msg[v]
    BY <1>4 DEF UpdateConnTable, TypeOK
  <2>3. ASSUME NEW h \in DOMAIN conn_table'
        PROVE  Opener(conn_table'[h].gateway_id, h)
    <3>1. CASE conn_table' = conn_table
      BY <3>1, <2>3 DEF Owners
    <3>2. CASE /\ msg[w].flow # None
               /\ conn_table' = Set(conn_table, new, Touched(new, msg[w].gw))
      <4>1. Opener(msg[w].gw, new)
        BY <3>2, <1>4 DEF UpdateConnTable, Owners, Opener
      <4>2. h \in DOMAIN conn_table => conn_table'[h].gateway_id = conn_table[h].gateway_id
        BY <3>2 DEF Set, Touched, Owners, TypeOK, Partial, ConnEntry
      <4>3. h \notin DOMAIN conn_table =>
              h = new /\ conn_table'[h].gateway_id = msg[w].gw
        BY <3>2, <2>3 DEF Set, Touched
      <4> QED BY <4>1, <4>2, <4>3 DEF Owners
    <3> QED BY <3>1, <3>2, <1>4 DEF UpdateConnTable
  <2> QED BY <2>1, <2>2, <2>3 DEF Owners, Opener, RepliesToHashOwner
<1>5. ASSUME NEW f \in Flow, FindGateway(f) PROVE OwnerInv'
  <2> DEFINE h0 == conn_hash_cal(f[2], f[1])
  <2>1. UNCHANGED <<pc, msg, opened, out>>
    BY <1>5 DEF FindGateway, workerVars, history
  <2>2. /\ DOMAIN conn_table' = DOMAIN conn_table
        /\ \A h \in DOMAIN conn_table : conn_table'[h].gateway_id = conn_table[h].gateway_id
    <3>1. \A h \in DOMAIN conn_table : conn_table[h] \in ConnEntry
      BY DEF TypeOK, Partial
    <3>2. CASE conn_table' = conn_table
      BY <3>2
    <3>3. CASE conn_table' = [conn_table EXCEPT ![h0].last_used = now]
      BY <3>1, <3>3 DEF ConnEntry
    <3> QED BY <3>2, <3>3, <1>5 DEF FindGateway
  <2>3. ASSUME main' = "send"
        PROVE  Opener(pkt'.gw, conn_hash_cal(pkt'.flow[1], pkt'.flow[2]))
    <3>1. /\ h0 \in DOMAIN conn_table
          /\ pkt' = [flow |-> f, gw |-> conn_table[h0].gateway_id]
      BY <1>5, <2>3 DEF FindGateway
    <3>2. Opener(conn_table[h0].gateway_id, h0)
      BY <3>1 DEF Owners
    <3>3. h0 = conn_hash_cal(f[1], f[2])
      BY HashSymmetric
    <3> HIDE DEF h0
    <3> QED BY <3>1, <3>2, <3>3
  <2> QED BY <2>1, <2>2, <2>3 DEF Owners, Opener, RepliesToHashOwner
<1>6. CASE SendToGateway
  <2>1. UNCHANGED <<conn_table, pc, msg, opened>> /\ main' # "send"
    BY <1>6 DEF SendToGateway, tables, workerVars, history
  <2>2. main = "send"
    BY <1>6 DEF SendToGateway
  <2>3. \A paths, to : \A d \in Datagrams(paths, to) : d.gw = pkt.gw /\ d.flow = pkt.flow
    BY DEF Datagrams
  <2>4. ASSUME NEW d \in out' PROVE d \in out \/ (d.gw = pkt.gw /\ d.flow = pkt.flow)
    <3>1. \/ \E to \in [Apn -> Addr \cup {None, Torn}] : out' = Datagrams(Apn, to)
          \/ \E p \in Apn : \E a \in FecReads(pkt.gw, p) : out' = Datagrams({p}, [q \in {p} |-> a])
          \/ out' = out
      BY <1>6 DEF SendToGateway
    <3>2. CASE \E to \in [Apn -> Addr \cup {None, Torn}] : out' = Datagrams(Apn, to)
      <4>1. PICK to : out' = Datagrams(Apn, to)
        BY <3>2
      <4> QED BY <4>1, <2>3, <2>4
    <3>3. CASE \E p \in Apn : \E a \in FecReads(pkt.gw, p) : out' = Datagrams({p}, [q \in {p} |-> a])
      <4>1. PICK p \in Apn : \E a \in FecReads(pkt.gw, p) : out' = Datagrams({p}, [q \in {p} |-> a])
        BY <3>3
      <4>2. PICK a \in FecReads(pkt.gw, p) : out' = Datagrams({p}, [q \in {p} |-> a])
        BY <4>1
      <4> QED BY <4>2, <2>3, <2>4
    <3>4. CASE out' = out
      BY <3>4, <2>4
    <3> QED BY <3>1, <3>2, <3>3, <3>4
  <2>5. RepliesToHashOwner'
    BY <2>1, <2>2, <2>4 DEF RepliesToHashOwner, Owners, Opener, Alike
  <2> QED BY <2>1, <2>5 DEF Owners, Opener
<1>7. CASE CleanupExpiredGateways
  BY <1>7 DEF CleanupExpiredGateways, Owners, Opener, RepliesToHashOwner, workerVars, history
<1>8. CASE CleanupExpiredConnections
  BY <1>8 DEF CleanupExpiredConnections, Owners, Opener, RepliesToHashOwner, Restrict, workerVars, history
<1>9. CASE NextPacket
  BY <1>9 DEF NextPacket, Owners, Opener, RepliesToHashOwner, tables, workerVars, history
<1>10. CASE UNCHANGED vars
  BY <1>10 DEF vars, Owners, Opener, RepliesToHashOwner, tables, workerVars, mainVars, history
<1> QED BY <1>1, <1>2, <1>3, <1>4, <1>5, <1>6, <1>7, <1>8, <1>9, <1>10 DEF Next

\* A packet is sent to a gateway that sent one of the same connection or of one
\* with the same sum of addresses, however the threads, the cleanups and failing
\* mallocs interleave (update_conn_table, find_gateway_for_packet,
\* send_to_gateway).
THEOREM RoutingRepliesToHashOwner == Spec => []RepliesToHashOwner
<1>1. Init => Typed /\ OwnerInv
  BY TypeInit, OwnerInit
<1>2. Typed /\ OwnerInv /\ [Next]_vars => Typed' /\ OwnerInv'
  BY TypeNext, OwnerNext
<1>3. OwnerInv => RepliesToHashOwner
  BY DEF OwnerInv
<1> QED BY <1>1, <1>2, <1>3, PTL DEF Spec

-----------------------------------------------------------------------------
(* Silence *)

LastSeen(g, p) == gateway_addrs[g].last_seen_apn[p]

\* The time a thread stores is at most STALL old.  It may lie behind the one
\* stored before it, so an entry may be that much behind the latest packet.
Clock ==
  /\ 1 <= now
  /\ \A w \in Worker : pc[w] = "gateway" => 1 <= ts[w] /\ ts[w] <= now /\ now <= ts[w] + STALL
  /\ \A g \in Gateway, p \in Apn : heard[g][p] <= now

Behind ==
  \A g \in DOMAIN gateway_addrs, p \in Apn :
    LastSeen(g, p) > 0 => heard[g][p] <= LastSeen(g, p) + STALL

SilenceInv == Clock /\ Behind

\* All times are integers.
LEMMA Times ==
  ASSUME TypeOK
  PROVE  /\ now \in Int /\ STALL \in Int /\ CONN_TIMEOUT \in Int /\ 0 <= STALL
         /\ \A w \in Worker : ts[w] \in Int
         /\ \A g \in Gateway, p \in Apn : heard[g][p] \in Int
         /\ \A g \in DOMAIN gateway_addrs : g \in Gateway /\ \A p \in Apn : LastSeen(g, p) \in Int
BY RoutingAssumption DEF TypeOK, Time, Partial, GatewayAddr, LastSeen

LEMMA SilenceInit == Init => SilenceInv
<1> SUFFICES ASSUME Init PROVE SilenceInv
  OBVIOUS
<1>1. DOMAIN gateway_addrs = {} /\ now = 1
  BY DEF Init
<1>2. \A w \in Worker : pc[w] = "recv"
  BY DEF Init
<1>3. \A g \in Gateway, p \in Apn : heard[g][p] = 0
  BY DEF Init
<1> QED BY <1>1, <1>2, <1>3 DEF SilenceInv, Clock, Behind

\* A thread stores its time: the entry it wrote, and the others.
LEMMA UpdateSilence ==
  ASSUME Typed, SilenceInv, NEW w \in Worker, UpdateGatewayMap(w)
  PROVE  /\ SilenceInv'
         /\ \A g \in DOMAIN gateway_addrs : /\ g \in DOMAIN gateway_addrs'
                                            /\ \A p \in Apn : LastSeen(g, p) > 0 => LastSeen(g, p)' > 0
<1> USE DEF Typed
<1>0. PICK G \in Gateway, P \in Apn : G = msg[w].gw /\ P = msg[w].apn
  BY DEF UpdateGatewayMap, Handling, Message
<1>1. pc[w] = "gateway"
  BY DEF UpdateGatewayMap
<1>2. ts[w] \in Int /\ 1 <= ts[w] /\ ts[w] <= now /\ now <= ts[w] + STALL
  BY <1>1, Times DEF SilenceInv, Clock
<1>3. now' = now /\ \A v \in Worker : pc'[v] = "gateway" => pc[v] = "gateway" /\ ts'[v] = ts[v]
  BY DEF UpdateGatewayMap, TypeOK
<1>4. \A g \in Gateway, p \in Apn :
        /\ heard'[g][p] \in {heard[g][p], ts[w]}
        /\ (g # G \/ p # P) => heard'[g][p] = heard[g][p]
  BY <1>0 DEF UpdateGatewayMap, TypeOK
<1>5. Clock'
  BY <1>2, <1>3, <1>4 DEF SilenceInv, Clock
<1>6. \A p \in Apn : heard'[G][p] <= now
  BY <1>5, <1>3 DEF Clock
<1>7. CASE UNCHANGED gateway_addrs /\ G \notin DOMAIN gateway_addrs
  <2>1. \A g \in DOMAIN gateway_addrs, p \in Apn : heard'[g][p] = heard[g][p]
    BY <1>4, <1>7, Times
  <2> QED BY <2>1, <1>5, <1>7 DEF SilenceInv, Behind, LastSeen
<1>8. CASE \E e : /\ gateway_addrs' = Set(gateway_addrs, G, Refreshed(e, msg[w], ts[w]))
                  /\ e \in GatewayAddr
                  /\ IF G \in DOMAIN gateway_addrs THEN e = gateway_addrs[G] ELSE e = FreshGateway
  <2>1. PICK e : /\ gateway_addrs' = Set(gateway_addrs, G, Refreshed(e, msg[w], ts[w]))
                 /\ e \in GatewayAddr
                 /\ IF G \in DOMAIN gateway_addrs THEN e = gateway_addrs[G] ELSE e = FreshGateway
    BY <1>8
  <2>2. /\ DOMAIN gateway_addrs' = DOMAIN gateway_addrs \cup {G}
        /\ gateway_addrs'[G] = Refreshed(e, msg[w], ts[w])
        /\ \A g \in DOMAIN gateway_addrs : g # G => gateway_addrs'[g] = gateway_addrs[g]
    BY <2>1 DEF Set
  <2>3. \A p \in Apn : LastSeen(G, p)' = IF p = P THEN ts[w] ELSE e.last_seen_apn[p]
    <3>1. e.last_seen_apn \in [Apn -> Time]
      BY <2>1 DEF GatewayAddr
    <3>2. Refreshed(e, msg[w], ts[w]).last_seen_apn = [e.last_seen_apn EXCEPT ![P] = ts[w]]
      BY <2>1, <1>0 DEF Refreshed, GatewayAddr
    <3>3. gateway_addrs'[G].last_seen_apn = [e.last_seen_apn EXCEPT ![P] = ts[w]]
      BY <3>2, <2>2
    <3> QED BY <3>1, <3>3 DEF LastSeen
  <2>4. \A g \in DOMAIN gateway_addrs, p \in Apn :
          (g # G \/ p # P) => LastSeen(g, p)' = LastSeen(g, p)
    BY <2>1, <2>2, <2>3 DEF LastSeen
  <2>5. G \notin DOMAIN gateway_addrs => \A p \in Apn : p # P => LastSeen(G, p)' = 0
    BY <2>1, <2>3 DEF FreshGateway
  <2>6. ASSUME NEW g \in DOMAIN gateway_addrs', NEW p \in Apn, LastSeen(g, p)' > 0
        PROVE  heard'[g][p] <= LastSeen(g, p)' + STALL
    <3>1. CASE g = G /\ p = P
      <4>1. LastSeen(g, p)' = ts[w]
        BY <3>1, <2>3
      <4>2. heard'[g][p] <= now
        BY <3>1, <1>6
      <4>3. heard'[g][p] \in Int
        BY <3>1, <1>4, <1>2, Times
      <4> QED BY <4>1, <4>2, <4>3, <1>2, Times
    <3>2. CASE g # G \/ p # P
      <4>1. g \in DOMAIN gateway_addrs
        BY <3>2, <2>2, <2>5, <2>6
      <4>2. LastSeen(g, p)' = LastSeen(g, p) /\ heard'[g][p] = heard[g][p]
        BY <3>2, <4>1, <2>4, <1>4, Times
      <4> QED BY <4>1, <4>2, <2>6 DEF SilenceInv, Behind
    <3> QED BY <3>1, <3>2
  <2>7. Behind'
    BY <2>6 DEF Behind
  <2> QED BY <2>2, <2>3, <2>4, <2>7, <1>2, <1>5 DEF SilenceInv
<1>9. (IF G \in DOMAIN gateway_addrs THEN gateway_addrs[G] ELSE FreshGateway) \in GatewayAddr
  BY FreshType DEF TypeOK, Partial
<1> QED BY <1>0, <1>7, <1>8, <1>9 DEF UpdateGatewayMap

LEMMA SilenceNext == Typed /\ SilenceInv /\ [Next]_vars => SilenceInv' /\ ForgetsOnlySilent
<1> SUFFICES ASSUME Typed, SilenceInv, [Next]_vars PROVE SilenceInv' /\ ForgetsOnlySilent
  OBVIOUS
<1> USE DEF Typed
<1>0. ASSUME UNCHANGED gateway_addrs PROVE ForgetsOnlySilent
  BY <1>0 DEF ForgetsOnlySilent
<1>1. CASE Tick
  <2>1. now' = now + 1 /\ UNCHANGED <<gateway_addrs, pc, ts, heard>>
    BY <1>1 DEF Tick, tables, workerVars, history
  <2>2. \A w \in Worker : pc[w] = "gateway" => now + 1 - ts[w] <= STALL
    BY <1>1 DEF Tick
  <2>3. Clock'
    BY <2>1, <2>2, Times DEF SilenceInv, Clock
  <2> QED BY <2>1, <2>3, <1>0 DEF SilenceInv, Behind, LastSeen
<1>2. ASSUME NEW w \in Worker, Receive(w) PROVE SilenceInv' /\ ForgetsOnlySilent
  <2>1. UNCHANGED <<now, gateway_addrs, heard>>
    BY <1>2 DEF Receive, tables
  <2>2. \A v \in Worker : pc'[v] = "gateway" =>
          ts'[v] = now \/ (pc[v] = "gateway" /\ ts'[v] = ts[v])
    BY <1>2 DEF Receive, TypeOK
  <2>3. Clock'
    BY <2>1, <2>2, Times DEF SilenceInv, Clock
  <2> QED BY <2>1, <2>3, <1>0 DEF SilenceInv, Behind, LastSeen
<1>3. ASSUME NEW w \in Worker, UpdateGatewayMap(w) PROVE SilenceInv' /\ ForgetsOnlySilent
  <2>1. \A g \in DOMAIN gateway_addrs, p \in Apn :
          LastSeen(g, p) > 0 => g \in DOMAIN gateway_addrs' /\ LastSeen(g, p)' # 0
    BY <1>3, UpdateSilence
  <2>2. ForgetsOnlySilent
    BY <2>1 DEF ForgetsOnlySilent, LastSeen
  <2> QED BY <1>3, UpdateSilence, <2>2
<1>4. ASSUME NEW w \in Worker, UpdateConnTable(w) PROVE SilenceInv' /\ ForgetsOnlySilent
  <2>1. UNCHANGED <<now, gateway_addrs, ts, heard>>
    BY <1>4 DEF UpdateConnTable, history
  <2>2. \A v \in Worker : pc'[v] = "gateway" => pc[v] = "gateway"
    BY <1>4 DEF UpdateConnTable, TypeOK
  <2> QED BY <2>1, <2>2, <1>0 DEF SilenceInv, Clock, Behind, LastSeen
<1>5. ASSUME NEW f \in Flow, FindGateway(f) PROVE SilenceInv' /\ ForgetsOnlySilent
  BY <1>5, <1>0 DEF FindGateway, SilenceInv, Clock, Behind, LastSeen, workerVars, history
<1>6. CASE SendToGateway
  BY <1>6, <1>0 DEF SendToGateway, SilenceInv, Clock, Behind, LastSeen, tables, workerVars, history
<1>7. CASE CleanupExpiredGateways
  <2>1. UNCHANGED <<now, pc, ts, heard>>
    BY <1>7 DEF CleanupExpiredGateways, workerVars, history
  <2>2. \A g \in DOMAIN gateway_addrs' : g \in DOMAIN gateway_addrs /\ \A p \in Apn :
          LastSeen(g, p)' = IF Expired(LastSeen(g, p)) THEN 0 ELSE LastSeen(g, p)
    BY <1>7 DEF CleanupExpiredGateways, Forgotten, LastSeen
  <2>3. Behind'
    BY <2>1, <2>2 DEF Behind, SilenceInv
  <2>4. ASSUME NEW g \in DOMAIN gateway_addrs, NEW p \in Apn,
               LastSeen(g, p) > 0,
               g \in DOMAIN gateway_addrs' => LastSeen(g, p)' = 0
        PROVE  now - heard[g][p] > CONN_TIMEOUT - STALL
    <3>1. Expired(LastSeen(g, p))
      <4>1. CASE g \in DOMAIN gateway_addrs'
        BY <4>1, <2>2, <2>4, Times
      <4>2. CASE g \notin DOMAIN gateway_addrs'
        BY <4>2, <1>7 DEF CleanupExpiredGateways, AllExpired, LastSeen
      <4> QED BY <4>1, <4>2
    <3>2. heard[g][p] <= LastSeen(g, p) + STALL
      BY <2>4 DEF SilenceInv, Behind
    <3> QED BY <3>1, <3>2, Times DEF Expired
  <2>5. ForgetsOnlySilent
    BY <2>4 DEF ForgetsOnlySilent, LastSeen
  <2> QED BY <2>1, <2>3, <2>5 DEF SilenceInv, Clock
<1>8. CASE CleanupExpiredConnections
  BY <1>8, <1>0 DEF CleanupExpiredConnections, SilenceInv, Clock, Behind, LastSeen, workerVars, history
<1>9. CASE NextPacket
  BY <1>9, <1>0 DEF NextPacket, SilenceInv, Clock, Behind, LastSeen, tables, workerVars, history
<1>10. CASE UNCHANGED vars
  BY <1>10, <1>0
     DEF vars, SilenceInv, Clock, Behind, LastSeen, tables, workerVars, mainVars, history
<1> QED BY <1>1, <1>2, <1>3, <1>4, <1>5, <1>6, <1>7, <1>8, <1>9, <1>10 DEF Next

\* A cleanup forgets a path, or a gateway with its paths, only when nothing was
\* heard over it for CONN_TIMEOUT less the time a thread may stall
\* (cleanup_expired_gateways against update_gateway_map).
THEOREM RoutingExpiresOnlyTheSilent == Spec => ExpiresOnlyTheSilent
<1>1. Init => Typed /\ SilenceInv
  BY TypeInit, SilenceInit
<1>2. Typed /\ SilenceInv /\ [Next]_vars => Typed' /\ SilenceInv'
  BY TypeNext, SilenceNext
<1>3. Typed /\ SilenceInv /\ [Next]_vars => [ForgetsOnlySilent]_vars
  BY SilenceNext
<1> QED BY <1>1, <1>2, <1>3, PTL DEF Spec, ExpiresOnlyTheSilent
=============================================================================
