# Verification of config_env: the two-path UDP tunnel, and the programs beside it

The repository collects an engineer's work: one program with a protocol of its own, the tunnel
in `src/script/tun-vpn`; a daemon for a GPS receiver; a few dozen example drivers and small
programs in C; and configuration files and shell scripts. The tunnel is the core of this
project. A gateway with two modems (the client, `uctun.c`) and a server (`ustun.c`) carry IP
packets between their TUN devices in UDP datagrams, over both modems at once: small packets are
sent twice and de-duplicated, large ones may be sent as Reed-Solomon shards.

The modules model the C code in TLA+, TLC checks them on small instances, and TLAPS proves
forty-four results for every value of the constants: about both packet paths, the bytes and the
shards of large packets, the erasure code's bounds, the routing tables, the lists they are made
of, the ring that reads the TUN device, the life and death of the two programs, the GPS daemon,
the drivers that hand out a sensor's samples, and the smaller programs and drivers.

## 1. Inventory

### The tunnel

| Part | State | Operations | Interacts with |
|---|---|---|---|
| Sender, server (`send_to_gateway`) | `sequence` (static, 16 bit) | number a packet, send it on every path or as a batch of shards | routing tables, receiver threads (shared entries and sockets) |
| Sender, client (`send_packet`) | `sequence`, `first` (static) | number, mark the first packet of a run with `GATEWAY_START`, send on every socket or as shards | the network |
| Sequence filter (`dedup_state`) | `seq_map[8192]`, `last_update`, one for all threads and all gateways | `is_duplicate` (under `dedup_mutex`), `init_dedup_state` (without) | both receiver threads |
| FEC table (`fec_dedup_state[8192]`) | per entry: number, length, shards, marks, count | `fec_recv_done` (under `dedup_mutex`), the TUN write from the entry (after the unlock), the clear of a start flag (without) | both receiver threads, the erasure code |
| Erasure code (`rs.c`, `obl/`) | generator matrix and work space | new, encode, decode; row operations in three vector widths | FEC table, senders |
| Buffers (`tun_buf`, `udp_rbuf`, `udp_sbuf`) | bytes, never cleared; lengths and offsets | read, send, receive in batches, write | all of the above |
| Gateway list (`gateway_addrs`) | per gateway: two addresses, when each was heard | `update_gateway_map`, `get_gateway_addr`, `cleanup_expired_gateways` (under `gateway_mutex`); the entry is used after the unlock | receiver threads write, main thread reads and removes |
| Connection table (`conn_table`) | hash, gateway, last use | `update_conn_table`, `find_gateway_for_packet`, `cleanup_expired_connections` (under `conn_mutex`) | same |
| TUN reading (`io_uring_poll`) | submission and completion queues, 32 buffers | first submission, walk of the completion queue, resubmission, release | kernel, `send_to_gateway` |
| Program shell (`main`, `backstrace.c`) | descriptors, threads, exit flag, NAT rules (the kernel's) | start-up, loop, SIGINT, exit; report of a fault | kernel, threads |
| Linked list (`ih_list.h`) | pointers | the kernel's two kinds of list | both tables |

The client runs one receiver thread per modem, the server two threads on one port
(`SO_REUSEPORT`); each program's main thread reads its TUN device and sends. Threads share
memory; the two programs share nothing but datagrams, which may be lost, repeated, delayed
and reordered. Both programs keep everything in memory, so a restart forgets its own numbers
and tables but not the other end's.

What is hard, and what must be true of each part:

- *Filter*: two threads, a wrapping 16-bit number, a table that idles out, a cleared entry
  that reads like a number packets carry. A packet must not be written twice, and must not be
  thrown away unless a copy was accepted, or for a reason that can be named.
- *Start flag*: the clear of the filter runs without the lock, in whichever thread reads the
  flag, possibly in both. Duplicates must be confined to the start; a handled flag must have
  cleaned the table.
- *FEC table*: entries are read after the unlock, never expire, and are renamed by a start flag
  without the lock. What is written must be one packet, whole, once; the loss of one shard must
  not lose a packet.
- *Erasure code*: elimination without row exchanges, a scaling that runs over the row's end,
  vector loops over rows of any length. Any `ds` shards must recover the data.
- *Buffers*: what an earlier packet left behind must not be written with a later one.
- *Routing*: tables changed by two threads and used unlocked by a third; times stored out of
  order; cleanup that depends on traffic. Responses must go to a gateway of the connection, at
  an address announced on that path; only the silent may expire.
- *TUN reading*: a queue walked while it grows, buffers resubmitted in bulk. Each packet must
  be sent once and in order, each buffer have one read.
- *Shell*: threads that make sockets main already uses, rules that outlive the program, a
  signal that comes just before a wait, a handler that takes locks. Whatever is told to end must end.
- *Lists*: removal while walking, splices, chains with back pointers. The pointers must agree.

### Beside the tunnel

| Part | State | What is hard, and must be true |
|---|---|---|
| GPS daemon (`script/gps/main.c`) | serial line, polls, log directory, `ant.status`, two threads | an answer must settle its own poll though NAKs, late answers, noise and flushes meet; log data must not be lost to rotation, compression or a loss of power; a signal must end it |
| Drivers (`driver/`) | what probe obtains and remove releases; sensor structures; sysfs values; buttons; deferred callbacks | every failure must release what was taken, in an order no handler runs into; answers must be of one sample and one caller; callbacks must not outlive their module |
| evtest (`driver/input/evtest`) | grabs, queues, tables of names | events in order, grabs held or refused aloud, a query answered about what was typed |
| UDP samples (`mcast`) | one socket, one buffer | the terminator inside the buffer, other hosts' traffic kept out |
| Tracing hooks (`libevent/ftrace`) | guard and depth, shared by all threads | the depth must be that of the calls |
| USB listing (`script/usb/main.c`) | libusb's context, list and handle | everything released whatever fails, paths inside their array |

`PROJECT.json` lists forty hazards, each at its line, with the properties that would catch them.

## 2. Modules and code

Every part of the code has a module of its own; the `MC` modules put the parts one run checks side by side.

### Packet paths

**`SeqSpace`** - the 16-bit counter (`SEQ_MOD = LAPS * SEQ_MAP_SIZE`, 65536 = 8 * 8192 in the code) and slots.

**`SeqMap`** - `dedup_state`: clear, lookup, store, idle test. `memset(seq_map, 0x55AA, ...)` stores the byte
`0xAA`, so a cleared entry reads `0xAAAA`; the constant `EMPTY` is that number, one packets carry.

**`PacketDelivery`** - the abstract specification of a direction: a numbered packet is written at most once, nothing else is.

**`Downlink`** - server to client. `SendToGateway` numbers a packet and puts a copy on any set of paths (a path
without address or socket is one the copy is lost on). A receiver thread has three steps, as its accesses to
shared state have: `Receive` (read the copy; `is_duplicate` reads the clock before the lock), `IsDuplicate` (the locked
section) and `WriteTun`. The network (`Lose`, repeated delivery in `Receive`) and the clock (`Tick`) are external.

**`DownlinkRestart`** - the same with `ServerRestart`, which zeroes the server's static counter.

**`Uplink`** - client to server with client restarts. `init_dedup_state` is split where another thread may
run: the test of `last_ts` (`InitTest`), its store (`InitMark`), the clear entry by entry and the store of
`last_update` (`InitClear`); the lookup as in `Downlink`.

**`FecLink`** - `SendBatch` numbers and encodes a packet and puts its shards on one path, less those the network
loses, plus one it repeats; `FecRecvDone` is the locked section with the decode; `ReadLen` and `WriteTun` are the two
accesses to the shared entry after the unlock; `StartClean` and `CleanEntry` are the part of `init_dedup_state` that renames
the entries, one at a time and unlocked (the flag may be another gateway's, so it comes at any moment). Payloads
are pairs (packet, index), so the model sees whose bytes lie where; `Decode` follows `reed_solomon_decode` including what
it leaves behind when it fails. The variable `sender` says which program sends: the client's batch is filled with a doubled
index (section 5).

**`Frames`** - the bytes: the buffer a packet is read into, the header before it, the datagram or the rows of the
shards, the receive buffers `recvmmsg` fills a batch at a time over what was in them, and the length that is written.

**`GF256`, `ReedSolomon`** - the field of the tables (polynomial 285) and the loops of `rs.c`, one loop step an action.

**`Oblas`** - the row operations of `oblas_lite.c` (add, scale, exchange, scatter by a mask) as their vector loop and byte
loop do them, in every width a build may choose, over rows between guard bytes.

### Tables, ring, processes

**`Routing`** - receiver threads `Receive`, `UpdateGatewayMap`, `UpdateConnTable`; main thread `FindGateway`, `SendToGateway`,
`CleanupExpiredGateways`, `CleanupExpiredConnections`, `NextPacket`. The entry is used after the unlock while threads may be
writing it: an address read in the middle of a write is the value `Torn`. `NextPacket` also stands for the remaining
packets of an io_uring batch, between which there is no cleanup. A thread that has read the clock may be overtaken
by `STALL` seconds. Where `MALLOC_FAILS`, an entry may not be made.

**`TunRing`** - `WaitCqe`, `WalkCqe`, `EndWalk` are `io_uring_poll`; `Complete`, `ReadPacket` and `ReadFails` are the kernel.

**`TunProcess`** - both programs as processes: the device (and what is left when `open` fails), the sockets, which the
server's threads make while main already sends, the loop, SIGINT, the exit, a crash, and the NAT rules, which the next run finds.

**`CrashHandler`** - `sigsegv_handler` in any number of threads: the walk of the frame chain as `print_call_link` does it, and
the locks of `syslog` and stdout, which the faulting thread may hold already.

**`IhList`, `IhHlist`** - every function and macro of `ih_list.h` that stores a pointer, pointer by pointer, for both
kinds of list; **`ListSpec`** - the lists they are meant to be, as sequences.

### GPS daemon

**`UbxPoll`** - the polls of the receiver's configuration: flush, send, hunt for a frame byte by byte, timeout, retry, NAK.
**`GnssLog`** - the log directory: append, rotate, gzip processes beside the daemon, the limit on files, loss of power, restart.
**`GnssDaemon`** - main, the logging thread, the antenna thread with its status file, signals, failures of set-up.

### Drivers and samples

**`DriverLife`** - each driver as a table of what its probe obtains in order, what each error label and remove release, which
entries a caller may come in through and what they use; the actions run any such table with any step failing.
**`CharSensor`** - the drivers that hand a sensor's samples to `read`. **`IioSensor`** - the ICM-20608 under industrial I/O: two
mutexes, scales and biases as registers, buffered capture. **`RtcClock`** - the fake clock, whose state is static. **`Buttons`** -
interrupt and polled buttons and LEDs. **`CharFile`** - the values the sysfs and character examples store and show.
**`Deferred`** - work items, tasklets and timers against removal of their module, and against an init function that waits for them turn by
turn of `wait_event_interruptible`. **`Evtest`** - capture with grabs and overruns.
**`EvQuery`** - evtest's tables of names, device listing, choice of a device and state queries. **`UdpSamples`**, **`TraceHooks`**,
**`UsbFind`** - the programs of those names in section 1.

History variables are marked as such where they are declared; no guard reads one except the named bounds and
the assumptions on the network below.

## 3. Runs

Bounds on packets, time and calls are constants in the `.cfg` files and appear as guards. `CHECK_DEADLOCK FALSE` is set
everywhere because these bounds make every model stop.

A run that covers several components has a variable `part` (`program` in `MCDriversSamples`): a behaviour chooses one component at its start and keeps
the others in one first state. The parts share no variables, so this is the same as a run for each, with one
verdict; the components that do act on each other are composed inside one module (`Downlink`, `Uplink`, `FecLink`,
`Routing`, `GnssDaemon`). A property of a part is checked in all of them and asks nothing of the others' first states.
`MCDownlink` and `MCRouting` use the same device for two instances of one module with different constants.

| Run | Checks | Bounds, and why they are enough |
|---|---|---|
| `downlink` | `AtMostOnce`, `RestartDropsExplained`, refinement of `PacketDelivery` (`Implements`), types | 2 slots, 4 numbers, 5 packets: number 0 is used twice and each slot by several packets; `SKEW` 2 makes two packets overlap in a slot's neighbourhood. One instance has a restart of the server, the other a longer clock, so that the table idles out with copies around it |
| `uplink` | `SettledOnce`, `StartCleans`, types | one client, two runs, two threads, two copies of the start packet; the second run starts later than `CLEAN_SECS` after the last clean (`GAP`) |
| `fec` | `CorruptionExplained`, `FecAtMostOnce`, `LossExplained`, types | code (2,1), the program's own, both senders; 5 packets, so one meets the entry of the packet a lap earlier; 3 of them as shards, a shard of one repeated; one start clean at any moment |
| `routing` | `ToAnnouncedAddress`, `MissingOnlyAfterRemoval`, `RepliesToHashOwner`, `ExpiresOnlyTheSilentHere`, types | one gateway, two paths, two threads, 4 seconds with a timeout of 1: paths expire, are heard again, the gateway is removed and entered again, a thread is overtaken, `malloc` may fail; and two gateways with three connections, two of which have one hash (their sums differ by the word, here 8), where an entry unused for a second expires and may be entered by the other gateway |
| `tunnel_process` | `InOrderUntilFailure`, `ReadsKept`, `EventuallySent`; `FecMissExplained`, `RulesExplained`; `TraceFaithful`; `ProcessesEnd`; types | three buffers, four packets: buffers are reused; up to two failed reads of either kind. Two runs of either program, one change of address, a crash. Two threads that fault on five kinds of stack |
| `code_and_lists` | `DecodingSound`, `SurvivorsUntouched`, `RowsExplained`, `FramesExplained`, `ListsSound`, `ImplementLists`, types | codes (2,1), (2,2), (3,2), (4,3), (2,2) being the smallest whose scaling leaves the workspace; every set of lost shards, data from two byte values (coding is linear, and the unit vectors are among the data); rows of 0 to 96 bytes around the widths 16, 32, 64; packets at, below and above the lengths where a buffer or a code begins; two lists of three nodes. An `ASSUME` checks that `Inv` inverts every byte |
| `gps_and_sensors` | `PollExplained`, `LogExplained`, `AnswersExplained`, `SettingsKept`, types | three polls of one class and id, one retry, one byte of noise that may be a sync character; two log files kept, two starts, several rotations within a second; two callers of every sensor; a bias with its top bit set on two axes; two clocks |
| `drivers_and_samples` | `ToolsExplained`, `DriversExplained`, `DriversLive`, types | every driver's table, each step failing, two probes; two copies of evtest; texts shorter than, as long as and longer than the buffers; USB paths of up to seven ports; numbers typed at the edges of the tables and beyond an `int` |
| `uplink_two_gateways` | violation of `OnlyDuplicatesDropped` | section 5 |
| `fec_client_sender` | violation of `SurvivesLoss` | section 5 |
| `routing_not_found` | violation of `NotFoundHandled` | section 5 |
| `ring_again` | violation of `SentInOrder` | section 5 |

Symmetry is used over paths, threads, gateways, nodes and processes where the specification treats them alike; not in
`fec`, where the path follows from the number, and not in a run that checks liveness.

**Refinements.** `Downlink` implements `PacketDelivery` (`Implements`, also proved); `IhList` and `IhHlist` implement
`ListSpec` (`ImplementLists`): the sequence a list stands for is what following its pointers gives.

**The network.** De-duplication by a number that wraps and a table that is cleared when idle cannot work against an
arbitrary network. `Downlink`, `Uplink` and `FecLink` make explicit what it relies on: `SKEW`, how many packets later than its own
a copy may still be looked up, and `LIFE`, how many seconds. With `SKEW <= SEQ_MAP_SIZE` (8192 packets) and
`2 * LIFE <= CONN_TIMEOUT` (90 seconds) the filter is right; these are the assumption `NetworkBounds` of the proofs.

**Fairness.** Three properties are of liveness.

- `EventuallySent` (a packet that was read is sent): weak fairness of the main thread's three steps, which the loop
  `while (1) io_uring_poll(...)` gives; nothing is asked of the kernel, so a device that delivers nothing is allowed.
- `ProcessesEnd`: weak fairness of main's steps while it is not waiting for a packet; of the calls of other threads that hold a
  lock, which return; strong fairness of a handler that waits for the lock of `syslog` or stdout, since several threads may
  take it in turn and glibc's locks are not handed over in order, but do not starve a waiter for ever.
- `DriversLive`: weak fairness of each program's own steps and of the kernel's duty to run a pending interrupt, work item or
  timer; for the daemon also that the GPS receiver goes on sending (`LoggerRead`), since its handlers restart `read`. Signals and
  people's actions are never asked for. It is one formula for the five programs (`Requested`, `Answered`).

That every batch of which enough shards arrived gets written is stated as a safety property (`LossExplained`, once nothing
of the packet is under way), which needs no fairness.

**Properties with exceptions.** Many names end in `Explained`: the property says that what can go wrong does so for a reason named
in it, and for no other. The exceptions are what the code does; section 5 collects those a user would notice.

**Mutants.** For every property of every passing run `PROJECT.json` names a mutant, a plausible mistake in one mapped
definition (defined next to it and marked `Mutant:`), under which TLC finds the property violated.

## 4. Proofs

The theorems hold for every value of the constants, under the `ASSUME`s of the modules and what is said here.

### Downlink (`SeqSpace`, `Downlink_proofs`)

`TypeCorrect`; and under `NetworkBounds` `DownlinkAtMostOnce` (`Spec => []AtMostOnce`), `DownlinkDropsExplained`,
`DownlinkImplements` (`Spec => Implements`). `SeqSpace` holds the lemmas on the arithmetic of numbers and slots.

`AtMostOnce` is not inductive: it says nothing of the copies still to be looked up. The strengthening `IInv`
says what the filter relies on. Every copy carries its packet's number and belongs to a packet already sent; a copy
under way is at most `SKEW` packets and `LIFE` seconds late. Then the two invariants that do the work: *if a packet was accepted and
a copy of it is still under way, then its slot still holds its number* - for another number can only have been stored by a packet
of the same slot, that is a multiple of `SEQ_MAP_SIZE` packets away, later than `SKEW` allows while the copy is under way, or
earlier, which its own lateness bound excludes - and *the table has not idled out since*, for `last_update` is at least the
packet's send time less `LIFE`: a thread that accepts stores the time it read before the lock, which may be older than what
is there, but never by more than `LIFE`. So a copy of an accepted packet is judged a duplicate. The
last conjunct ties writes to acceptance: each packet is either not accepted, held by one thread about to write, or written
once. `DropsExplained` follows from a conjunct on the table alone: every entry is `EMPTY` or the number of an accepted packet of
that slot. Refinement: `SendToGateway` maps to `Accept`, `WriteTun` to `Deliver` (the conjunct on writes gives its guard),
all else to stutters.

`RestartTypeCorrect`, and under `NetworkBounds` `RestartDrops`, `RestartAtMostOnce` and `RestartImplements`, say the same of
`DownlinkRestart`, whose server may lose its memory and count from 0 again at any time. The number of a packet is no longer its index, so
`RInv` replaces the arithmetic of `IInv` by `Runs`: within a run the numbers go up by one, wherever the counter was.
`RRemembered` holds for packets of the current run only, which is enough, as a restart ends all copies of the old one; `REntries`
keeps the run out, and so leaves the stale entries that make `RestartDropsExplained` a weaker promise than `DropsExplained`.

### Uplink (`Uplink_proofs`)

`UplinkTypeCorrect` without a hypothesis. The other two are for `OneGateway`: two gateways number their packets independently and share one
table at the server, so neither property holds of two (section 5). Both rest on `Common` (types, `Copies`, `Clocks`) and on `Numbered(b)`:
the present run counts from some packet `b`, which is not a variable of the model but can be exhibited at every start.

- `UplinkSettledOnce`, under `NetworkBounds`: a copy is looked up before its slot comes round again, and two copy lifetimes fit in the
  idle time. `Settled`: while copies of a settled packet may come, its slot holds its number, the table will not idle out, and no thread is
  in, or can still enter, `init_dedup_state`. The third is what *settled* is for: a thread that judged the start old clears nothing later.
  `Writing` is the downlink's.
- `UplinkStartCleans`, under `RestartBounds`: `CLEAN_SECS + LIFE <= GAP`, as `is_start_packet` takes a start less than `CLEAN_SECS`
  after the last clean for a copy of the same; and `MaxPackets <= SEQ_MOD`, a run too short to wrap, after which a number does not tell
  the runs apart. `Runs` ties `last_ts` to the runs: a clean is at most `LIFE` after the start it belongs to, and a run
  whose start was handled has a clean of its own. `Cleaned(b)`: what is behind a clearing thread's position, and the whole
  table once it is through, is empty or was stored by the run that counts from `b`.

### FEC (`FecLink_proofs`)

`FecTypeCorrect`; and under `FecWindow`, that a shard is looked up before `SEQ_MAP_SIZE` further packets are numbered,
`FecCorruptionExplained`, `FecLossExplained` and, for fewer parity than data shards (the program's code is two and one),
`FecWrittenOnce`. With `N >= K` what is left over after a packet is completed can complete it again.

The window gives that no two packets with shards under way, or in a thread's hands, meet in an entry, and `Traffic` that all shards
of a packet go through one thread, which is why what a thread does with the entry after the unlock is safe between cleans. What is left is the life of one packet in
its entry, `PacketInv(n)`, a conjunct for each way it can go: the bytes marked as there are its own (`Right`); it is completed once, and
again only after a clean went past its entry (`OncePerClean`, which counts the cleans still to come past it) and renamed it
(`OnceUnlessRenamed`), or with repeated shards (`OnceUnlessRepeated`: what was counted and what may still come are together fewer than two
packets' worth); and a packet of which enough came through is completed, or what is missing is still under way (`OnItsWay`).

### Routing (`Routing_proofs`)

Each theorem has an invariant over `Typed` (the types, and that main has a packet when it sends one):

- `RoutingToAnnouncedAddress`: `Announcements`. Every address stored, or in the hands of a thread about to store it, was announced
  by that gateway on that path. Main reads the entry unlocked; what it may find is the stored address or, while a thread is
  storing one, that one or a torn one.
- `RoutingMissingOnlyAfterRemoval`: `Presence`. Whatever can lead to a lookup - a thread between the two tables, a connection,
  the packet in hand - names a gateway that is in the list, was removed by a cleanup, or was refused by `malloc`.
- `RoutingRepliesToHashOwner`: `Owners`. A connection's entry names a gateway that sent a packet with the entry's hash, the sum
  of the two addresses modulo the word; the reply has the same hash, for the sum commutes. Nothing is assumed of the traffic:
  which other connections share the entry is section 5's.
- `RoutingExpiresOnlyTheSilent`: `Clock` and `Behind`. A thread's time is at most `STALL` old, so `last_seen_apn` is at most `STALL`
  behind the last packet although threads store their times in any order; so what a cleanup forgets was silent for
  `CONN_TIMEOUT - STALL`.

### Ring, fault handler and the two programs (`Programs_proofs`)

- `RingTypeCorrect`, with `Filled`: an entry that carried a packet names a buffer that holds one.
- `RingInOrder`: until a read fails, `Fifo`: what waits in the queue is what was read and not sent, in order; each waiting
  entry's buffer has no read in flight, no two name the same buffer, and what was walked is what is counted for release.
  After a failed read the last is false, and so is the property (section 5).
- `RingReadsKept`: `ReadsInv`. Until a read fails each buffer has one read in flight, prepared or waiting (`OneEach`); and after each
  failure at most one buffer more is never read into again (`Alive`), which is counted by cardinalities of sets, not by buffers.
- `CrashTraceFaithful`: `WalkInv`. `Walking` says that the walk is always at the next function of the stack, past a frame without a
  link, or at a register that holds no frame; `Explained` says why it stopped.
- `ProcTypeCorrect`, and `ProcMissExplained` from `SocketsInv`: what each worker's descriptor can be at each step of main and of the worker. The
  client's are made, or have failed, before main loops; a server's worker has 0 until its thread has made a socket; and descriptors
  are closed only under `exit_flag`.
- `ProcRulesExplained`, for a finite set of LANs: `RulesInv` lets a rule be counted by the run that can still delete it (`Deletable`)
  instead of by the run at hand, which is what each step preserves. The rules are added up by the community modules' fold; that the sum
  changes with one summand as it should (`SumChanged`) is proved without induction over an operator, from the least number for
  which a concrete formula fails (`LeastNumber`, by `WFMin`).

- `ProcessTypes`: the types of the three together, as the run states them.

### Programs and drivers beside the tunnel (`Programs_proofs`)

They share nothing, so each has an invariant of its own, and a step of one keeps the others' (`DriversStep`). `DriversTypes` has the types of
all, `ToolsAreExplained` and `ModulesAreExplained` what the run states of the programs and of the kernel modules (of these without the leaks
and faults of `DriverLife`, below).

- GPS daemon: `DaemonInv`, which threads run in which stage of main, and that the last line is that of the status of the pins read last.
- evtest: `EvInv`. What a copy printed, read and has not read yet is one sequence, in which each event is later than the one
  before it and skips only events it was not given (`unheard`), unless a mark of loss stands between (`Linked`), and which
  reaches up to the newest event (`UpTo`); so printing and reading only move a border. `EvHold`: from the trial of the grab on, a copy that wants it has it or has said that it has not.
- UDP samples: what is queued or printed is of the pair, or comes from where the code lets it come from (`Allowed`); the 0 is stored inside
  the buffer.
- Tracing hooks: `OneCounts`. As long as no two hooks met, one task at most is between the set and the clear of the guard, so what it read is still
  the depth; and the depth is the sum over all tasks of the calls in progress, less what a hook still has to add (`Counted`, with the
  `SumChanged` of the NAT rules).
- Buttons, files, deferred work, queries: the properties themselves with the facts of control they need - a run of the handler was
  asked for by a press, a buffer holds what was stored last, the callbacks of a module that is gone are done where its exit waits for them, a
  query that has come to its second word has understood the first.
- USB listing: `TableSound` and `TableComplete`, what the table holds of the devices already passed, and `PathSoFar`, how long a path is after
  `port` numbers, from which the array's bound follows.

### Frames, rows, codes and lists (`CodeAndLists_proofs`)

- `FramesTypes`, `FramesAreExplained`. `FramesInv` exhibits the *image* of what every buffer holds: for each byte of `tun_buf`, of the
  shards and of the receive batch, the packet and offset it came from, or that it is left over. A packet's own bytes are in front of
  what is left over, and the length that is written comes with them; so what is left over is written only when the packet
  was cut, the exception `FramesExplained` names.
- `RowsAreExplained`: `OblInv`. Up to `off` the row is what the definition says, from there on it is as before the call, and the
  guards are untouched; `off` moves by the vector's width, then by bytes. The one exception is `obl_axpyb32` past byte 32 of a 64 byte vector.
- `WorkspaceIsKept`, `SurvivorsAreKept`: for every `ds` and `ps`, without any fact of the field. `CodeInv` bounds the loop variables
  and says that no more shards are solved for than parity shards are in hand; so the work matrix fits its workspace, and since `scal`
  writes `W` cells from the diagonal on, it is past the end by fewer than `ds` bytes, and only if `ps = ds = W`. No step writes the row of
  a shard that was received.
- `ListsAreSound`: both kinds of list have the invariant that *some* sequences explain the pointers. `ListInv` says
  `\E L : Holds(ring, dangling, L)`, `HlistInv` the same of chains with back pointers, kept in order while only the ordered insertion is
  used. Each call then has a lemma that gives the new sequences from the old; no induction along the pointers is needed.
- `ListsImplemented`: the same lemmas say that each call is the `ListSpec` action on those sequences, and that what following
  the pointers gives (`Listed`, `Chained`) is the sequence. This is the refinement, step by step.
- `SequentialTypes`: the types of the five components.

### GPS daemon's polls and log, sensors, clock (`GpsSensors_proofs`)

- `PollsExplained`: `UbxInv`. `Owing` counts what the receiver still owes of each class and id: an answer that is
  filed for another poll than its own was late, or an earlier one was filed in its place, or a NAK took its place (`FiledExplained`). `InStep`
  is what `HeardUnlessSpoilt` needs: as long as the line spoils nothing and no flush cuts a frame, what is in the parser's buffer and on the
  line is a sequence of whole frames in phase with the hunt. The attempt to prove the property as it stood failed: *one* late
  answer shifts every later answer of its class and id by one, since each poll then takes its predecessor's (the daemon polls CFG-MSG some
  fifty times and CFG-INF seven). `FiledExplained` now says so, and the run has three polls of one class and id.
- `LogsExplained`: `LogInv`. `LogFileOpen` (the loop's counter is the file's size and gzip leaves the open file alone), `Compressing` (what gzip has read is
  the file, unless it grew meanwhile), `NamesPast`; and, as long as the directory is `Clean` - no loss of power, no name opened twice, no
  file a start found - `Tidy`: every file is the open one, one gzip works on, or one it has finished, whence the number of files by cardinalities.
- `AnswersAreExplained`: `SensorInv` for the character devices - calls that overlap know it (`KnownShared`), no byte is newer than the sample, a
  transfer brings both bytes of a value, a call that is alone brings one sample and no older one (`OneSample`, `Fresh`) - and `RtcInv` for the clock
  (`Meant`: what the clock would have to tell were the half done setting completed).
- `SettingsAreKept`: `IioInv`. The registers hold what was last acknowledged (`Registers`), direct mode is held by whom it was granted until a stray
  release (`ModeHeld`), capture is switched by its holder, and an access in progress has seen what was last acknowledged (`Watching`, `AnswerSeen`).
- `ReadersTypes`: the types of the five.

These invariants, and those of section 4 before, were checked by TLC on the runs' instances before they were proved.

### What the theorems assume

The `ASSUME`s of the modules type the constants; what they say beyond that is of the code: the polls' classes are not 0 and none is
NAK (`UbxAssumption`, the tables in `main.c`), two log files at least are kept (`LogAssumption`), an accelerometer has an X axis (`IioAssumption`),
shards are long enough for a packet (`FramesAssumption`), codes have a data and a parity shard, lists have finitely many nodes, a frame chain has a frame,
a word has 32 or 64 bits (`QueryAssumption`), a USB path has at most eight ports of one or two digits, for which `port_str` has 16 bytes
(`UsbAssumption`), a probe is run at least once (`LifeAssumption`), finitely many tasks are traced (`TraceAssumption`).
`NetworkBounds`, `RestartBounds`, `FecWindow`, `OneGateway` are hypotheses of the theorems that need them.

Inductions are over natural numbers and in set form: the least number for which a concrete formula fails (`WFMin`), since
the library's rules with an operator parameter cannot be instantiated here.

### Only model-checked

- `DecodingSound`, that what is decoded is the data: it needs the field's algebra (associativity and inverses of products of bytes) and
  that the generator's square parts can be inverted. TLC covers three codes, the program's own among them, and every loss. `FecLink_proofs` takes the decoder as
  this check has it: any `K` shards that are whole give the packet.
- `ExpiresOnlyTheSilentHere` and the types of `MCRouting` and of `Downlink` as their runs state them: they speak of two instances
  of one module; the theorems (`RoutingExpiresOnlyTheSilent`, `RoutingTypeCorrect`, `TypeCorrect`) are of every instance.
- `LeaksExplained` and `FaultsExplained`, of `DriversExplained`: they compare constant tables of twenty-three drivers with what running them
  does. TLC explores each completely; a proof would be the same enumeration. The types of `DriverLife` are proved.
- Liveness (`EventuallySent`, `ProcessesEnd`, `DriversLive`) is out of the prover's reach.

## 5. Where code and documents disagree

Each of these is a run in which TLC exhibits the behaviour.

- **All gateways share one filter** (`uplink_two_gateways`): each gateway numbers from 0, the table has no gateway in its key, so
  packets of one gateway are dropped as duplicates of another's (`ustun.c:342`).
- **The client's FEC batch is indexed twice** (`fec_client_sender`): `msg = &packet[i]` and then `msg[i]` (`uctun.c:484-489`).
  Shard 1 goes out in the third datagram, the second stays empty, the parity shard is written outside the array: with
  `-f` a single lost datagram loses the packet.
- **A missing gateway is not noticed** (`routing_not_found`): after a search that fails, `get_gateway_addr` returns the loop cursor, not
  `NULL` (`ustun.c:454-467, 748`). The state is reached when a cleanup removes a silent gateway whose connection is kept alive by packets to it.
- **A failed read makes the ring send a packet twice** (`ring_again`): the walk releases as many entries as carried packets,
  not as many as it walked (`ustun.c:183`).

Limits that the passing runs state as exceptions of their properties. In the tunnel:

- the packet whose number a cleared entry reads is dropped; after a restart of the server the client drops packets until its
  table idles out (`RestartDropsExplained`);
- a client that restarts within three seconds of the last clean is not cleaned for (`uplink` has `GAP >= CLEAN_SECS`);
- around a client's start a packet may be written twice, for the clear is not under the lock (`SettledOnce` speaks of
  packets accepted outside that window only);
- a shard that arrives twice is counted twice, an FEC entry left incomplete is continued a lap later, and one being
  collected when a start flag comes loses its number (`Excused`);
- connections are told apart by the sum of two addresses only (`ustun.c:510`, `:533`): the first of those with one sum to be
  entered keeps the gateway of all, so a reply may go to a gateway that never sent a packet of its connection. That, and
  nothing else, is what `RepliesToHashOwner` excuses;
- `scal` is called with the width of the row but a pointer to the diagonal (`rs.c:59`): it writes into the row below, where zeros
  are, and past the end of the allocation when a code has as many parity as data shards and all data shards are lost
  (`WorkspaceKept`, with the bytes written past the end counted in `overrun`). The tunnel's own code, 2 and 1, is not one;
- a packet sent whole that is longer than a receive buffer less the header is cut (`FramesExplained`);
- a failed read costs its buffer for good (`ReadsKept`); a shard may go to descriptor 0 before the thread has made its socket
  (`FecMissExplained`); a crash or a change of address leaves a NAT rule (`RulesExplained`); SIGINT just before the wait is
  seen after the next packet, and a fault inside `syslog` leaves the server up but dead (`ProcessesEnd`).

In the other programs:

- a poll may be settled by a late answer or NAK of an earlier poll of its class and id, and then so is every later poll of that
  class and id, each with its predecessor's (`PollExplained`); rotations within a second
  write into the file being compressed (`LogExplained`); two states of the antenna's pins share a number (`AntTruthful`);
- the depth of the trace may stay below zero after hooks of several threads raced: a count read below zero is stored after another
  hook's clamp (`GuardReopens`; it takes three threads and seven hooks, more than the run has, and was found by trying to prove `depth >= 0`);
- `shared-workqueue.c` frees the wait queue its init function sleeps on right after waking it (`:25-26`); nobody makes the condition true, so
  init goes back on the freed queue, in an ordinary run too, and returns only for a signal (`FreedDataExplained`);
- sensor readings mix samples when calls overlap, and a failed transfer answers an old or zero value (`ReadingsExplained`); the clock
  of two devices is one (`ClockExplained`); direct mode refused is released all the same (`DirectModeKept`), and a scale whose
  register cannot be read is answered like any other (`ScaleReadBack`);
- which drivers leave what behind, and which entry meets what too early or too late, is listed in `LeftByRemove`, `LeftByFailure`
  and `Expected` of `DriverLife`;
- the accelerometer's biases of Y and Z are written two bytes apart from X's, while `icm20608.h:81-86` has the registers three
  apart. `BiasReadBack` holds all the same: what is written is read back from the same place.

## 6. Not modelled, and why

- `sse2neon.h` and `autoshim.h`: third-party and generated translations of vector intrinsics, taken to do what their names say;
  `libusb.h`: a library's header. With the product table `gf2_8_mul_table.h`, which `Oblas` models by the product of two
  elements rather than by its rows, they are more than half of the repository's C.
- Of the tunnel: option parsing; messages with a path number outside 1..2, which neither program sends; what is sent from the memory
  a missing gateway's cursor points to; `io_uring_get_sqe` returning `NULL`. Plain variables that race (`last_seen_apn`,
  `last_ts`) are word-sized and modelled as old or new value; addresses are two stores and may be torn.
- Behaviour that is in the models but of which nothing in the repository states what is right: a gateway whose paths expired
  in different rounds stays in the list for ever without one; cleanup runs only after traffic from the TUN device; shards are
  sent to the path the counter chooses, whether it was heard or not; a queue of nothing but failed reads makes the main thread spin.
- Of the GPS daemon: the debug commands' parsing and the lines of the configuration file.
- Of the drivers: the set-up of the chips' registers, the empty operations of the network driver, and what the kernel does after a
  fault, which ends the behaviour.
- Shell scripts (`script/mptcp`, `mqtt`, `openvpn`, `book/kernel/ramoops`, `my_config.sh` and others): their state is the kernel's, the
  file system's and that of the programs they call, none of which is in the repository.
- `speedtest`: a Node server that streams zeros and a web page; what can go wrong is in Node's streams and the browser.
- `vim`, `nvim`, `tools`, `opencode`, `zephyr`, `tmp`: configuration, plug-ins and installation scripts. The book's `backstrace.c` is an
  earlier copy of the tunnel's.
