------------------------------- MODULE Evtest -------------------------------
(***************************************************************************)
(* The capture mode of evtest (driver/input/evtest/evtest.c): several      *)
(* copies read the events of one input device, each tries whether it can   *)
(* grab the device, and one asked to keeps the grab; SIGINT ends the loop  *)
(* of select and read.  The device gives every event to who holds the      *)
(* grab, else to everyone, and marks a reader's queue when it overran.      *)
(***************************************************************************)
EXTENDS Integers, Sequences

CONSTANTS
  Proc,          \* the copies of evtest
  Grabs,         \* those started with --grab
  BATCH,         \* events one read takes            (64)
  QUEUE,         \* events the device keeps for a reader
  MaxEvents,     \* bound
  NoProc

ASSUME EvtestAssumption ==
  /\ Grabs \subseteq Proc /\ NoProc \notin Proc
  /\ BATCH \in Nat \ {0} /\ QUEUE \in Nat \ {0, 1} /\ MaxEvents \in Nat

VARIABLES
  where,       \* where each copy is in do_capture and print_events
  stop,        \* its variable stop
  said,        \* asked to grab, it printed that another process has the grab
  batch,       \* what the last read returned
  shown,
  holder,      \* who holds the grab
  unread,      \* of each open file, the events not read yet; DROPPED marks a loss
  event,       \* the number of the last event
  gone,        \* the device is unplugged
  unheard,     \* history: the events it was not given before it ended
  late         \* history: the interrupt came between the test of stop and select

evVars == <<where, stop, said, batch, shown, holder, unread, event, gone, unheard, late>>

DROPPED == -1
Handling == {"test", "call", "select", "woken", "print"}   \* the signals are caught
OpenAt == Handling \cup {"info", "grab", "ungrab", "signal"}

EvInit ==
  /\ where = [p \in Proc |-> "start"]
  /\ stop = [p \in Proc |-> FALSE] /\ said = [p \in Proc |-> FALSE]
  /\ batch = [p \in Proc |-> <<>>] /\ shown = [p \in Proc |-> <<>>]
  /\ holder = NoProc
  /\ unread = [p \in Proc |-> <<>>]
  /\ event = 0 /\ gone = FALSE
  /\ unheard = [p \in Proc |-> {}]
  /\ late = [p \in Proc |-> FALSE]

\* A copy goes on to b; one that ends closes the file, and with it its grab and
\* its queue.
Goes(p, b) == where' = [where EXCEPT ![p] = b]
Releases(p) == holder' = IF holder = p THEN NoProc ELSE holder
Ends(p) == Goes(p, "end") /\ Releases(p) /\ unread' = [unread EXCEPT ![p] = <<>>]
Device == <<unread, event, gone, unheard, late>>

-----------------------------------------------------------------------------
(* The device *)

\* Full, the queue is thrown away but for the newest event.
Queued(q, e) == IF Len(q) < QUEUE THEN Append(q, e) ELSE <<DROPPED, e>>

\* The reader has the device open and the grab does not keep the event from it.
Hears(p) == where[p] \in OpenAt /\ holder \in {NoProc, p}

\* Events that no copy has the device open for are not counted.
Press ==
  /\ event < MaxEvents /\ ~gone /\ \E p \in Proc : where[p] \in OpenAt
  /\ event' = event + 1
  /\ unread' = [p \in Proc |-> IF Hears(p) THEN Queued(unread[p], event') ELSE unread[p]]
  /\ unheard' = [p \in Proc |-> IF Hears(p) \/ where[p] = "end" THEN unheard[p]
                               ELSE unheard[p] \cup {event'}]
  /\ UNCHANGED <<where, stop, said, batch, shown, holder, gone, late>>

Unplug ==
  /\ ~gone /\ gone' = TRUE
  /\ UNCHANGED <<where, stop, said, batch, shown, holder, unread, event, unheard, late>>

\* SIGINT: caught or not.  A select that waits returns for it, one not yet
\* called does not.
Interrupt(p) ==
  /\ where[p] \in OpenAt /\ ~stop[p]
  /\ IF where[p] \notin Handling THEN Ends(p) /\ UNCHANGED stop
     ELSE /\ stop' = [stop EXCEPT ![p] = TRUE]
          /\ Goes(p, IF where[p] = "select" THEN "woken" ELSE where[p])
          /\ UNCHANGED <<holder, unread>>
  /\ late' = [late EXCEPT ![p] = where[p] = "call"]
  /\ UNCHANGED <<event, gone, unheard, said, batch, shown>>

-----------------------------------------------------------------------------
(* do_capture *)

OpenDevice(p) ==
  /\ where[p] = "start"
  /\ Goes(p, IF gone THEN "end" ELSE "info")
  /\ UNCHANGED <<Device, holder, stop, said, batch, shown>>

\* print_device_info: its first ioctl fails when the device is gone.
DeviceInfo(p) ==
  /\ where[p] = "info"
  /\ IF gone THEN Ends(p) ELSE Goes(p, "grab") /\ UNCHANGED <<holder, unread>>
  /\ UNCHANGED <<event, gone, unheard, late, stop, said, batch, shown>>

\* test_grab gives the grab back unless it was asked for.
Ungrabs(p) == p \notin Grabs

\* test_grab's first ioctl; a refusal (of any kind) is reported as a grab of
\* another process, and evtest goes on.
TestGrab(p) ==
  /\ where[p] = "grab"
  /\ IF holder = NoProc /\ ~gone
     THEN holder' = p /\ Goes(p, IF Ungrabs(p) THEN "ungrab" ELSE "signal") /\ UNCHANGED said
     ELSE said' = [said EXCEPT ![p] = ~Ungrabs(p)] /\ Goes(p, "signal") /\ UNCHANGED holder
  /\ UNCHANGED <<Device, stop, batch, shown>>

Ungrab(p) ==
  /\ where[p] = "ungrab"
  /\ Releases(p) /\ Goes(p, "signal")
  /\ UNCHANGED <<Device, stop, said, batch, shown>>

\* signal(SIGINT), signal(SIGTERM).
CatchSignals(p) ==
  /\ where[p] = "signal" /\ Goes(p, "test")
  /\ UNCHANGED <<Device, holder, stop, said, batch, shown>>

-----------------------------------------------------------------------------
(* print_events *)

\* Mutant: the variable is tested only after select.
LoopEndsLate(p) == FALSE

\* while (!stop).
LoopEnds(p) == stop[p]

TestStop(p) ==
  /\ where[p] = "test"
  /\ IF LoopEnds(p) THEN Ends(p) ELSE Goes(p, "call") /\ UNCHANGED <<holder, unread>>
  /\ UNCHANGED <<event, gone, unheard, late, stop, said, batch, shown>>

\* select is called; it returns when there is something to read.
CallSelect(p) ==
  /\ where[p] = "call" /\ Goes(p, "select")
  /\ UNCHANGED <<Device, holder, stop, said, batch, shown>>

SelectReturns(p) ==
  /\ where[p] = "select" /\ (unread[p] # <<>> \/ gone)
  /\ Goes(p, "woken")
  /\ UNCHANGED <<Device, holder, stop, said, batch, shown>>

Taken(q) == IF Len(q) < BATCH THEN Len(q) ELSE BATCH

\* stop is tested again, then read; an unplugged device is an error.
ReadEvents(p) ==
  /\ where[p] = "woken"
  /\ IF stop[p] \/ gone THEN Ends(p) /\ UNCHANGED batch
     ELSE /\ Goes(p, "print") /\ UNCHANGED holder
          /\ batch' = [batch EXCEPT ![p] = SubSeq(unread[p], 1, Taken(unread[p]))]
          /\ unread' = [unread EXCEPT ![p] = SubSeq(@, Taken(@) + 1, Len(@))]
  /\ UNCHANGED <<event, gone, unheard, late, stop, said, shown>>

\* Mutant: a loss is not printed.
LinesSilent(b) == SelectSeq(b, LAMBDA e : e # DROPPED)

\* One line for every event of the batch, SYN_DROPPED among them.
Lines(b) == b

PrintEvents(p) ==
  /\ where[p] = "print"
  /\ shown' = [shown EXCEPT ![p] = @ \o Lines(batch[p])]
  /\ batch' = [batch EXCEPT ![p] = <<>>]
  /\ Goes(p, "test")
  /\ UNCHANGED <<Device, holder, stop, said>>

Runs(p) ==
  \/ OpenDevice(p) \/ DeviceInfo(p) \/ TestGrab(p) \/ Ungrab(p) \/ CatchSignals(p)
  \/ TestStop(p) \/ CallSelect(p) \/ SelectReturns(p) \/ ReadEvents(p) \/ PrintEvents(p)

EvNext == Press \/ Unplug \/ \E p \in Proc : Interrupt(p) \/ Runs(p)

EvSpec == EvInit /\ [][EvNext]_evVars /\ \A p \in Proc : WF_evVars(Runs(p))

-----------------------------------------------------------------------------
(* Properties *)

EvTypeOK ==
  /\ where \in [Proc -> OpenAt \cup {"start", "end"}]
  /\ stop \in [Proc -> BOOLEAN] /\ said \in [Proc -> BOOLEAN]
  /\ holder \in Proc \cup {NoProc} /\ holder # NoProc => where[holder] \in OpenAt
  /\ \A p \in Proc :
       /\ Len(unread[p]) <= QUEUE /\ Len(batch[p]) <= BATCH
       /\ where[p] # "print" => batch[p] = <<>>
       /\ unheard[p] \subseteq 1 .. event

\* The events a copy prints are in order, and one that is missing went to the
\* holder of a grab, or to nobody for want of an open file, or there is a line
\* SYN_DROPPED in its place.
PrintedExplained ==
  \A p \in Proc : \A i \in DOMAIN shown[p] :
    LET a == IF i = 1 THEN 0 ELSE shown[p][i - 1]   b == shown[p][i] IN
    DROPPED \notin {a, b} => a < b /\ (a + 1) .. (b - 1) \subseteq unheard[p]

\* A copy started with --grab that reads events holds the grab or has said that
\* it was refused, be it by the mere trial of another copy; and one started
\* without it keeps nobody else from the events.
GrabbedOrTold ==
  \A p \in Proc :
    /\ where[p] \in Handling /\ p \in Grabs => holder = p \/ said[p]
    /\ holder = p /\ p \notin Grabs => where[p] = "ungrab"
=============================================================================
