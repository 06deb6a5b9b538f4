--------------------------- MODULE MCDriversSamples ---------------------------
(***************************************************************************)
(* The programs and kernel modules beside the tunnel, each on its own: the *)
(* GPS daemon's threads (GnssDaemon), evtest (Evtest), the UDP samples     *)
(* (UdpSamples), the tracing hooks (TraceHooks), the button drivers        *)
(* (Buttons), the files of the character and sysfs examples (CharFile),    *)
(* what every driver's probe and remove acquire and release (DriverLife)   *)
(* and the deferred-work exercises (Deferred), evtest's query mode         *)
(* (EvQuery) and the USB listing (UsbFind).  A behaviour is of one of      *)
(* them; the others stay in one first state.                               *)
(***************************************************************************)
EXTENDS GnssDaemon, Evtest, UdpSamples, TraceHooks, Buttons, CharFile, DriverLife, Deferred,
        EvQuery, UsbFind

\* Numbers typed (an int, and whether it is the number typed), device files, and
\* libusb's lists.
SomeNumbers ==
  {[int |-> n, exact |-> TRUE] : n \in {0, 1, 5, 17, 767, 768, -1}}
    \cup {[int |-> n, exact |-> FALSE] : n \in {-7, 1}}
SomeNodes ==
  LET File(n, o) == [number |-> n, opens |-> o] IN
  {<<>>, <<File(0, TRUE), File(1, FALSE), File(5, TRUE)>>,
   <<File(0, FALSE), File(5, FALSE)>>, <<File(1, TRUE), File(5, FALSE)>>}
SomeLists ==
  LET Dev(p, s) == [product |-> p, ports |-> s] IN
  {<<>>,
   <<Dev("modem", <<1, 2>>), Dev(NoString, <<>>), Dev("modem", <<2, 2, 2, 2, 2, 2, 2>>),
     Dev("modem", <<1>>)>>,
   <<Dev("hub", <<1>>), Dev("modem", <<2, 2, 2, 2, 2, 2>>)>>}

VARIABLE program   \* the component this behaviour is of

listVars == <<eqVars, usbVars>>
toolVars == <<daemonVars, evVars, udpVars, traceVars, listVars>>
moduleVars == <<btnVars, filVars, lifeVars, deferredVars>>

DriversInit ==
  /\ program \in {"daemon", "evtest", "udp", "trace", "button", "file", "life", "deferred",
              "query", "usb"}
  /\ DaemonInit /\ EvInit /\ TraceInit
  /\ UdpInit /\ (program # "udp" => pair = "simple" /\ addr = "one" /\ ~joined)
  /\ BtnInit /\ (program # "button" => kind = "polled" /\ level = 0)
  /\ FilInit /\ (program # "file" => file = "mychardev")
  /\ LifeInit /\ (program # "life" => drv = "dummy_char")
  /\ DeferredInit /\ (program # "deferred" => exercise = "tasklet")
  /\ EqInit /\ (program # "query" => reports = {} /\ down = {})
  /\ UsbInit /\ (program # "usb" => devs = <<>> /\ target = NoString)

DriversNext ==
  /\ \/ program = "daemon" /\ DaemonNext /\ UNCHANGED <<evVars, udpVars, traceVars, listVars, moduleVars>>
     \/ program = "evtest" /\ EvNext /\ UNCHANGED <<daemonVars, udpVars, traceVars, listVars, moduleVars>>
     \/ program = "udp" /\ UdpNext /\ UNCHANGED <<daemonVars, evVars, traceVars, listVars, moduleVars>>
     \/ program = "trace" /\ TraceNext /\ UNCHANGED <<daemonVars, evVars, udpVars, listVars, moduleVars>>
     \/ program = "button" /\ BtnNext /\ UNCHANGED <<filVars, lifeVars, deferredVars, toolVars>>
     \/ program = "file" /\ FilNext /\ UNCHANGED <<btnVars, lifeVars, deferredVars, toolVars>>
     \/ program = "life" /\ LifeNext /\ UNCHANGED <<btnVars, filVars, deferredVars, toolVars>>
     \/ program = "deferred" /\ DeferredNext /\ UNCHANGED <<btnVars, filVars, lifeVars, toolVars>>
     \/ /\ program = "query" /\ EqNext
        /\ UNCHANGED <<usbVars, daemonVars, evVars, udpVars, traceVars, moduleVars>>
     \/ /\ program = "usb" /\ UsbNext
        /\ UNCHANGED <<eqVars, daemonVars, evVars, udpVars, traceVars, moduleVars>>
  /\ UNCHANGED program

\* The fairness of each component, asked of it when the behaviour is its own;
\* Buttons and Deferred ask nothing in their first state.
DriversSpec ==
  /\ DriversInit /\ [][DriversNext]_<<toolVars, moduleVars, program>>
  /\ WF_daemonVars(program = "daemon" /\ DaemonStep)
  /\ WF_daemonVars(program = "daemon" /\ LoggerRead)
  /\ WF_daemonVars(program = "daemon" /\ LoggerTest)
  /\ WF_daemonVars(program = "daemon" /\ RecorderEnds)
  /\ \A p \in Proc : WF_evVars(program = "evtest" /\ Runs(p))
  /\ WF_udpVars(program = "udp" /\ Setup)
  /\ WF_udpVars(program = "udp" /\ (Loop \/ Recvfrom \/ Receive \/ Timeout))
  /\ WF_btnVars(Handler) /\ WF_btnVars(Poll)
  /\ DeferredFairness

\* Every variable of the ten components holds a value of its type.
DriversTypeOK ==
  /\ DaemonTypeOK /\ EvTypeOK /\ UdpTypeOK /\ TraceTypeOK
  /\ BtnTypeOK /\ FilTypeOK /\ LifeTypeOK /\ DeferredTypeOK
  /\ EqTypeOK /\ UsbTypeOK

\* What the user-space programs promise, each with the exceptions the code
\* leaves: one reader of the GPS line and a true ant.status, events printed in
\* order and grabs held or refused aloud, datagrams inside their buffer and
\* from no other group, a trace indented by the calls in progress, a query answered
\* about what was typed, and the ports of the right USB devices.
ToolsExplained ==
  /\ OneReader /\ AntTruthful
  /\ PrintedExplained /\ GrabbedOrTold
  /\ TerminatorInside /\ OthersTrafficExplained
  /\ DepthCounts /\ GuardReopens
  /\ program = "query" => LookupsInside /\ QueryExplained /\ ChoiceExplained
  /\ FoundExplained /\ PathsInside

\* What the kernel modules leave behind, use too early or too late, report of
\* their buttons and show of what was written to them, each with the exceptions
\* the code leaves.
DriversExplained ==
  /\ LeaksExplained /\ FaultsExplained
  /\ CodeOutlivesCallback /\ FreedDataExplained /\ NoWakeLost
  /\ LedExplained /\ KeyIsLevel
  /\ ShowsWhatWasStored /\ BufferShownExplained /\ EndlessLine

\* What asks a program for something that must come in the end: a signal to the
\* daemon, to a copy of evtest and to the broadcast receiver, a polled button
\* that is read, and an init function asleep.
Requested(p) ==
  \/ program = "daemon" /\ gl_exit
  \/ program = "evtest" /\ stop[p]
  \/ program = "udp" /\ ~running
  \/ program = "button" /\ kind = "polled" /\ opened
  \/ program = "deferred" /\ exercise = "waitqueue" /\ mod \in {"waiting", "asleep"}

\* The daemon ends, as long as the GPS receiver keeps sending; the copy of evtest
\* ends, unless the signal came after its test of stop and before select: it then
\* waits for the next event; the broadcast receiver ends whenever the signal
\* comes, also between its look at the flag and recvfrom, because recvfrom times
\* out; the button that rests while it is open is reported; and the work that
\* was scheduled wakes the init function, with or without a signal.
Answered(p) ==
  \/ program = "daemon" /\ stage = "end"
  \/ program = "evtest" /\ (where[p] = "end" \/ late[p])
  \/ program = "udp" /\ rx = "exited"
  \/ program = "button" /\ (key = level \/ ~opened)
  \/ program = "deferred" /\ mod = "live"

\* Signals end the programs, a button that rests is reported, and the work a
\* module scheduled wakes its init function, but for what Answered names.  (One
\* formula for all: a behaviour is of one program.)
DriversLive == \A p \in Proc : Requested(p) ~> Answered(p)

=============================================================================
