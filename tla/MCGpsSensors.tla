---------------------------- MODULE MCGpsSensors ----------------------------
(***************************************************************************)
(* Readers of devices, each on its own: the GPS daemon's polls (UbxPoll)   *)
(* and log (GnssLog), the drivers that hand a sensor's samples to read()   *)
(* (CharSensor), the one that is an IIO device (IioSensor) and the clock   *)
(* (RtcClock).  A behaviour is of one of them; the others stay in one      *)
(* first state.                                                            *)
(***************************************************************************)
EXTENDS UbxPoll, GnssLog, CharSensor, IioSensor, RtcClock, TLC

VARIABLE part   \* the component this behaviour is of

\* Three polls of one class and id, the one the debug commands have too.
PollKeys == <<1537, 1537, 1537>>

\* Accesses that meet: a bias whose top bit is set, written and read back on
\* two axes, a scale in the table, and raw reads while capture is switched.
FewAccesses ==
  {a \in Access :
     \/ a.op \in {"raw", "enable", "disable"}
     \/ a.type = "gyro" /\ <<a.op, a.value>> \in {<<"read scale", 0>>, <<"write scale", 2>>}
     \/ a.type = "accel" /\ a.op \in {"read bias", "write bias"}}

MCInit ==
  /\ part \in {"poll", "log", "sensor", "iio", "rtc"}
  /\ LogInit /\ IioInit /\ RtcInit
  /\ UbxInit /\ (part # "poll" => pending = <<>>)
  /\ SensorInit /\ (part # "sensor" => kind = "spi")

MCNext ==
  /\ \/ part = "poll" /\ UbxNext /\ UNCHANGED <<logVars, sensorVars, iioVars, rtcVars>>
     \/ part = "log" /\ LogNext /\ UNCHANGED <<ubxVars, sensorVars, iioVars, rtcVars>>
     \/ part = "sensor" /\ SensorNext /\ UNCHANGED <<ubxVars, logVars, iioVars, rtcVars>>
     \/ part = "iio" /\ IioNext /\ UNCHANGED <<ubxVars, logVars, sensorVars, rtcVars>>
     \/ part = "rtc" /\ RtcNext /\ UNCHANGED <<ubxVars, logVars, sensorVars, iioVars>>
  /\ UNCHANGED part

MCSpec == MCInit /\ [][MCNext]_<<ubxVars, logVars, sensorVars, iioVars, rtcVars, part>>

\* Processes are interchangeable.
Symmetry == Permutations(Caller) \cup Permutations(User)

\* Every variable of the five components holds a value of its type.
ReadersTypeOK == UbxTypeOK /\ LogTypeOK /\ SensorTypeOK /\ IioTypeOK /\ RtcTypeOK

\* What a process is told by the sensors' character devices and by the clock is
\* one sample, or the time, but for what each part names.
AnswersExplained == ReadingsExplained /\ ClockExplained

=============================================================================
