------------------------------ MODULE GnssDaemon ------------------------------
(***************************************************************************)
(* The GPS daemon as a whole (main of script/gps/main.c): set-up, the dump *)
(* of the receiver's configuration (UbxPoll has its details), then a       *)
(* thread that logs what the receiver sends (GnssLog) and, if asked for,   *)
(* one that records the state of the antenna, until a signal sets gl_exit. *)
(* The handlers are installed with signal(), which restarts read(): a      *)
(* thread blocked in it sees gl_exit only after the receiver has sent      *)
(* something.                                                              *)
(***************************************************************************)
EXTENDS Integers

CONSTANTS
  BAUD,        \* the speeds serial_get_baudrate knows
  Asked,       \* speeds the -b option may ask for
  POLLS,       \* polls of the table
  TRIES,       \* times a poll is sent at most         (MAX_RETRY + 1)
  ANT_LIMIT    \* lines ant.status may get before its recording ends

ASSUME DaemonAssumption ==
  /\ BAUD \subseteq Nat /\ Asked \subseteq Nat
  /\ POLLS \in Nat \ {0} /\ TRIES \in Nat \ {0} /\ ANT_LIMIT \in Nat

VARIABLES
  stage,        \* main: "start", "serial", "dump", "record", "join", "end", "failed"
  polls,        \* dump_ubx_cfg: polls done
  tries,        \* dump_ubx_cfg: tries of the next one
  gl_exit,      \* set by the signal handler
  serial,       \* gl_serial_fd: "none", "open", "closed"
  speed,        \* the speed of the line
  logger,       \* gnss_log_record: "none", "read", "test", "done"
  recorder,     \* ant_status_record: "none", "loop", "done"
  last_status,  \* its static last_status
  pins,         \* history: the pins as it read them last
  label,        \* the last line of ant.status
  lines         \* lines of ant.status

threadVars == <<logger, recorder, last_status, pins, label, lines>>
daemonVars == <<stage, polls, tries, gl_exit, serial, speed, threadVars>>

DaemonInit ==
  /\ stage = "start" /\ polls = 0 /\ tries = 0 /\ gl_exit = FALSE
  /\ serial = "none" /\ speed = 0
  /\ logger = "none" /\ recorder = "none"
  /\ last_status = -1 /\ pins = <<0, 0>> /\ label = "none" /\ lines = 0

-----------------------------------------------------------------------------
(* main *)

\* tz_update compares /etc/TZ with getenv("TZ"), which is NULL where TZ is not
\* set: the daemon dies.  Then the log directory has to exist.
TzUpdate ==
  /\ stage = "start"
  /\ stage' \in {"serial", "failed"}
  /\ UNCHANGED <<polls, tries, gl_exit, serial, speed, threadVars>>

\* A speed that is not in the list is 19200.
serial_get_baudrate(b) == IF b \in BAUD THEN b ELSE 19200

\* Any of the calls on the device may fail; main returns, the descriptor that
\* was opened with it.
IhSerialInit ==
  /\ stage = "serial"
  /\ \/ /\ stage' = "failed"
        /\ UNCHANGED <<serial, speed>>
     \/ /\ stage' = "dump"
        /\ serial' = "open"
        /\ \E b \in Asked : speed' = serial_get_baudrate(b)
  /\ UNCHANGED <<polls, tries, gl_exit, threadVars>>

\* Mutant: a poll is tried once too often.
DumpUbxCfgLong ==
  /\ stage = "dump" /\ polls < POLLS
  /\ polls > 0 /\ tries = 0 => ~gl_exit
  /\ \/ polls' = polls + 1 /\ tries' = 0
     \/ tries < TRIES /\ tries' = tries + 1 /\ UNCHANGED polls
  /\ UNCHANGED <<stage, gl_exit, serial, speed, threadVars>>

\* poll_ubx_data returns: the poll is settled, or tried again.
DumpUbxCfg ==
  /\ stage = "dump" /\ polls < POLLS
  /\ polls > 0 /\ tries = 0 => ~gl_exit
  /\ \/ polls' = polls + 1 /\ tries' = 0
     \/ tries + 1 < TRIES /\ tries' = tries + 1 /\ UNCHANGED polls
  /\ UNCHANGED <<stage, gl_exit, serial, speed, threadVars>>

\* The dump is over, or was never begun for ubx.cfg cannot be opened.
DumpOver ==
  \/ polls = POLLS
  \/ polls > 0 /\ tries = 0 /\ gl_exit
  \/ polls = 0 /\ tries = 0

\* Either thread may fail to start, and gnss_log_record ends at once when it
\* cannot open its file.
StartThreads ==
  /\ stage = "dump" /\ DumpOver
  /\ stage' = "record"
  /\ logger' \in {"read", "done"}
  /\ recorder' \in {"loop", "done"}
  /\ UNCHANGED <<polls, tries, gl_exit, serial, speed, last_status, pins, label, lines>>

\* Both threads have been joined.
Joined == stage = "record" /\ logger = "done" /\ recorder = "done"

IhSerialDeinit ==
  /\ Joined
  /\ stage' = "end"
  /\ serial' = "closed"
  /\ UNCHANGED <<polls, tries, gl_exit, speed, threadVars>>

\* SIGTERM or SIGINT, once the handlers are installed.
SigHandler ==
  /\ stage \in {"dump", "record"}
  /\ gl_exit' = TRUE
  /\ UNCHANGED <<stage, polls, tries, serial, speed, threadVars>>

-----------------------------------------------------------------------------
(* gnss_log_record *)

\* read() returns what the receiver sent, or an error.
LoggerRead ==
  /\ logger = "read"
  /\ logger' = "test"
  /\ UNCHANGED <<stage, polls, tries, gl_exit, serial, speed,
                 recorder, last_status, pins, label, lines>>

\* while(!gl_exit); the loop also ends when no new file can be opened.
LoggerTest ==
  /\ logger = "test"
  /\ logger' \in (IF gl_exit THEN {"done"} ELSE {"read", "done"})
  /\ UNCHANGED <<stage, polls, tries, gl_exit, serial, speed,
                 recorder, last_status, pins, label, lines>>

-----------------------------------------------------------------------------
(* ant_status_record *)

\* The status of the pins; read_gpio_value returns -1 when it fails.
Status(d, s) == d * 2 + s

Label(status) ==
  CASE status = 0 -> "open"
    [] status = 2 -> "normal"
    [] status = 3 -> "short"
    [] OTHER      -> "invalid"

\* One second: the pins are read and a change is recorded; past the limit of the
\* file the thread ends.
AntStatusRecord ==
  /\ recorder = "loop" /\ ~gl_exit
  /\ \E d, s \in {-1, 0, 1} :
       /\ pins' = <<d, s>>
       /\ \/ /\ Status(d, s) = last_status
             /\ UNCHANGED <<recorder, last_status, label, lines>>
          \/ /\ Status(d, s) # last_status
             /\ last_status' = Status(d, s)
             /\ label' = Label(Status(d, s))
             /\ lines' = lines + 1
             /\ recorder' = IF lines + 1 > ANT_LIMIT THEN "done" ELSE "loop"
  /\ UNCHANGED <<stage, polls, tries, gl_exit, serial, speed, logger>>

RecorderEnds ==
  /\ recorder = "loop" /\ gl_exit
  /\ recorder' = "done"
  /\ UNCHANGED <<stage, polls, tries, gl_exit, serial, speed,
                 logger, last_status, pins, label, lines>>

DaemonStep == TzUpdate \/ IhSerialInit \/ DumpUbxCfg \/ StartThreads \/ IhSerialDeinit
DaemonNext ==
  \/ DaemonStep \/ SigHandler
  \/ LoggerRead \/ LoggerTest
  \/ AntStatusRecord \/ RecorderEnds

\* The three threads run on.  LoggerRead is fair because the receiver keeps
\* sending: ubx_debug_message has switched its periodic messages on.
DaemonFairness ==
  /\ WF_daemonVars(DaemonStep)
  /\ WF_daemonVars(LoggerRead) /\ WF_daemonVars(LoggerTest)
  /\ WF_daemonVars(RecorderEnds)

DaemonSpec == DaemonInit /\ [][DaemonNext]_daemonVars /\ DaemonFairness

-----------------------------------------------------------------------------
(* Properties *)

DaemonTypeOK ==
  /\ stage \in {"start", "serial", "dump", "record", "end", "failed"}
  /\ polls \in 0 .. POLLS /\ tries \in 0 .. TRIES - 1
  /\ gl_exit \in BOOLEAN
  /\ serial \in {"none", "open", "closed"} /\ speed \in {0, 19200} \cup BAUD
  /\ logger \in {"none", "read", "test", "done"}
  /\ recorder \in {"none", "loop", "done"}
  /\ last_status \in -3 .. 3 /\ pins \in {-1, 0, 1} \X {-1, 0, 1}
  /\ label \in {"none", "open", "normal", "short", "invalid"}
  /\ lines \in 0 .. ANT_LIMIT + 1

\* The serial line has one reader at a time and is open while it has: the
\* thread never reads while a poll waits for its answer, nor after the close.
OneReader ==
  logger \in {"read", "test"} =>
    serial = "open" /\ (polls = POLLS \/ gl_exit \/ polls + tries = 0)

\* The last line of ant.status tells the state of the pins read last, failed
\* reads included, but for a first status of -1 (detect 0 and short unreadable,
\* or detect unreadable and short 1), which passes for "unchanged".
Truth(d, s) ==
  CASE <<d, s>> = <<0, 0>> -> "open"
    [] <<d, s>> = <<1, 0>> -> "normal"
    [] <<d, s>> = <<1, 1>> -> "short"
    [] OTHER               -> "invalid"
AntTruthful ==
  lines > 0 => label = Truth(pins[1], pins[2])
=============================================================================
