------------------------------ MODULE IioSensor ------------------------------
(***************************************************************************)
(* The ICM-20608 under the industrial I/O framework: raw values, scales    *)
(* and calibration biases through read_raw and write_raw, and buffered     *)
(* capture through the trigger handler.  Two mutexes are involved: the     *)
(* driver's own, and the framework's mlock that keeps the device in direct *)
(* mode.  icm20608 never looks at the result of claiming direct mode.      *)
(***************************************************************************)
EXTENDS Integers, FiniteSets

CONSTANTS
  User,          \* processes that use the sysfs files of the device
  Axis,          \* axes: 0, 1 and 2 are X, Y and Z
  Bias,          \* calibration biases that are written
  Work,          \* bound: the accesses they make, some of Access
  MaxJobs,       \* bound: sysfs accesses
  MaxIrqs        \* bound: data-ready interrupts

Type == {"gyro", "accel"}
Free == "free"

ASSUME IioAssumption ==
  /\ Free \notin User
  /\ Axis \subseteq 0..2 /\ 0 \in Axis /\ Bias \subseteq Int
  /\ MaxJobs \in Nat /\ MaxIrqs \in Nat

NoAnswer == [nothing |-> TRUE]
Error == [error |-> TRUE]
Ok == [ok |-> TRUE]

VARIABLES
  config,    \* the GYRO_CONFIG and ACCEL_CONFIG registers
  offset,    \* the offset registers: address -> byte
  buffer,    \* buffered capture is enabled (as the framework sees it)
  intEnable, \* INT_ENABLE holds the data-ready bit
  lock,      \* holder of the driver's mutex
  mlock,     \* holder of the framework's mutex
  job,       \* per user: the access in progress
  session,   \* the trigger handler: "idle", "polled" or "reading"
  jobs, irqs,\* accesses and interrupts so far
  acked,     \* the last value whose write was reported as done
  stray      \* an mlock held by another was released
iioVars == <<config, offset, buffer, intEnable, lock, mlock, job, session, jobs,
             irqs, acked, stray>>

(***************************************************************************)
(* Registers and conversions.                                              *)
(***************************************************************************)
\* The driver steps two bytes from axis to axis, from the X register on.
First(t) == IF t = "gyro" THEN 19 ELSE 119
Address(t, axis) == First(t) + axis * 2
Offsets ==
  {a \in 0..255 : \E t \in Type, x \in Axis : a \in {Address(t, x), Address(t, x) + 1}}
High(v) == (v % 65536) \div 256
Low(v) == v % 256
Short(hi, lo) == LET w == hi * 256 + lo IN IF w >= 32768 THEN w - 65536 ELSE w

\* The scale index is written to bits 3 and 4 of the configuration register.
ScaleWritten(i) == i * 8
ScaleRead(reg) == (reg \div 8) % 4

(***************************************************************************)
(* The sysfs accesses.  A written scale stands as its index in the table   *)
(* of four; 9 is a number that is not in the table.                        *)
(***************************************************************************)
Plain == [op |-> "raw", type |-> "gyro", axis |-> 0, value |-> 0]
Access ==
  [op : {"raw", "enable", "disable"}, type : {"gyro"}, axis : {0}, value : {0}]
  \cup [op : {"read scale"}, type : Type, axis : {0}, value : {0}]
  \cup [op : {"write scale"}, type : Type, axis : {0}, value : {0, 2, 9}]
  \cup [op : {"read bias"}, type : Type, axis : Axis, value : {0}]
  \cup [op : {"write bias"}, type : Type, axis : Axis, value : Bias]
ASSUME WorkAssumption == Work \subseteq Access
Switches(a) == a.op \in {"enable", "disable"}
Claims(a) == a.op \in {"raw", "write scale", "write bias"}

NoJob == [access |-> Plain, pc |-> "idle", claimed |-> FALSE, answer |-> NoAnswer,
         seen |-> {}]
ScaleKey == -1
Setting(a) == IF a.op \in {"read scale", "write scale"} THEN <<a.type, ScaleKey>>
          ELSE <<a.type, a.axis>>

\* icm20608_reginit: both scales at the largest range, data-ready interrupt on.
IioInit ==
  /\ config = [t \in Type |-> 24] /\ offset = [a \in Offsets |-> 0]
  /\ buffer = FALSE /\ intEnable = TRUE
  /\ lock = Free /\ mlock = Free
  /\ job = [u \in User |-> NoJob] /\ session = "idle" /\ jobs = 0 /\ irqs = 0
  /\ acked = [k \in Type \X ({ScaleKey} \cup Axis) |->
                IF k[2] = ScaleKey THEN 3 ELSE 0]
  /\ stray = FALSE

Start(u) ==
  /\ job[u].pc = "idle" /\ jobs < MaxJobs /\ jobs' = jobs + 1
  /\ \E a \in Work :
       /\ a.op = "enable" => ~buffer
       /\ a.op = "disable" => buffer
       /\ \A w \in User \ {u} : Switches(a) => ~Switches(job[w].access)
       /\ job' = [job EXCEPT ![u] =
            [NoJob EXCEPT !.access = a, !.seen = {acked[Setting(a)]},
                         !.pc = IF Claims(a) \/ Switches(a) THEN "claim"
                                ELSE "lock"]]
  /\ UNCHANGED <<config, offset, buffer, intEnable, lock, mlock, session, irqs,
                 acked, stray>>

\* Mutant: the claim never looks at the buffer.
GrantsAlways(u) == job[u].pc = "claim"
\* iio_device_claim_direct_mode waits for mlock and keeps it only when the
\* buffer is off; the callers go on either way.
Grants(u) == ~buffer \/ Switches(job[u].access)
Claim(u) ==
  /\ job[u].pc = "claim" /\ mlock = Free
  /\ mlock' = IF Grants(u) THEN u ELSE Free
  /\ job' = [job EXCEPT ![u].pc = "lock", ![u].claimed = Grants(u)]
  /\ UNCHANGED <<config, offset, buffer, intEnable, lock, session, jobs, irqs,
                 acked, stray>>

Lock(u) ==
  /\ job[u].pc = "lock" /\ lock = Free /\ lock' = u
  /\ job' = [job EXCEPT ![u].pc = "bus"]
  /\ UNCHANGED <<config, offset, buffer, intEnable, mlock, session, jobs, irqs,
                 acked, stray>>

\* The bus access under the driver's mutex, which is released with it.
Unlocked(u, answer) ==
  [job[u] EXCEPT !.answer = answer,
                 !.pc = IF Claims(job[u].access) \/ Switches(job[u].access)
                        THEN "release" ELSE "done"]
Unlocks(u, answer) == lock' = Free /\ job' = [job EXCEPT ![u] = Unlocked(u, answer)]
\* A write that is done; the accesses in progress to the same value may see it.
Acknowledges(u) ==
  LET a == job[u].access IN
  /\ acked' = [acked EXCEPT ![Setting(a)] = a.value]
  /\ lock' = Free
  /\ job' = [w \in User |->
       IF w = u THEN Unlocked(u, Ok)
       ELSE IF Setting(job[w].access) = Setting(a)
         THEN [job[w] EXCEPT !.seen = @ \cup {a.value}] ELSE job[w]]
OnBus(u, op) == job[u].pc = "bus" /\ job[u].access.op = op

\* icm20608_read_channel_data: the value or an error; the bytes are one transfer.
ReadRaw(u) ==
  /\ OnBus(u, "raw")
  /\ \E answer \in {Ok, Error} : Unlocks(u, answer)
  /\ UNCHANGED <<config, offset, buffer, intEnable, mlock, session, jobs, irqs,
                 acked, stray>>

\* A failed register read leaves the value uninitialised, its two scale bits
\* may be anything, and no error is reported.
ReadScale(u) ==
  /\ OnBus(u, "read scale")
  /\ \E i \in 0..3, failed \in BOOLEAN :
       /\ ~failed => i = ScaleRead(config[job[u].access.type])
       /\ Unlocks(u, [scale |-> i, failed |-> failed])
  /\ UNCHANGED <<config, offset, buffer, intEnable, mlock, session, jobs, irqs,
                 acked, stray>>

\* icm20608_write_gyro_scale and icm20608_write_accel_scale
WriteScale(u) ==
  LET a == job[u].access IN
  /\ OnBus(u, "write scale")
  /\ \/ /\ a.value \in 0..3
        /\ config' = [config EXCEPT ![a.type] = ScaleWritten(a.value)]
        /\ Acknowledges(u)
     \/ Unlocks(u, Error) /\ UNCHANGED <<config, acked>>
  /\ UNCHANGED <<offset, buffer, intEnable, mlock, session, jobs, irqs, stray>>

\* icm20608_sensor_show of an offset register pair, most significant byte first
ReadBias(u) ==
  LET a == job[u].access
      at == Address(a.type, a.axis)
  IN
  /\ OnBus(u, "read bias")
  /\ \/ Unlocks(u, [bias |-> Short(offset[at], offset[at + 1])])
     \/ Unlocks(u, Error)
  /\ UNCHANGED <<config, offset, buffer, intEnable, mlock, session, jobs, irqs,
                 acked, stray>>

\* icm20608_sensor_set
WriteBias(u) ==
  LET a == job[u].access
      at == Address(a.type, a.axis)
  IN
  /\ OnBus(u, "write bias")
  /\ \/ /\ offset' = [offset EXCEPT ![at] = High(a.value), ![at + 1] = Low(a.value)]
        /\ Acknowledges(u)
     \/ Unlocks(u, Error) /\ UNCHANGED <<offset, acked>>
  /\ UNCHANGED <<config, buffer, intEnable, mlock, session, jobs, irqs, stray>>

\* icm20608_trigger_set_state, called by the framework under mlock; when the
\* write fails the buffer keeps its state.
SetState(u) ==
  LET a == job[u].access IN
  /\ job[u].pc = "bus" /\ Switches(a)
  /\ \/ /\ intEnable' = (a.op = "enable") /\ buffer' = intEnable'
        /\ Unlocks(u, Ok)
     \/ Unlocks(u, Error) /\ UNCHANGED <<intEnable, buffer>>
  /\ UNCHANGED <<config, offset, mlock, session, jobs, irqs, acked, stray>>

\* iio_device_release_direct_mode unlocks mlock, whoever holds it.
ReleaseMode(u) ==
  /\ job[u].pc = "release"
  /\ mlock' = Free /\ stray' = (stray \/ mlock \notin {u, Free})
  /\ job' = [job EXCEPT ![u].pc = "done"]
  /\ UNCHANGED <<config, offset, buffer, intEnable, lock, session, jobs, irqs,
                 acked>>
Done(u) ==
  /\ job[u].pc = "done" /\ job' = [job EXCEPT ![u] = NoJob]
  /\ UNCHANGED <<config, offset, buffer, intEnable, lock, mlock, session, jobs,
                 irqs, acked, stray>>

(***************************************************************************)
(* Buffered capture.                                                       *)
(***************************************************************************)
\* The interrupt polls the trigger: the handler of an enabled buffer starts,
\* unless it still owes iio_trigger_notify_done.
DataReady ==
  /\ intEnable /\ buffer /\ session = "idle" /\ irqs < MaxIrqs
  /\ irqs' = irqs + 1 /\ session' = "polled"
  /\ UNCHANGED <<config, offset, buffer, intEnable, lock, mlock, job, jobs,
                 acked, stray>>
BeginSession ==
  /\ session = "polled" /\ lock = Free /\ lock' = "handler"
  /\ session' = "reading"
  /\ UNCHANGED <<config, offset, buffer, intEnable, mlock, job, jobs, irqs,
                 acked, stray>>
\* Spurious, failed or pushed: every path ends at end_session.
EndSession ==
  /\ session = "reading" /\ lock' = Free /\ session' = "idle"
  /\ UNCHANGED <<config, offset, buffer, intEnable, mlock, job, jobs, irqs,
                 acked, stray>>

IioNext ==
  \/ DataReady \/ BeginSession \/ EndSession
  \/ \E u \in User : \/ Start(u) \/ Claim(u) \/ Lock(u) \/ ReleaseMode(u)
                     \/ Done(u) \/ ReadRaw(u) \/ ReadScale(u) \/ WriteScale(u)
                     \/ ReadBias(u) \/ WriteBias(u) \/ SetState(u)

IioSpec == IioInit /\ [][IioNext]_iioVars
-----------------------------------------------------------------------------
IioTypeOK ==
  /\ config \in [Type -> 0..255] /\ offset \in [Offsets -> 0..255]
  /\ buffer \in BOOLEAN /\ intEnable \in BOOLEAN /\ stray \in BOOLEAN
  /\ lock \in User \cup {Free, "handler"} /\ mlock \in User \cup {Free}
  /\ \A u \in User :
       /\ job[u].pc \in {"idle", "claim", "lock", "bus", "release", "done"}
       /\ job[u].access \in Access
  /\ session \in {"idle", "polled", "reading"}
  /\ jobs \in 0..MaxJobs /\ irqs \in 0..MaxIrqs

Inside(u) == job[u].pc \in {"lock", "bus", "release"}
(***************************************************************************)
(* An access that was granted direct mode keeps it until it releases it:   *)
(* capture is not switched on under it.  The one way out is an access that *)
(* was refused, went on, and released a mutex it never had.                *)
(***************************************************************************)
DirectModeKept ==
  \A u \in User :
    Inside(u) /\ job[u].claimed /\ ~Switches(job[u].access)
      => ~buffer \/ stray

(***************************************************************************)
(* A bias that is read is, as a signed 16-bit number, the last one whose   *)
(* write was done before the access or one whose write was done during it: *)
(* the register pairs the driver addresses for the axes do not overlap.    *)
(***************************************************************************)
BiasReadBack ==
  \A u \in User :
    job[u].access.op = "read bias" /\ job[u].answer \notin {NoAnswer, Error}
      => \E v \in job[u].seen : job[u].answer = [bias |-> Short(High(v), Low(v))]

(***************************************************************************)
(* A scale that is read is the last one written before or during the       *)
(* access, unless the register could not be read: the answer is then any   *)
(* of the four, and is not reported as an error.                           *)
(***************************************************************************)
ScaleReadBack ==
  \A u \in User :
    job[u].access.op = "read scale" /\ job[u].answer # NoAnswer
      => job[u].answer.failed \/ job[u].answer.scale \in job[u].seen

\* What the accesses to the IIO device may rely on, whoever else uses it.
SettingsKept == DirectModeKept /\ BiasReadBack /\ ScaleReadBack

=============================================================================
