----------------------------- MODULE CharSensor -----------------------------
(***************************************************************************)
(* The three sensor drivers that offer a character device and sysfs        *)
(* attributes over the same unprotected fields: the ICM-20608 over SPI,    *)
(* the ICM-20608 over a regmap, the AP3216C over I2C.  Every show() and    *)
(* every read() fetches from the sensor, stores all fields of the device   *)
(* structure and then copies from them, without a lock.  The sensor itself *)
(* takes a new sample whenever it likes.  A value is a pair: the samples   *)
(* its low and its high byte come from.  The ICM-20608 is read in one bus  *)
(* transfer, the AP3216C register by register.                             *)
(***************************************************************************)
EXTENDS Integers, Sequences, FiniteSets

CONSTANTS
  Caller,        \* processes that read the sensor
  MaxSample,     \* bound: samples the sensor takes
  MaxCalls,      \* bound: calls made in all
  MaxFailures    \* bound: bus transfers that fail

ASSUME SensorAssumption == MaxSample \in Nat /\ MaxCalls \in Nat /\ MaxFailures \in Nat

NoSample == -1             \* a byte never received: the zero of the buffer
NoValue == <<NoSample, NoSample>>

VARIABLES
  kind,      \* "spi", "regmap" or "ap3216c"
  sample,    \* the sample in the sensor's registers
  field,     \* the device structure: channel -> value
  call,      \* per caller: the call in progress
  calls,     \* calls made
  failures   \* bus transfers that failed
sensorVars == <<kind, sample, field, call, calls, failures>>

\* The channels, in the order they are stored and in the order read() copies
\* them; the seven of the ICM-20608 stand as one of each chip.
Stores == IF kind = "ap3216c" THEN <<"ir", "als">> ELSE <<"accel", "gyro">>
Copies == IF kind = "ap3216c" THEN <<"ir", "als">> ELSE <<"gyro", "accel">>
Channel == {Stores[i] : i \in 1..2}
AnyChannel == {"ir", "als", "accel", "gyro"}

\* op: "none", "read" or the channel of a show().  got: what was fetched.
\* at: the next register, store or copy.  since, failed and shared are kept
\* for the properties: the sample at the call, whether a transfer of this call
\* failed, whether another call was in progress during it.
NoCall == [op |-> "none", pc |-> "idle", at |-> 1, got |-> <<NoValue, NoValue>>,
         out |-> <<>>, answer |-> "none", since |-> 0, failed |-> FALSE,
         shared |-> FALSE]

SensorInit ==
  /\ kind \in {"spi", "regmap", "ap3216c"} /\ sample = 0
  /\ calls = 0 /\ failures = 0
  /\ field = [c \in AnyChannel |-> <<0, 0>>]
  /\ call = [p \in Caller |-> NoCall]

Busy(p) == call[p].pc # "idle"
Going(p, pc) == call[p].pc = pc

\* A process reads the character device or one attribute.
Begin(p) ==
  /\ ~Busy(p) /\ calls < MaxCalls /\ calls' = calls + 1
  /\ \E op \in {"read"} \cup Channel:
       call' = [q \in Caller |->
         IF q = p THEN [NoCall EXCEPT !.op = op, !.pc = "fetch", !.since = sample,
                                    !.shared = \E r \in Caller : Busy(r)]
         ELSE IF Busy(q) THEN [call[q] EXCEPT !.shared = TRUE]
         ELSE call[q]]
  /\ UNCHANGED <<kind, sample, field, failures>>

\* The sensor takes its next sample.
Sample ==
  /\ sample < MaxSample /\ sample' = sample + 1
  /\ UNCHANGED <<kind, field, call, calls, failures>>

\* What a call does after the fetch went wrong: show() ignores the result and
\* prints the fields as they are, read() returns the error.
AfterFailure(c) ==
  IF c.op = "read" THEN [c EXCEPT !.pc = "answer", !.failed = TRUE,
                                  !.answer = "error"]
  ELSE [c EXCEPT !.pc = "copy", !.failed = TRUE]

\* One transfer brings all channels of one sample, or nothing.
\* Mutant: each channel fetched for itself.
WholeSplit(c) == [c EXCEPT !.got[c.at] = <<sample, sample>>,
                           !.at = IF @ = 2 THEN 1 ELSE 2,
                           !.pc = IF c.at = 2 THEN "store" ELSE "fetch"]
Whole(c) == [c EXCEPT !.got = <<<<sample, sample>>, <<sample, sample>>>>,
                      !.pc = "store"]
BulkFetch(p) ==
  /\ Going(p, "fetch")
  /\ \/ call' = [call EXCEPT ![p] = Whole(@)] /\ UNCHANGED failures
     \/ /\ failures < MaxFailures /\ failures' = failures + 1
        /\ call' = [call EXCEPT ![p] = AfterFailure(@)]
  /\ UNCHANGED <<kind, sample, field, calls>>
SpiFetch(p)    == kind = "spi" /\ BulkFetch(p)
RegmapFetch(p) == kind = "regmap" /\ BulkFetch(p)

\* One register after the other, low then high of each channel; a failed
\* transfer is not noticed and leaves the byte zero.
ApFetch(p) ==
  /\ kind = "ap3216c" /\ Going(p, "fetch")
  /\ \E byte \in {sample, NoSample}:
       /\ byte = NoSample => failures < MaxFailures
       /\ failures' = failures + (IF byte = NoSample THEN 1 ELSE 0)
       /\ LET c == call[p]
              chan == (c.at + 1) \div 2
              half == 2 - (c.at % 2)             \* 1 is the low byte
          IN call' = [call EXCEPT ![p] =
             [c EXCEPT !.got[chan][half] = byte,
                       !.failed = @ \/ byte = NoSample,
                       !.at = IF c.at = 4 THEN 1 ELSE @ + 1,
                       !.pc = IF c.at = 4 THEN "store" ELSE "fetch"]]
  /\ UNCHANGED <<kind, sample, field, calls>>

\* The next field is stored.
Store(p) ==
  /\ Going(p, "store")
  /\ LET c == call[p] IN
       /\ field' = [field EXCEPT ![Stores[c.at]] = c.got[c.at]]
       /\ call' = [call EXCEPT ![p] =
            [c EXCEPT !.at = IF @ = 2 THEN 1 ELSE 2,
                      !.got[c.at] = NoValue,
                      !.pc = IF c.at = 2 THEN "copy" ELSE "store"]]
  /\ UNCHANGED <<kind, sample, calls, failures>>

\* show() prints its field; read() copies the fields one after the other.
Answered(c, values) == [c EXCEPT !.out = values, !.pc = "answer", !.answer = "data"]
Show(p) ==
  /\ Going(p, "copy") /\ call[p].op # "read"
  /\ call' = [call EXCEPT ![p] = Answered(@, <<field[@.op]>>)]
  /\ UNCHANGED <<kind, sample, field, calls, failures>>
SpiShow(p)    == kind = "spi" /\ Show(p)
RegmapShow(p) == kind = "regmap" /\ Show(p)
ApShow(p)     == kind = "ap3216c" /\ Show(p)

CopyNext(p) ==
  /\ Going(p, "copy") /\ call[p].op = "read"
  /\ LET c == call[p]
         values == Append(c.out, field[Copies[c.at]])
     IN  call' = [call EXCEPT ![p] =
           IF c.at = 2 THEN Answered(c, values)
           ELSE [c EXCEPT !.out = values, !.at = 2]]
  /\ UNCHANGED <<kind, sample, field, calls, failures>>
SpiRead(p)    == kind = "spi" /\ CopyNext(p)
RegmapRead(p) == kind = "regmap" /\ CopyNext(p)
ApRead(p)     == kind = "ap3216c" /\ CopyNext(p)

\* The answer reaches the process.
Returns(p) ==
  /\ Going(p, "answer")
  /\ call' = [call EXCEPT ![p] = NoCall]
  /\ UNCHANGED <<kind, sample, field, calls, failures>>

SensorNext ==
  \/ Sample
  \/ \E p \in Caller: Begin(p) \/ SpiFetch(p) \/ RegmapFetch(p) \/ ApFetch(p)
                        \/ Store(p) \/ SpiShow(p) \/ RegmapShow(p) \/ ApShow(p)
                        \/ SpiRead(p) \/ RegmapRead(p) \/ ApRead(p) \/ Returns(p)
SensorSpec == SensorInit /\ [][SensorNext]_sensorVars
-----------------------------------------------------------------------------
SampleByte == NoSample..MaxSample
SensorTypeOK ==
  /\ kind \in {"spi", "regmap", "ap3216c"}
  /\ sample \in 0..MaxSample /\ calls \in 0..MaxCalls
  /\ failures \in 0..MaxFailures
  /\ field \in [AnyChannel -> [1..2 -> SampleByte]]
  /\ \A p \in Caller :
       /\ call[p].pc \in {"idle", "fetch", "store", "copy", "answer"}
       /\ call[p].op \in {"none", "read"} \cup Channel
       /\ call[p].got \in [1..2 -> [1..2 -> SampleByte]]
       /\ Len(call[p].out) <= 2 /\ call[p].since <= sample

HasData(p) == call[p].answer = "data"
Values(p) == {call[p].out[i] : i \in 1..Len(call[p].out)}

(***************************************************************************)
(* The values of one read() of an ICM-20608 belong to one sample unless    *)
(* another call was in progress: the fields are shared and unlocked, so    *)
(* two calls at once can mix two samples in one answer.                    *)
(***************************************************************************)
MixedOnlyWhenShared ==
  \A p \in Caller :
    kind # "ap3216c" /\ HasData(p) /\ ~call[p].shared
      => Cardinality(Values(p)) <= 1

(***************************************************************************)
(* A value's two bytes come from one sample for the ICM-20608, always; for *)
(* the AP3216C they may come from two samples, but only when the sensor    *)
(* sampled during a call or a transfer failed.                             *)
(***************************************************************************)
TornExplained ==
  \A p \in Caller : HasData(p) =>
    \A v \in Values(p) :
      v[1] # v[2] => /\ kind = "ap3216c"
                     /\ \/ call[p].failed \/ call[p].shared
                        \/ sample > call[p].since

(***************************************************************************)
(* An answer is at least as new as the call that asks for it, unless a     *)
(* transfer of the call failed - show() of the ICM-20608 then prints the   *)
(* old field, the AP3216C a zero byte, neither reports an error - or       *)
(* another call stored what it had fetched before.                         *)
(***************************************************************************)
StaleExplained ==
  \A p \in Caller : HasData(p) /\ ~call[p].failed /\ ~call[p].shared =>
    \A v \in Values(p) : v[1] >= call[p].since /\ v[2] >= call[p].since

\* What a reader of the three drivers may find in one answer.
ReadingsExplained == MixedOnlyWhenShared /\ TornExplained /\ StaleExplained

=============================================================================
