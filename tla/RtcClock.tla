------------------------------- MODULE RtcClock -------------------------------
(***************************************************************************)
(* The clock of the fake RTC driver (driver/rtc/fake/fake-rtc.c): the time *)
(* it was last given plus the uptime since, rounded to seconds.  Both live *)
(* in static variables, which outlast an unbinding, are reset in part by   *)
(* every probe, and are shared by all devices the driver is bound to: the  *)
(* one rtc-ins.c adds and one of the device tree.  The RTC core keeps the  *)
(* calls on one device apart, not those on two.                            *)
(***************************************************************************)
EXTENDS Integers

CONSTANTS
  Rtc,       \* the devices the driver may be bound to
  Times,     \* times a process sets, in seconds
  MaxUptime  \* bound: half seconds the clock runs

ASSUME RtcAssumption == Times \subseteq Nat /\ MaxUptime \in Nat

Unset == -1

VARIABLES
  uptime,      \* the boot time clock, in half seconds
  begin_time,  \* static: the uptime at the last setting or probe
  rtc_time,    \* static: the time last set, in seconds
  bound,       \* the devices the driver is bound to
  setting,     \* each device: the time being set, begin_time is already, or Unset
  now,         \* each device: the uptime a reading took, or Unset
  alone,       \* history: nothing touched the variables since that reading began
  meant,       \* history: the time it is by the last setting, in half seconds
  rebound,     \* history: a device was probed since that setting
  told         \* history: the last reading, and what was known of it

rtcVars == <<uptime, begin_time, rtc_time, bound, setting, now, alone, meant, rebound, told>>

\* Mutant: fractions of a second are dropped.
timespec_to_ulongTruncated(h) == h \div 2

\* Half a second and more counts as a whole one.
timespec_to_ulong(h) == (h + 1) \div 2

\* The variables of a module that was just loaded.
RtcInit ==
  /\ uptime = 0 /\ begin_time = 0 /\ rtc_time = 0
  /\ bound = {}
  /\ setting = [d \in Rtc |-> Unset] /\ now = [d \in Rtc |-> Unset]
  /\ alone = [d \in Rtc |-> FALSE]
  /\ meant = Unset /\ rebound = FALSE
  /\ told = [time |-> 0, meant |-> 0, sound |-> FALSE, rebound |-> FALSE]

Resting(d) == setting[d] = Unset /\ now[d] = Unset

\* begin_time is reset, the time that was set stays.
RtcProbe(d) ==
  /\ d \notin bound
  /\ bound' = bound \cup {d}
  /\ begin_time' = uptime
  /\ rebound' = TRUE
  /\ alone' = [e \in Rtc |-> FALSE]
  /\ UNCHANGED <<uptime, rtc_time, setting, now, meant, told>>

\* fake_rtc_remove leaves all as it is; the RTC core waits for a call to end.
RtcRemove(d) ==
  /\ d \in bound /\ Resting(d)
  /\ bound' = bound \ {d}
  /\ UNCHANGED <<uptime, begin_time, rtc_time, setting, now, alone, meant, rebound, told>>

\* No device is between the two halves of a setting.
Settled == \A d \in Rtc : setting[d] = Unset

\* fake_rtc_set_time: the uptime first, then the time.
SetBegin(d) ==
  /\ d \in bound /\ Resting(d)
  /\ \E t \in Times :
       /\ setting' = [setting EXCEPT ![d] = t]
       /\ meant' = IF Settled THEN 2 * t ELSE Unset
  /\ begin_time' = uptime
  /\ rebound' = FALSE
  /\ alone' = [e \in Rtc |-> FALSE]
  /\ UNCHANGED <<uptime, rtc_time, bound, now, told>>

SetTime(d) ==
  /\ setting[d] # Unset
  /\ rtc_time' = setting[d]
  /\ setting' = [setting EXCEPT ![d] = Unset]
  /\ UNCHANGED <<uptime, begin_time, bound, now, alone, meant, rebound, told>>

\* fake_rtc_read_time: the uptime first, then the static variables.
ReadNow(d) ==
  /\ d \in bound /\ Resting(d)
  /\ now' = [now EXCEPT ![d] = uptime]
  /\ alone' = [alone EXCEPT ![d] = Settled /\ meant # Unset]
  /\ UNCHANGED <<uptime, begin_time, rtc_time, bound, setting, meant, rebound, told>>

ReadTime(d) ==
  /\ now[d] # Unset
  /\ told' = [time    |-> rtc_time + timespec_to_ulong(now[d] - begin_time),
              meant   |-> meant - (uptime - now[d]),
              sound   |-> alone[d],
              rebound |-> rebound]
  /\ now' = [now EXCEPT ![d] = Unset]
  /\ UNCHANGED <<uptime, begin_time, rtc_time, bound, setting, alone, meant, rebound>>

\* External: time passes.
Uptime ==
  /\ uptime < MaxUptime
  /\ uptime' = uptime + 1
  /\ meant' = IF meant = Unset THEN Unset ELSE meant + 1
  /\ UNCHANGED <<begin_time, rtc_time, bound, setting, now, alone, rebound, told>>

RtcNext ==
  \/ \E d \in Rtc : RtcProbe(d) \/ RtcRemove(d) \/ SetBegin(d) \/ SetTime(d)
                      \/ ReadNow(d) \/ ReadTime(d)
  \/ Uptime

RtcSpec == RtcInit /\ [][RtcNext]_rtcVars
-----------------------------------------------------------------------------
(* Properties *)

RtcTypeOK ==
  /\ uptime \in 0 .. MaxUptime /\ begin_time \in 0 .. uptime
  /\ rtc_time \in Times \cup {0}
  /\ bound \subseteq Rtc
  /\ setting \in [Rtc -> Times \cup {Unset}]
  /\ now \in [Rtc -> 0 .. uptime \cup {Unset}]
  /\ alone \in [Rtc -> BOOLEAN] /\ rebound \in BOOLEAN
  /\ meant \in Int
  /\ told \in [time : Int, meant : Int, sound : BOOLEAN, rebound : BOOLEAN]

(***************************************************************************)
(* A reading that no setting and no probe ran into (of any device) is the  *)
(* time set plus what has passed, to the nearest second, half seconds up   *)
(* (fake_rtc_read_time, timespec_to_ulong); after a probe it may only be   *)
(* behind, for the probe starts the count again and keeps the time.        *)
(***************************************************************************)
ClockExplained ==
  told.sound => /\ 2 * told.time <= told.meant + 1
                /\ ~told.rebound => 2 * told.time >= told.meant
=============================================================================
