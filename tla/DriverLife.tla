----------------------------- MODULE DriverLife -----------------------------
(***************************************************************************)
(* The life of the example drivers: a probe (or module_init) function that *)
(* obtains resources one after the other, callers that may enter through   *)
(* every resource that is already visible, a failure of any single step,   *)
(* the release sequence of the error labels, the remove (or module_exit)   *)
(* function, and the managed (devm) resources the driver core releases     *)
(* last.  A driver is a table; the actions below read it.  What the kernel *)
(* does with an invalid pointer is not followed: it is recorded as a fault.*)
(***************************************************************************)
EXTENDS Naturals, Sequences

CONSTANT MAX_PROBES      \* bound: how often one driver is loaded or bound

ASSUME LifeAssumption == MAX_PROBES \in Nat \ {0}

(***************************************************************************)
(* The steps of a probe function.  "undo" is the sequence of releases the  *)
(* function runs when the step fails.                                      *)
(***************************************************************************)
Get(r, undo) == [gets |-> r, failing |-> "stop", undo |-> undo]
Check(undo)  == Get("nothing", undo)
Ignored(r)   == [gets |-> r, failing |-> "go on", undo |-> <<>>]
Deref(r)     == [gets |-> r, failing |-> "oops", undo |-> <<>>]
Quits(r)     == [gets |-> r, failing |-> "succeed", undo |-> <<>>]
Sets(r)      == [gets |-> r, failing |-> "never", undo |-> <<>>]

Rel(r) == <<{r}>>
NoUse == [e \in {} |-> {}]

(***************************************************************************)
(* One table per driver: probe, the releases of remove, the managed        *)
(* resources in the order they are obtained, what a caller that enters     *)
(* through a resource uses, and whether the code is the module's init      *)
(* function (then the module's memory, "code", goes away with it).         *)
(***************************************************************************)
DummyChar ==
  [probe  |-> <<Get("region", <<>>), Get("class", Rel("region")),
                Ignored("cdev"), Get("device", Rel("class") \o Rel("region"))>>,
   remove |-> Rel("region") \o Rel("device") \o Rel("cdev") \o Rel("class"),
   devm |-> <<>>, uses |-> [cdev |-> {"code"}], init |-> TRUE]

PlatformDummy ==
  [probe  |-> <<Get("region", <<>>), Get("class", Rel("region")),
                Ignored("cdev"), Get("device", Rel("class") \o Rel("region"))>>,
   remove |-> Rel("region") \o Rel("device") \o Rel("cdev") \o Rel("class"),
   devm |-> <<>>, uses |-> [cdev |-> {"code"}], init |-> FALSE]

\* The count given to unregister_chrdev_region is not the registered one, so
\* the call finds no region; the two cdevs are never deleted.
MyCharDev ==
  [probe  |-> <<Quits("region"), Deref("class"), Ignored("cdev0"),
                Ignored("dev0"), Ignored("cdev1"), Ignored("dev1")>>,
   remove |-> Rel("dev0") \o Rel("dev1") \o Rel("class"),
   devm |-> <<>>, uses |-> [cdev0 |-> {"code"}, cdev1 |-> {"code"}],
   init |-> TRUE]

\* The modules that add a device for the drivers below to bind to: the answers
\* of platform_device_alloc and platform_device_add are not looked at, and exit
\* puts the device without deleting it.
PlatformIns ==
  [probe |-> <<Ignored("pdev"), Ignored("added")>>, remove |-> Rel("pdev"),
   devm |-> <<>>, uses |-> NoUse, init |-> TRUE]

EthIns == PlatformIns
RtcIns == PlatformIns
PwmIns == PlatformIns
PolledIns == PlatformIns

FakeEth ==
  [probe  |-> <<Get("priv", <<>>), Deref("netdev"), Get("registered", <<>>),
                Sets("drvdata")>>,
   remove |-> Rel("registered") \o Rel("netdev"),
   devm |-> <<"priv">>, uses |-> [registered |-> {"netdev"}], init |-> FALSE]

FakeRtc ==
  [probe |-> <<Get("rtc", <<>>), Sets("drvdata")>>, remove |-> <<>>,
   devm |-> <<"rtc">>, uses |-> [rtc |-> {"code"}], init |-> FALSE]

FakePwm ==
  [probe |-> <<Get("priv", <<>>), Sets("drvdata"), Get("chip", <<>>)>>,
   remove |-> Rel("chip"),
   devm |-> <<"priv">>, uses |-> [chip |-> {"priv"}], init |-> FALSE]

GpioDescriptor ==
  [probe  |-> <<Ignored("led"), Ignored("key0"), Ignored("key1"),
                Ignored("wkup"), Ignored("irq")>>,
   remove |-> Rel("irq") \o Rel("led") \o Rel("key0") \o Rel("key1")
                \o Rel("wkup"),
   devm |-> <<>>, uses |-> [irq |-> {"led"}], init |-> FALSE]

GpioLegacyDt ==
  [probe  |-> <<Check(<<>>), Ignored("led"), Ignored("key0"),
                Ignored("key1"), Ignored("wkup"), Ignored("irq")>>,
   remove |-> Rel("irq") \o Rel("led") \o Rel("key0") \o Rel("key1")
                \o Rel("wkup"),
   devm |-> <<>>, uses |-> [irq |-> {"led"}], init |-> FALSE]

GpioLegacy ==
  [probe  |-> <<Ignored("wkup"), Ignored("key0"), Ignored("led"),
                Ignored("key1"), Ignored("irq")>>,
   remove |-> Rel("irq") \o Rel("wkup") \o Rel("key0") \o Rel("led")
                \o Rel("key1"),
   devm |-> <<>>, uses |-> [irq |-> {"led"}], init |-> TRUE]

InputButton ==
  [probe  |-> <<Get("priv", <<>>), Get("i_dev", <<>>), Get("gpiod", <<>>),
                Get("registered", Rel("i_dev")),
                Get("irq", Rel("gpiod") \o Rel("i_dev")), Sets("drvdata")>>,
   remove |-> <<{"registered", "i_dev"}>> \o Rel("irq") \o Rel("gpiod"),
   devm   |-> <<"priv">>,
   uses   |-> [registered |-> {"i_dev"}, irq |-> {"priv", "i_dev", "gpiod"}],
   init   |-> FALSE]

InputPolled ==
  [probe  |-> <<Get("priv", <<>>), Get("poll_dev", <<>>), Ignored("gpiod"),
                Get("registered", Rel("poll_dev") \o Rel("priv")),
                Sets("drvdata")>>,
   remove |-> Rel("registered") \o Rel("gpiod"),
   devm   |-> <<"priv">>,
   uses   |-> [registered |-> {"priv", "poll_dev", "gpiod"}],
   init   |-> FALSE]

KobjAttribute ==
  [probe |-> <<Get("data", <<>>), Get("kobj", <<>>)>>,
   remove |-> Rel("kobj") \o Rel("data"),
   devm |-> <<>>, uses |-> [kobj |-> {"data", "code"}], init |-> TRUE]

Kobject ==
  [probe |-> <<Get("kobj", <<>>)>>, remove |-> Rel("kobj"),
   devm |-> <<>>, uses |-> [kobj |-> {"code"}], init |-> TRUE]

\* create_kobject reports failure with an error pointer, its caller tests for
\* NULL: a failure goes unnoticed and the error labels are never reached.
Kset ==
  [probe  |-> <<Get("kset", <<>>), Ignored("setA"), Ignored("setB"),
                Ignored("setC")>>,
   remove |-> Rel("setA") \o Rel("setB") \o Rel("setC") \o Rel("kset"),
   devm |-> <<>>,
   uses |-> [setA |-> {"code"}, setB |-> {"code"}, setC |-> {"code"}],
   init |-> TRUE]

\* Mutant: a label that forgets the character device.
FailClassForgets == Rel("region")

\* The error labels fail_class_create, fail_device_create and fail_device of
\* the three sensor drivers.
FailClass  == Rel("cdev") \o Rel("region")
FailCreate == Rel("class") \o FailClass
FailDevice == Rel("device") \o FailCreate

SpiIcm20608 ==
  [probe  |-> <<Get("region", <<>>), Get("cdev", Rel("region")),
                Get("class", FailClass), Get("device", FailCreate),
                Check(FailDevice), Sets("spi"), Get("group", FailDevice)>>,
   remove |-> Rel("group") \o FailDevice,
   devm |-> <<>>, uses |-> [cdev |-> {"spi"}, group |-> {"spi"}],
   init |-> FALSE]

RegmapIcm20608 ==
  LET then == Rel("regmap") IN
  [probe  |-> <<Get("regmap", <<>>), Get("region", <<>>),
                Get("cdev", Rel("region") \o then),
                Get("class", FailClass \o then),
                Get("device", FailCreate \o then),
                Check(FailDevice \o then), Sets("spi"),
                Get("group", FailDevice \o then)>>,
   remove |-> Rel("group") \o FailDevice \o then,
   devm |-> <<>>, uses |-> [cdev |-> {"regmap"}, group |-> {"spi", "regmap"}],
   init |-> FALSE]

\* The two writes after the client pointer reset and enable the sensor.
Ap3216c ==
  [probe  |-> <<Check(<<>>), Get("region", <<>>), Get("cdev", Rel("region")),
                Get("class", FailClass), Get("device", FailCreate),
                Sets("client"), Check(FailDevice), Check(FailDevice),
                Get("group", FailDevice)>>,
   remove |-> Rel("group") \o FailDevice,
   devm |-> <<>>, uses |-> [cdev |-> {"client"}, group |-> {"client"}],
   init |-> FALSE]

\* Every error label unregisters the device, registered or not.
IioIcm20608 ==
  [probe  |-> <<Get("iio_dev", <<>>), Get("regmap", Rel("iio")),
                Ignored("buffer"), Get("trig", Rel("iio")),
                Ignored("trigger"), Ignored("irq"), Get("iio", Rel("iio")),
                Sets("drvdata")>>,
   remove |-> Rel("regmap") \o Rel("iio"),
   devm   |-> <<"iio_dev", "buffer", "trig", "trigger", "irq">>,
   uses   |-> [iio |-> {"iio_dev", "regmap"}, irq |-> {"trig"}],
   init   |-> FALSE]

Life == [dummy_char |-> DummyChar, platform_dummy |-> PlatformDummy,
         mychardev |-> MyCharDev, platform_ins |-> PlatformIns,
         eth_ins |-> EthIns, rtc_ins |-> RtcIns, pwm_ins |-> PwmIns,
         polled_ins |-> PolledIns,
         fake_eth |-> FakeEth, fake_rtc |-> FakeRtc, fake_pwm |-> FakePwm,
         gpio_descriptor |-> GpioDescriptor, gpio_legacy_dt |-> GpioLegacyDt,
         gpio_legacy |-> GpioLegacy, input_button |-> InputButton,
         input_polled |-> InputPolled, kobj_attribute |-> KobjAttribute,
         kobject |-> Kobject, kset |-> Kset, spi_icm20608 |-> SpiIcm20608,
         regmap_icm20608 |-> RegmapIcm20608, ap3216c |-> Ap3216c,
         iio_icm20608 |-> IioIcm20608]

Driver == DOMAIN Life

(***************************************************************************)
(* The kernel's side, as these drivers meet it.                            *)
(***************************************************************************)
\* Only one owner may hold it: while an earlier probe's is held, getting it fails.
Exclusive == {"gpiod", "led", "key0", "key1", "wkup", "added", "class", "group",
              "kobj", "kset"}
\* device_destroy looks the device up and does nothing when there is none.
LookedUp == {"dev0", "dev1", "device"}
\* What a call needs from an earlier step to be able to succeed at all.
Needs(r) == CASE r = "added" -> {"pdev"}
              [] r = "irq"   -> {"wkup", "trig", "gpiod"}
              [] OTHER       -> {}

VARIABLES
  drv,       \* the driver
  phase,     \* "probing", "undoing", "live", "removing", "failed", "gone" or
             \* "oops"
  at,        \* the next step of the probe function
  todo,      \* the releases still to run
  held,      \* what the driver holds
  freed,     \* what it has released since the probe began
  leaked,    \* what earlier probes left behind
  user,      \* the entry some process has open, or "none"
  slipped,   \* a step of this probe has failed
  probes,    \* how often it was probed
  faults     \* what went wrong: <<kind, entry, resource>>

lifeVars == <<drv, phase, at, todo, held, freed, leaked, user, slipped, probes,
              faults>>

Phase == {"probing", "undoing", "live", "removing", "failed", "gone", "oops"}
Entry(d) == DOMAIN Life[d].uses
Step(d) == Life[d].probe[at]
Obtained(d) == {Life[d].probe[i].gets : i \in DOMAIN Life[d].probe}

LifeInit ==
  /\ drv \in Driver
  /\ phase = "probing" /\ at = 1 /\ todo = <<>>
  /\ held = {"code"} /\ freed = {} /\ leaked = {} /\ user = "none"
  /\ slipped = FALSE /\ probes = 1 /\ faults = {}

\* Where the probe function is after a step: live when it was the last one.
Beyond == IF at = Len(Life[drv].probe) THEN "live" ELSE "probing"

\* A step succeeds.
Obtain ==
  /\ phase = "probing"
  /\ LET r == Step(drv).gets IN
       /\ Needs(r) \cap Obtained(drv) \subseteq held
       /\ ~(r \in Exclusive /\ r \in leaked)
       /\ held' = held \cup ({r} \ {"nothing"})
  /\ phase' = Beyond /\ at' = at + 1
  /\ UNCHANGED <<drv, todo, freed, leaked, user, slipped, probes, faults>>

\* A step fails: the function stops and undoes, or ignores it, or uses the
\* invalid result, or reports success.
Fail ==
  /\ phase = "probing" /\ Step(drv).failing # "never"
  /\ slipped' = TRUE
  /\ LET step == Step(drv) IN
       /\ at' = at + 1
       /\ phase' = CASE step.failing = "stop"    -> "undoing"
                     [] step.failing = "go on"   -> Beyond
                     [] step.failing = "succeed" -> "live"
                     [] OTHER                    -> "oops"
       /\ todo' = step.undo
       \* refused because of what an earlier probe of this driver left
       /\ faults' = IF step.gets \in Exclusive /\ step.gets \in leaked
                      THEN faults \cup {<<"busy", "probe", step.gets>>}
                      ELSE faults
  /\ UNCHANGED <<drv, held, freed, leaked, user, probes>>

\* A caller enters through a resource that is visible, or through a file
\* opened earlier, and uses what the handler uses.
Use ==
  \E e \in Entry(drv):
    /\ e \in held \cup {user} /\ phase # "oops"
    /\ faults' = faults \cup
         {<<IF r \in freed THEN "freed" ELSE "missing", e, r>> :
            r \in Life[drv].uses[e] \ held}
    /\ UNCHANGED <<drv, phase, at, todo, held, freed, leaked, user, slipped,
                   probes>>

\* A process opens a device file, or requests a PWM, and keeps it.
Files == {"cdev", "cdev0", "cdev1", "chip"}
Open ==
  /\ phase = "live" /\ user = "none"
  /\ \E e \in Entry(drv) \cap held \cap Files: user' = e
  /\ UNCHANGED <<drv, phase, at, todo, held, freed, leaked, slipped, probes,
                 faults>>
Close ==
  /\ user # "none" /\ user' = "none"
  /\ UNCHANGED <<drv, phase, at, todo, held, freed, leaked, slipped, probes,
                 faults>>

\* The device is unbound or the module removed.  An open file keeps a module
\* from being removed, not a device from being unbound.
Remove ==
  /\ phase = "live"
  /\ Life[drv].init => user = "none"
  /\ phase' = "removing" /\ todo' = Life[drv].remove
  /\ UNCHANGED <<drv, at, held, freed, leaked, user, slipped, probes, faults>>

\* pwmchip_remove refuses while a PWM of the chip is requested; the driver
\* core ignores that answer.
Refused(rs) == user = "chip" /\ "chip" \in rs

\* One release of the error path or of the remove function.
Release ==
  /\ phase \in {"undoing", "removing"} /\ todo # <<>>
  /\ todo' = Tail(todo)
  /\ LET rs == IF Refused(Head(todo)) THEN {} ELSE Head(todo) IN
       /\ held' = held \ rs
       /\ freed' = freed \cup (rs \cap held)
       /\ faults' = faults \cup
            {<<"not held", "release", r>> : r \in rs \ (held \cup LookedUp)}
  /\ UNCHANGED <<drv, phase, at, leaked, user, slipped, probes>>

\* The driver core releases the managed resources, the last one first, then
\* the module's memory goes if this was the module's own init or exit.
Managed == {Life[drv].devm[i] : i \in DOMAIN Life[drv].devm} \cap held
ReleaseManaged ==
  /\ phase \in {"undoing", "removing"} /\ todo = <<>> /\ Managed # {}
  /\ LET devm == Life[drv].devm
         last == CHOOSE i \in DOMAIN devm :
                   /\ devm[i] \in held
                   /\ \A j \in DOMAIN devm : devm[j] \in held => j <= i
     IN  held' = held \ {devm[last]} /\ freed' = freed \cup {devm[last]}
  /\ UNCHANGED <<drv, phase, at, todo, leaked, user, slipped, probes, faults>>
Finish ==
  /\ phase \in {"undoing", "removing"} /\ todo = <<>> /\ Managed = {}
  /\ phase' = IF phase = "undoing" THEN "failed" ELSE "gone"
  /\ LET gone == IF Life[drv].init THEN {"code"} ELSE {} IN
       held' = held \ gone /\ freed' = freed \cup gone
  /\ UNCHANGED <<drv, at, todo, leaked, user, slipped, probes, faults>>

\* Pointers the driver keeps are not resources: nothing has to release them.
Pointers == {"code", "drvdata", "spi", "client"}

\* The driver is loaded or bound again; what it still holds is lost.
ProbeAgain ==
  /\ phase \in {"failed", "gone"} /\ user = "none" /\ probes < MAX_PROBES
  /\ probes' = probes + 1 /\ phase' = "probing" /\ at' = 1
  /\ leaked' = leaked \cup (held \ Pointers)
  /\ held' = {"code"} /\ freed' = {} /\ slipped' = FALSE
  /\ UNCHANGED <<drv, todo, user, faults>>

LifeNext == Obtain \/ Fail \/ Use \/ Open \/ Close \/ Remove \/ Release
              \/ ReleaseManaged \/ Finish \/ ProbeAgain
LifeSpec == LifeInit /\ [][LifeNext]_lifeVars
-----------------------------------------------------------------------------
LifeTypeOK ==
  /\ drv \in Driver /\ phase \in Phase
  /\ at \in 1..(Len(Life[drv].probe) + 1)
  /\ held \cup freed \cup leaked \subseteq Obtained(drv) \cup {"code"}
  /\ held \cap freed = {}
  /\ user \in Entry(drv) \cup {"none"}
  /\ slipped \in BOOLEAN /\ probes \in 1..MAX_PROBES

Adders == {"platform_ins", "eth_ins", "rtc_ins", "pwm_ins", "polled_ins"}

\* What is left when a driver is gone without a single step having failed.
LeftByRemove(d) ==
  CASE d = "mychardev"    -> {"region", "cdev0", "cdev1"}
    [] d \in Adders       -> {"added"}
    [] d = "input_polled" -> {"poll_dev"}
    [] OTHER              -> {}
\* What a probe that stopped may leave.
LeftByFailure(d) ==
  CASE d = "dummy_char"      -> {"cdev"}
    [] d = "platform_dummy"  -> {"cdev"}
    [] d = "fake_eth"        -> {"netdev"}
    [] d = "input_button"    -> {"i_dev", "gpiod", "registered"}
    [] d = "input_polled"    -> {"gpiod"}
    [] d = "kobj_attribute"  -> {"data"}
    [] d = "regmap_icm20608" -> {"regmap"}
    [] d = "iio_icm20608"    -> {"regmap"}
    [] OTHER                 -> {}

(***************************************************************************)
(* Only the listed drivers leave a resource behind, and only the listed    *)
(* resources: after an undisturbed life exactly those of LeftByRemove (the *)
(* chip too when its removal was refused), after a probe that failed at    *)
(* any of its steps at most those of LeftByFailure.                        *)
(***************************************************************************)
LeaksExplained ==
  LET left == held \ Pointers IN
  /\ phase = "gone" /\ ~slipped => left \ {"chip"} = LeftByRemove(drv)
  /\ phase = "gone" => left \subseteq LeftByRemove(drv) \cup {"chip"}
  /\ phase = "failed" => left \subseteq LeftByFailure(drv)

(***************************************************************************)
(* A handler meets a resource that is not there yet, or that is already    *)
(* released, and a release or a later probe meets one of the wrong state,  *)
(* only in the listed drivers, through the listed entry: between the       *)
(* creation of the device and the assignment of the bus pointer; in the    *)
(* interrupt between input_unregister_device and free_irq; through a file  *)
(* kept open over the unbinding; through a character device that survives  *)
(* its module; after an ignored failure.                                   *)
(***************************************************************************)
Expected(d) ==
  CASE d = "dummy_char"   -> {<<"freed", "cdev", "code">>,
                              <<"not held", "release", "cdev">>}
    [] d = "platform_dummy" -> {<<"not held", "release", "cdev">>}
    [] d = "mychardev"    -> {<<"freed", e, "code">> : e \in {"cdev0", "cdev1"}}
                               \cup {<<"not held", "release", "class">>}
    [] d \in Adders       -> {<<"busy", "probe", "added">>,
                              <<"not held", "release", "pdev">>}
    [] d = "fake_pwm"     -> {<<"freed", "chip", "priv">>}
    [] d \in {"gpio_descriptor", "gpio_legacy", "gpio_legacy_dt"}
                          -> {<<"missing", "irq", "led">>} \cup
                             {<<"not held", "release", r>> :
                                r \in {"led", "key0", "key1", "wkup", "irq"}}
    [] d = "input_button" -> {<<"freed", "irq", "i_dev">>,
                              <<"freed", "registered", "i_dev">>,
                              <<"busy", "probe", "gpiod">>}
    [] d = "input_polled" -> {<<"missing", "registered", "gpiod">>,
                              <<"not held", "release", "gpiod">>,
                              <<"busy", "probe", "gpiod">>}
    [] d = "kset"         -> {<<"not held", "release", s>> :
                                s \in {"setA", "setB", "setC"}}
    [] d = "spi_icm20608" -> {<<"missing", "cdev", "spi">>}
    [] d = "ap3216c"      -> {<<"missing", "cdev", "client">>}
    [] d = "regmap_icm20608" -> {<<"freed", "cdev", "regmap">>}
    [] d = "iio_icm20608" -> {<<"freed", "iio", "regmap">>,
                              <<"not held", "release", "iio">>}
    [] OTHER              -> {}
FaultsExplained == faults \subseteq Expected(drv)
=============================================================================
