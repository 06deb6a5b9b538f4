------------------------------ MODULE Buttons ------------------------------
(***************************************************************************)
(* The buttons of the GPIO and input drivers.  Three drivers toggle a LED  *)
(* from the threaded handler of a falling edge (gpio-descriptor, -legacy   *)
(* and -legacy-dt-module.c); two report the level of a button to the input *)
(* layer, one from an interrupt on both edges (input-button.c), one from a *)
(* poll that runs while the device is open (input-polled-button.c).  An    *)
(* edge that comes while one is waiting for its handler is lost in it.     *)
(***************************************************************************)
EXTENDS Integers

CONSTANT MaxPresses   \* bound: how often the button is pressed or released

ASSUME ButtonsAssumption == MaxPresses \in Nat

VARIABLES
  kind,       \* the driver
  bound,      \* between probe and remove
  level,      \* the button: 1 when pressed
  waiting,    \* an edge waits for the handler
  led, state,     \* the LED, and the static variable of the handler
  key,        \* what the input layer last reported
  opened,     \* the input device is open
  presses,
  toggles,    \* history: runs of the handler since the probe
  unseen      \* history: the button has not moved since the probe

btnVars == <<kind, bound, level, waiting, led, state, key, opened, presses, toggles, unseen>>

Led == {"descriptor", "legacy", "legacy-dt"}
Kind == Led \cup {"input", "polled"}

\* The level the LED is set to by the probe.
FirstLed(d) == IF d = "legacy-dt" THEN 0 ELSE 1

BtnInit ==
  /\ kind \in Kind
  /\ bound = FALSE
  /\ level \in {0, 1}
  /\ waiting = FALSE /\ opened = FALSE /\ unseen = TRUE
  /\ led = 0 /\ state = 0 /\ key = 0
  /\ presses = 0 /\ toggles = 0

\* Probe or module_init: `state` is static and is not set again.
Bind ==
  /\ ~bound
  /\ bound' = TRUE
  /\ led' = IF kind \in Led THEN FirstLed(kind) ELSE led
  /\ key' = 0 /\ toggles' = 0 /\ unseen' = TRUE
  /\ UNCHANGED <<kind, level, waiting, state, opened, presses>>

\* Remove: free_irq waits for the handler, input_unregister closes the device.
Unbind ==
  /\ bound /\ ~waiting
  /\ bound' = FALSE /\ opened' = FALSE
  /\ UNCHANGED <<kind, level, waiting, led, state, key, presses, toggles, unseen>>

OpenInput ==
  /\ bound /\ kind \in {"input", "polled"}
  /\ opened' = ~opened
  /\ UNCHANGED <<kind, bound, level, waiting, led, state, key, presses, toggles, unseen>>

\* IRQF_TRIGGER_FALLING, and IRQF_TRIGGER_RISING too for the input device.
Edge(d, l) == d = "input" \/ (d \in Led /\ l = 0)

\* The button is pressed or released.
Move ==
  LET l == 1 - level IN
  /\ presses < MaxPresses
  /\ presses' = presses + 1
  /\ level' = l
  /\ unseen' = (unseen /\ ~bound)
  /\ waiting' = (waiting \/ (bound /\ Edge(kind, l)))
  /\ UNCHANGED <<kind, bound, led, state, key, opened, toggles>>

\* The level key_pushed_irq_handler writes.
Shown(s) == 1 - s

\* key_pushed_irq_handler; packt_btn_interrupt reads the level when it runs.
Handler ==
  /\ waiting
  /\ waiting' = FALSE
  /\ toggles' = toggles + 1
  /\ state' = IF kind \in Led THEN 1 - state ELSE state
  /\ led' = IF kind \in Led THEN Shown(state) ELSE led
  /\ key' = IF kind = "input" THEN level ELSE key
  /\ UNCHANGED <<kind, bound, level, opened, presses, unseen>>

\* polled_btn_poll is called while the device is open.
Polls == kind = "polled" /\ opened

Poll ==
  /\ Polls /\ key # level
  /\ key' = level
  /\ UNCHANGED <<kind, bound, level, waiting, led, state, opened, presses, toggles, unseen>>

BtnNext == Bind \/ Unbind \/ OpenInput \/ Move \/ Handler \/ Poll

BtnSpec == BtnInit /\ [][BtnNext]_btnVars /\ WF_btnVars(Handler) /\ WF_btnVars(Poll)

-----------------------------------------------------------------------------
(* Properties *)

BtnTypeOK ==
  /\ kind \in Kind
  /\ level \in {0, 1} /\ led \in {0, 1} /\ state \in {0, 1} /\ key \in {0, 1}
  /\ bound \in BOOLEAN /\ waiting \in BOOLEAN /\ opened \in BOOLEAN /\ unseen \in BOOLEAN
  /\ presses \in 0 .. MaxPresses /\ toggles \in 0 .. MaxPresses
  /\ opened => bound

\* The LED shows the static state from the first press after a probe on; until
\* then it shows the level of the probe, which the state of an earlier life may
\* contradict: that press then changes nothing one can see.
LedExplained ==
  bound /\ kind \in Led => led = IF toggles = 0 THEN FirstLed(kind) ELSE state

\* With no edge waiting the input layer has the level of the button, however
\* the edges and the handler interleave, unless the button has been held
\* since the probe, which reports nothing.
KeyIsLevel == kind = "input" /\ bound /\ ~waiting => key = level \/ unseen
=============================================================================
