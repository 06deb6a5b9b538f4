------------------------------- MODULE EvQuery -------------------------------
(***************************************************************************)
(* The other half of evtest (driver/input/evtest/evtest.c): the tables of  *)
(* names, the list of what a device reports, the choice of a device by its *)
(* number and the query of one key, LED, sound or switch.                  *)
(*                                                                         *)
(* A table of names is the set of codes that have one, of the top code its *)
(* array is declared with.  A number somebody types is what the program's  *)
(* int makes of it, and whether that is still the number (TLC's integers   *)
(* have 32 bits, strtoul's 64).                                            *)
(***************************************************************************)
EXTENDS Integers, Sequences, FiniteSets

CONSTANTS
  BITS_PER_LONG,   \*                                              (64)
  Nodes,           \* bound: the device files found, in order: sequences of
                   \* [number, opens]
  Numbers,         \* bound: numbers typed: [int, exact]
  NoDevice

ASSUME QueryAssumption ==
  /\ BITS_PER_LONG \in {32, 64}
  /\ \A v \in Numbers : v.int \in Int /\ v.exact \in BOOLEAN

VARIABLES
  eq,        \* "idle", "ask" (a type and a code), "code", "state", "choose", "done"
  words,     \* what was typed: a type and a code, or a device's number
  query_mode, keycode,
  reports,   \* the device: pairs of a type and a code it can report
  down,      \* the device: pairs whose bit is set now
  reply,    \* of the query: "0", "10", "usage" or "error"
  chosen,    \* the number of the device that is chosen, or NoDevice
  listed    \* the pairs print_device_info wrote a line for

eqVars == <<eq, words, query_mode, keycode, reports, down, reply, chosen, listed>>

-----------------------------------------------------------------------------
(* The tables *)

EV_MAX == 31
EV_SYN == 0    EV_KEY == 1    EV_REL == 2    EV_ABS == 3    EV_MSC == 4    EV_SW == 5
EV_LED == 17   EV_SND == 18   EV_REP == 20   EV_FF == 21    EV_FF_STATUS == 23

\* As the array of each is initialised, by the codes of <linux/input.h>.
syns == [top |-> 15, named |-> 0 .. 3]
\* The key codes, in the order of the array: the keyboard's and the remote control's
\* first half; the rest of the keys; the buttons and what was added after them.
KeyboardKeys ==
  (0 .. 83) \cup (85 .. 119) \cup (121 .. 180) \cup (183 .. 194) \cup (200 .. 203)
    \cup (205 .. 226) \cup {240} \cup (352 .. 410)
FurtherKeys ==
  {120, 152, 181, 182, 204} \cup (227 .. 239) \cup (241 .. 248) \cup (411 .. 442)
    \cup (448 .. 451) \cup (464 .. 484) \cup (497 .. 506) \cup (512 .. 523)
    \cup (528 .. 542)
ButtonCodes ==
  (256 .. 265) \cup (272 .. 279) \cup (288 .. 299) \cup (303 .. 318) \cup (320 .. 328)
    \cup (330 .. 337) \cup (544 .. 547) \cup {560} \cup (576 .. 582) \cup {592, 593}
    \cup (608 .. 613) \cup (704 .. 743)
keys == [top |-> 767, named |-> KeyboardKeys \cup FurtherKeys \cup ButtonCodes]
relatives == [top |-> 15, named |-> 0 .. 9]
absolutes == [top |-> 63,
              named |-> (0 .. 10) \cup (16 .. 28) \cup {32, 40} \cup (47 .. 61)]
misc == [top |-> 7, named |-> 0 .. 5]
switches == [top |-> 16, named |-> 0 .. 14]
leds == [top |-> 15, named |-> 0 .. 10]
sounds == [top |-> 7, named |-> 0 .. 2]
repeats == [top |-> 1, named |-> 0 .. 1]
force == [top |-> 127, named |-> (80 .. 93) \cup {96, 97}]
forcestatus == [top |-> 1, named |-> 0 .. 1]

\* The types whose codes have names, in the order of the list.
Typed == <<EV_SYN, EV_KEY, EV_REL, EV_ABS, EV_MSC, EV_SW, EV_LED, EV_SND, EV_REP,
           EV_FF, EV_FF_STATUS>>
Tables == <<syns, keys, relatives, absolutes, misc, switches, leds, sounds, repeats,
            force, forcestatus>>
HasNames(t) == \E i \in DOMAIN Typed : Typed[i] = t
names(t) == Tables[CHOOSE i \in DOMAIN Typed : Typed[i] = t]

\* The top code of a type, or -1: as an unsigned code is compared with it, -1
\* lets every code pass.
maxval(t) == IF HasNames(t) THEN names(t).top ELSE -1

\* codename: the code's name is looked up in the table of its type.
LooksUp(t, code) ==
  t <= EV_MAX /\ (maxval(t) = -1 \/ code <= maxval(t)) /\ HasNames(t)

query_modes == {EV_KEY, EV_LED, EV_SND, EV_SW}

-----------------------------------------------------------------------------
(* What is typed *)

Name(t, code) == [kind |-> "name", type |-> t, code |-> code]
Number(v) == [kind |-> "number", int |-> v.int, exact |-> v.exact]

\* What begins with a digit is a number, "-1" is taken for a name.
Digits == {v \in Numbers : v.exact => v.int >= 0}

\* A mode by its name, another type's name, or a number; a code by a name of some
\* table, or a number.
TypeWords == {Name(t, 0) : t \in query_modes \cup {EV_REL}} \cup {Number(v) : v \in Numbers}
CodeWords == {Name(EV_KEY, 743), Name(EV_LED, 10), Name(EV_SND, 2), Name(EV_SW, 14)}
               \cup {Number(v) : v \in Digits}

EqInit ==
  /\ eq = "idle" /\ words = <<>> /\ query_mode = NoDevice /\ keycode = 0
  /\ reports \in {{<<EV_KEY, 743>>, <<EV_KEY, 767>>, <<EV_SYN, 0>>, <<EV_LED, 15>>},
                  {<<EV_REP, 0>>, <<EV_REP, 1>>, <<EV_ABS, 62>>}, {}}
  /\ down \in SUBSET {<<EV_LED, 10>>, <<EV_SW, 0>>}
  /\ reply = NoDevice /\ chosen = NoDevice /\ listed = {}

-----------------------------------------------------------------------------
(* Query mode *)

Ask ==
  /\ eq = "idle" /\ eq' = "ask"
  /\ \E t \in TypeWords, c \in CodeWords : words' = <<t, c>>
  /\ UNCHANGED <<query_mode, keycode, reports, down, reply, chosen, listed>>

\* find_query_mode: by name, or by the number cast to int.
FindQueryMode ==
  /\ eq = "ask"
  /\ LET t == IF words[1].kind = "name" THEN words[1].type ELSE words[1].int IN
       IF t \in query_modes
         THEN query_mode' = t /\ eq' = "code" /\ UNCHANGED reply
         ELSE reply' = "usage" /\ eq' = "done" /\ UNCHANGED query_mode
  /\ UNCHANGED <<words, keycode, reports, down, chosen, listed>>

\* get_keycode: the first code below the top whose name is the one typed (names
\* differ from table to table), or the number cast to int.
GetKeycode(m, w) ==
  IF w.kind = "number" THEN w.int
  ELSE IF w.type = m /\ w.code \in names(m).named /\ w.code < names(m).top THEN w.code
  ELSE -1

\* The code is not one of the type's.
OutOfBounds(m, code) == code > names(m).top

FindCode ==
  /\ eq = "code"
  /\ LET code == GetKeycode(query_mode, words[2]) IN
     /\ keycode' = code
     /\ IF code < 0 THEN reply' = "usage" /\ eq' = "done"
        ELSE IF OutOfBounds(query_mode, code) THEN reply' = "error" /\ eq' = "done"
        ELSE eq' = "state" /\ UNCHANGED reply
  /\ UNCHANGED <<words, query_mode, reports, down, chosen, listed>>

\* NBITS: the longs of the array the device's state is copied into.
NBITS(n) == ((n - 1) \div BITS_PER_LONG) + 1

\* query_device: 10 when the bit is set, 0 when it is not; the file or the ioctl
\* may fail.
QueryDevice ==
  /\ eq = "state" /\ eq' = "done"
  /\ reply' \in {IF <<query_mode, keycode>> \in down THEN "10" ELSE "0", "error"}
  /\ UNCHANGED <<words, query_mode, keycode, reports, down, chosen, listed>>

\* Keys are pressed and LEDs change meanwhile.
Toggle ==
  /\ eq # "done"
  /\ \E b \in {<<EV_KEY, 743>>, <<EV_LED, 10>>} :
       down' = IF b \in down THEN down \ {b} ELSE down \cup {b}
  /\ UNCHANGED <<eq, words, query_mode, keycode, reports, reply, chosen, listed>>

-----------------------------------------------------------------------------
(* Capture mode without a device: scan_devices, then the list of the device *)

\* devnum is scanned from every file that opens, and then from what is typed;
\* scanf leaves it alone when that is no number.  Before the first file that
\* opens it has no value.
ScanDevices ==
  /\ eq = "idle" /\ eq' = "choose"
  /\ \E n \in Nodes, v \in Numbers \cup {NoDevice} : words' = <<n, v>>
  /\ UNCHANGED <<query_mode, keycode, reports, down, reply, chosen, listed>>

Readable(n) == {i \in DOMAIN n : n[i].opens}
MaxDevice(n) ==
  CHOOSE m \in {0} \cup {n[i].number : i \in Readable(n)} :
    \A i \in Readable(n) : n[i].number <= m
LastScanned(n) ==
  IF Readable(n) = {} THEN {-1, 0, 1}
  ELSE {n[CHOOSE i \in Readable(n) : \A j \in Readable(n) : j <= i].number}

Choose ==
  /\ eq = "choose" /\ eq' = "done"
  /\ LET n == words[1]   v == words[2] IN
     \E devnum \in IF v = NoDevice THEN LastScanned(n) ELSE {v.int} :
       IF n = <<>> \/ devnum > MaxDevice(n) \/ devnum < 0
         THEN reply' = "usage" /\ UNCHANGED <<chosen, listed>>
       ELSE IF \A i \in Readable(n) : n[i].number # devnum
         THEN reply' = "error" /\ UNCHANGED <<chosen, listed>>
         ELSE /\ chosen' = devnum
              /\ listed' = {r \in reports : r[1] < EV_MAX /\ r[1] \notin {EV_REP, EV_SYN}
                                              /\ r[2] < keys.top}
                            \cup {r \in {EV_REP} \X (0 .. repeats.top) :
                                    \E q \in reports : q[1] = EV_REP}
              /\ UNCHANGED reply
  /\ UNCHANGED <<words, query_mode, keycode, reports, down>>

EqNext ==
  Ask \/ FindQueryMode \/ FindCode \/ QueryDevice \/ Toggle \/ ScanDevices \/ Choose

EqSpec == EqInit /\ [][EqNext]_eqVars

-----------------------------------------------------------------------------
(* Properties *)

EqTypeOK ==
  /\ eq \in {"idle", "ask", "code", "state", "choose", "done"}
  /\ query_mode \in query_modes \cup {NoDevice} /\ keycode \in Int
  /\ reply \in {"0", "10", "usage", "error", NoDevice}
  /\ listed \subseteq reports \cup {<<EV_REP, 0>>, <<EV_REP, 1>>}

\* Every name that is looked up lies in its table, for any code an event may
\* carry (codename's guard and maxval go together), and the bit that is tested
\* lies in the array the state was copied into.
LookupsInside ==
  /\ \A t \in {Typed[i] : i \in DOMAIN Typed} : \A code \in {0, 1, 15, 16, 127, 128, 767, 768, 65535} :
       LooksUp(t, code) => code <= names(t).top
  /\ eq = "state" =>
       keycode >= 0 /\ keycode \div BITS_PER_LONG < NBITS(names(query_mode).top)

\* What was typed is n, if it is a number of an int.
Meant(w, n) == w.kind = "number" /\ w.exact => w.int = n

\* A query is answered about the type and the code that were words, unless a
\* number did not fit an int: its lower half is then taken for it; and a code
\* typed by a name of the type asked about is always found, although the search
\* leaves out the top code.
QueryExplained ==
  eq = "done" /\ query_mode # NoDevice =>
    /\ reply \in {"0", "10"} => Meant(words[1], query_mode) /\ Meant(words[2], keycode)
    /\ reply = "usage" => ~(words[2].kind = "name" /\ words[2].type = query_mode)

\* The device chosen is the one whose number was typed; if none was, the last
\* that could be chosen in the scan.  Every code a device reports is listed, but
\* for EV_SYN's and the top code of all.
ChoiceExplained ==
  chosen # NoDevice =>
    /\ \/ words[2] # NoDevice /\ (words[2].exact => words[2].int = chosen)
       \/ words[2] = NoDevice /\ chosen \in LastScanned(words[1])
    /\ \A r \in reports : r \in listed \/ r[1] = EV_SYN \/ r[2] = keys.top
=============================================================================
