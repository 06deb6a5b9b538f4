------------------------------- MODULE UsbFind -------------------------------
(***************************************************************************)
(* Where the USB devices of a product are plugged in (script/usb/main.c):  *)
(* every device of libusb's list is opened for its product string, and for *)
(* those that match bus and port path are written to a table of nmemb      *)
(* lines.  libusb may fail in any call; a device that cannot be opened is  *)
(* compared with an empty string.                                          *)
(***************************************************************************)
EXTENDS Integers, Sequences

CONSTANTS
  Lists,      \* bound: libusb's lists: sequences of [product, ports]; a port
              \* stands for the digits of its number
  Targets,    \* bound: what is looked for; NoString is the empty one
  NMEMB,      \* lines of the table                                (2)
  PORT_STR    \* bytes of port_str, its 0 included                (16)

\* libusb_get_port_numbers is asked for at most 8 ports, and no hub has more than
\* 99.
ASSUME UsbAssumption ==
  /\ \A l \in Lists :
       /\ Len(l) \in Nat /\ DOMAIN l = 1 .. Len(l)
       /\ \A i \in DOMAIN l : l[i].ports \in Seq(1 .. 2) /\ Len(l[i].ports) <= 8
  /\ NMEMB \in Nat \ {0} /\ PORT_STR \in Nat /\ PORT_STR >= 16

\* product as it is declared, and what is compared when nothing was read.
NoString == ""

VARIABLES
  usbStep,    \* "init", "list", "descriptor", "open", "string", "close",
              \* "compare", "path", "store", "free", "exit", "done"
  devs, target,
  index,      \* i: the device at hand
  product,    \* the string read of it
  retval,     \* ret, the last result: it is negative ("bad") or not ("good")
  port, offset,  \* j: the port at hand, and where in port_str it goes
  obuf,       \* the devices stored
  usbHeld,    \* what is still to be given back: "ctx", "devs", "handle"
  untold,     \* history: devices of which libusb did not tell the product
  outside     \* history: devices whose path was written past port_str

usbVars == <<usbStep, devs, target, index, product, retval, port, offset, obuf, usbHeld,
             untold, outside>>

UsbInit ==
  /\ usbStep = "init" /\ devs \in Lists /\ target \in Targets
  /\ index = 1 /\ product = NoString /\ retval = "good" /\ port = 1 /\ offset = 0
  /\ obuf = <<>> /\ usbHeld = {} /\ untold = {} /\ outside = {}

device == <<index, product, port, offset>>

\* libusb_init.
InitUsb ==
  /\ usbStep = "init"
  /\ \/ usbStep' = "list" /\ usbHeld' = {"ctx"}
     \/ usbStep' = "done" /\ UNCHANGED usbHeld
  /\ UNCHANGED <<devs, target, device, retval, obuf, untold, outside>>

GetList ==
  /\ usbStep = "list"
  /\ \/ usbStep' = "descriptor" /\ usbHeld' = usbHeld \cup {"devs"}
     \/ usbStep' = "exit" /\ UNCHANGED usbHeld
  /\ UNCHANGED <<devs, target, device, retval, obuf, untold, outside>>

\* The loop goes on with the next device, its locals fresh.
NextDevice ==
  /\ usbStep' = "descriptor" /\ index' = index + 1 /\ product' = NoString /\ port' = 1 /\ offset' = 0

ListEnds ==
  /\ usbStep = "descriptor" /\ index > Len(devs)
  /\ usbStep' = "free"
  /\ UNCHANGED <<devs, target, device, retval, obuf, usbHeld, untold, outside>>

GetDescriptor ==
  /\ usbStep = "descriptor" /\ index <= Len(devs)
  /\ \/ usbStep' = "open" /\ retval' = "good" /\ UNCHANGED <<device, untold>>
     \/ retval' = "bad" /\ untold' = untold \cup {index} /\ NextDevice
  /\ UNCHANGED <<devs, target, obuf, usbHeld, outside>>

\* A device without a product string (iProduct 0) is not asked for it, and ret
\* keeps the success of the open.
OpenUsb ==
  /\ usbStep = "open"
  /\ \/ /\ retval' = "good" /\ usbHeld' = usbHeld \cup {"handle"}
        /\ usbStep' = IF devs[index].product # NoString THEN "string" ELSE "close"
        /\ UNCHANGED untold
     \/ /\ retval' = "bad" /\ usbStep' = "compare" /\ untold' = untold \cup {index}
        /\ UNCHANGED usbHeld
  /\ UNCHANGED <<devs, target, device, obuf, outside>>

GetString ==
  /\ usbStep = "string" /\ usbStep' = "close"
  /\ \/ retval' = "good" /\ product' = devs[index].product /\ UNCHANGED untold
     \/ retval' = "bad" /\ untold' = untold \cup {index} /\ UNCHANGED product
  /\ UNCHANGED <<devs, target, index, port, offset, obuf, usbHeld, outside>>

CloseUsb ==
  /\ usbStep = "close" /\ usbHeld' = usbHeld \ {"handle"}
  /\ IF retval = "bad" THEN NextDevice ELSE usbStep' = "compare" /\ UNCHANGED device
  /\ UNCHANGED <<devs, target, retval, obuf, untold, outside>>

\* strcmp, and libusb_get_port_numbers, which fails without a path.
Compare ==
  /\ usbStep = "compare"
  /\ IF product # target THEN NextDevice
     ELSE usbStep' \in {"path", "store"} /\ UNCHANGED device
  /\ UNCHANGED <<devs, target, retval, obuf, usbHeld, untold, outside>>

\* The bytes of a port: its digits, and a dot but for the last.
PortLength == devs[index].ports[port] + (IF port < Len(devs[index].ports) THEN 1 ELSE 0)

\* snprintf is given what is left of port_str, a size that wraps around once
\* offset, the length the path should have, is past the end.
WritePort ==
  /\ usbStep = "path"
  /\ IF port > Len(devs[index].ports)
       THEN usbStep' = "store" /\ UNCHANGED <<device, outside>>
       ELSE /\ offset' = offset + PortLength /\ port' = port + 1
            /\ outside' = IF offset > PORT_STR THEN outside \cup {index} ELSE outside
            /\ UNCHANGED <<usbStep, index, product>>
  /\ UNCHANGED <<devs, target, retval, obuf, usbHeld, untold>>

StorePath ==
  /\ usbStep = "store"
  /\ obuf' = Append(obuf, index)
  /\ IF Len(obuf') >= NMEMB THEN usbStep' = "free" /\ UNCHANGED device ELSE NextDevice
  /\ UNCHANGED <<devs, target, retval, usbHeld, untold, outside>>

FreeList ==
  /\ usbStep = "free" /\ usbStep' = "exit" /\ usbHeld' = usbHeld \ {"devs"}
  /\ UNCHANGED <<devs, target, device, retval, obuf, untold, outside>>
ExitUsb ==
  /\ usbStep = "exit" /\ usbStep' = "done" /\ usbHeld' = usbHeld \ {"ctx"}
  /\ UNCHANGED <<devs, target, device, retval, obuf, untold, outside>>

UsbNext ==
  \/ InitUsb \/ GetList \/ ListEnds \/ GetDescriptor \/ OpenUsb \/ GetString \/ CloseUsb
  \/ Compare \/ WritePort \/ StorePath \/ FreeList \/ ExitUsb

UsbSpec == UsbInit /\ [][UsbNext]_usbVars

-----------------------------------------------------------------------------
(* Properties *)

UsbTypeOK ==
  /\ devs \in Lists /\ target \in Targets /\ index \in 1 .. Len(devs) + 1
  /\ retval \in {"good", "bad"} /\ port \in Nat /\ offset \in Nat
  /\ usbHeld \subseteq {"ctx", "devs", "handle"}
  /\ untold \subseteq DOMAIN devs /\ outside \subseteq DOMAIN devs

\* However libusb fails, nothing is left open at the end, and the table holds, in
\* the order of the list, the devices of the product whose string was read, up to
\* the lines it has; only an empty product also takes those without one.
FoundExplained ==
  /\ usbStep = "done" => usbHeld = {}
  /\ Len(obuf) <= NMEMB
  /\ \A a, b \in DOMAIN obuf : a < b => obuf[a] < obuf[b]
  /\ \A a \in DOMAIN obuf :
       devs[obuf[a]].product = target \/ (target = NoString /\ obuf[a] \in untold)
  /\ usbStep = "free" /\ Len(obuf) < NMEMB =>
       \A d \in DOMAIN devs \ untold :
         devs[d].product = target => \E a \in DOMAIN obuf : obuf[a] = d

\* A path is written past the end of port_str only for a device behind six hubs,
\* the most USB allows, at ports of two digits: any shorter path fits.
PathsInside ==
  \A d \in outside :
    Len(devs[d].ports) >= 7 /\ \E p \in DOMAIN devs[d].ports : devs[d].ports[p] > 1
=============================================================================
