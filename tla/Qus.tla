--------------------------------- MODULE Qus ---------------------------------
(***************************************************************************)
(* Probe and disconnect of the USB storage driver (qus/qus.c).  The driver *)
(* structure is counted by a kref and owns two references, a buffer and a  *)
(* URB; the interface points to it.  The USB core serialises the calls.    *)
(* The device node has no operations of its own: an open file uses the     *)
(* structure no further.                                                   *)
(***************************************************************************)
EXTENDS Integers

VARIABLES
  qpc,        \* where probe or disconnect is
  kref,       \* references to the structure; 0: freed or not allocated
  owns,       \* of {"dev", "intf", "buf", "urb"}: what is not released
  intfdata,   \* usb_get_intfdata(intf) is not NULL
  minor,      \* the device node is registered
  usbBound    \* probe has returned 0

qusVars == <<qpc, kref, owns, intfdata, minor, usbBound>>

QusInit ==
  /\ qpc = "rest" /\ kref = 0 /\ owns = {} /\ intfdata = FALSE /\ minor = FALSE
  /\ usbBound = FALSE

Moves(from, to) == qpc = from /\ qpc' = to

-----------------------------------------------------------------------------
(* qus_probe; kzalloc failing returns -ENOMEM and changes nothing.         *)

qus_probe ==
  /\ Moves("rest", "endpoints") /\ ~usbBound
  /\ kref' = 1 /\ owns' = owns \cup {"dev", "intf"}
  /\ UNCHANGED <<intfdata, minor, usbBound>>

find_endpoints ==
  /\ Moves("endpoints", "buf") \/ Moves("endpoints", "error")
  /\ UNCHANGED <<kref, owns, intfdata, minor, usbBound>>

AllocQus(what, to) ==
  /\ \/ Moves(what, to) /\ owns' = owns \cup {what}
     \/ Moves(what, "error") /\ UNCHANGED owns
  /\ UNCHANGED <<kref, intfdata, minor, usbBound>>

(* usb_set_intfdata and usb_register_dev, which clears it when it fails.   *)
register_dev ==
  /\ \/ Moves("register", "control") /\ minor' = TRUE /\ intfdata' = TRUE
     \/ Moves("register", "error") /\ intfdata' = FALSE /\ UNCHANGED minor
  /\ UNCHANGED <<kref, owns, usbBound>>

(* __test_control_endpoint, whose result probe ignores.                    *)
test_control_endpoint ==
  /\ Moves("control", "rest") /\ usbBound' = TRUE
  /\ UNCHANGED <<kref, owns, intfdata, minor>>

DelLeaksUrb == owns' = owns \cap {"urb"}

(* qus_del, which also frees what was never allocated.                     *)
qus_del == owns' = {}

(* The end of both: the last reference releases everything.                *)
kref_put ==
  /\ Moves("error", "rest")
  /\ kref' = kref - 1
  /\ IF kref = 1 THEN qus_del ELSE UNCHANGED owns
  /\ UNCHANGED <<intfdata, minor, usbBound>>

(* qus_disconnect up to kref_put.                                          *)
qus_disconnect ==
  /\ Moves("rest", "kill") /\ usbBound /\ usbBound' = FALSE
  /\ intfdata' = FALSE /\ minor' = FALSE
  /\ UNCHANGED <<kref, owns>>

usb_kill_urb ==
  /\ Moves("kill", "error")
  /\ UNCHANGED <<kref, owns, intfdata, minor, usbBound>>

QusNext ==
  \/ qus_probe \/ find_endpoints \/ AllocQus("buf", "urb")
  \/ AllocQus("urb", "register") \/ register_dev \/ test_control_endpoint
  \/ qus_disconnect \/ usb_kill_urb \/ kref_put

QusSpec == QusInit /\ [][QusNext]_qusVars

-----------------------------------------------------------------------------
(* When the driver is not bound, after a failure anywhere in probe or a    *)
(* disconnect, everything has been released and nothing points to it; when *)
(* it is bound, everything is there.                                       *)
QusReleased ==
  qpc = "rest" => /\ ~usbBound => kref = 0 /\ owns = {} /\ ~intfdata /\ ~minor
                  /\ usbBound => kref = 1 /\ owns = {"dev", "intf", "buf", "urb"}

(* Whoever finds the structure through the interface or the device node    *)
(* finds it alive, with its URB and buffer.                                *)
QusDataAlive ==
  intfdata \/ minor => kref > 0 /\ {"buf", "urb"} \subseteq owns
=============================================================================
