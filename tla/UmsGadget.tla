----------------------------- MODULE UmsGadget -----------------------------
(***************************************************************************)
(* fs-overlay: the USB mode of the board.  usb_mode.sh and the init script *)
(* S02ums run ums.sh and acm.sh one command at a time; the kernel runs     *)
(* ums_hotplug.sh for every USB event, in a process of its own that waits  *)
(* for nobody.  The image /userdata/ums.img is exported to the USB host    *)
(* (the lun file names it) or mounted on the board, and the scripts keep   *)
(* the two apart with a test and an action in separate steps.              *)
(* Building a gadget directory is one step: only the script that made it   *)
(* works inside it.  Every command of start, stop, enable, disable and     *)
(* update may fail, which ends the script part way (run ... || exit 1).    *)
(* What the kernel does is modelled from how the scripts use it: gadgets   *)
(* outlive an unmount of configfs, a gadget can be bound while its         *)
(* function is linked, and unlinking from a bound gadget unbinds it.       *)
(***************************************************************************)
EXTENDS Naturals, FiniteSets

CONSTANTS
  Op,         \* the process of the operator, and of the init script
  Helper,     \* bound: the hotplug helpers that run at a time
  MaxCmds,    \* bound: commands the operator gives
  MaxEvents   \* bound: changes of the USB state

ASSUME ProcAssumption == Op \notin Helper
ASSUME BoundAssumption == MaxCmds \in Nat /\ MaxEvents \in Nat

Proc == {Op} \cup Helper
Gadget == {"rockchip", "acm_gadget"}

(* "rc" is S02ums, which runs at boot and, since it does not look at its   *)
(* argument, once more when rcK calls it with "stop".                      *)
Command == {"rc", "ums_en", "ums_enable", "ums_disable", "ums_stop", "acm_en", "acm_stop"}

VARIABLES
  configfs,   \* configfs is mounted
  gadgets,    \* the gadget directories that exist
  functions,  \* the gadgets whose function directory exists
  linked,     \* the gadgets whose function is linked into their configuration
  udc,        \* the gadget bound to the USB controller, or "none"
  lun,        \* lun.0/file names the image: it is exported
  local,      \* how many times the image is mounted on /userdata/ums
  usb,        \* the state of the USB device
  hotplug,    \* /proc/sys/kernel/hotplug names ums_hotplug.sh
  config,     \* /tmp/.usb_config
  cmd,        \* the operator's command
  pc,         \* what each process does next
  cmds, events, \* commands given and USB changes so far
  broken,     \* history: the gadgets a stop of which failed since .usb_config was written
  overlap,    \* history: two processes worked on the image at a time
  excused     \* history: since the last event or update, a step on the image failed or was given by hand

vars == <<configfs, gadgets, functions, linked, udc, lun, local, usb, hotplug, config, cmd,
          pc, cmds, events, broken, overlap, excused>>
host == <<usb, events>>
image == <<lun, local>>
dirs == <<gadgets, functions, linked>>
tree == <<configfs, dirs, udc>>
oper == <<hotplug, config, cmd, cmds, broken>>

(* The steps of enable, disable and the end of update. *)
LunStep == {"read", "enable.test", "enable.umount", "enable.set",
            "disable.clear", "disable.test", "disable.mount"}
Stage == LunStep \cup {"idle", "mount", "build", "bind", "register", "config",
                       "find", "unlink", "remove", "umount"}

TypeOK ==
  /\ configfs \in BOOLEAN /\ udc \in Gadget \cup {"none"}
  /\ gadgets \subseteq Gadget /\ functions \subseteq Gadget /\ linked \subseteq Gadget
  /\ lun \in BOOLEAN /\ local \in Nat
  /\ usb \in {"DISCONNECTED", "CONNECTED", "CONFIGURED"}
  /\ hotplug \in BOOLEAN /\ config \in {"", "ums", "acm"}
  /\ cmd \in Command /\ pc \in [Proc -> Stage]
  /\ cmds \in 0 .. MaxCmds /\ events \in 0 .. MaxEvents
  /\ broken \subseteq Gadget /\ overlap \in BOOLEAN /\ excused \in BOOLEAN

(* Power-on: S02ums is about to run. *)
Init ==
  /\ configfs = FALSE /\ gadgets = {} /\ functions = {} /\ linked = {} /\ udc = "none"
  /\ lun = FALSE /\ local = 0
  /\ usb = "DISCONNECTED" /\ hotplug = FALSE /\ config = ""
  /\ cmd = "rc" /\ pc = [p \in Proc |-> IF p = Op THEN "mount" ELSE "idle"]
  /\ cmds = 0 /\ events = 0
  /\ broken = {} /\ overlap = FALSE /\ excused = FALSE
-----------------------------------------------------------------------------
Goto(p, stage) == pc' = [pc EXCEPT ![p] = stage]

(* A script fails: usb_mode.sh and ums_hotplug.sh end, S02ums goes on.     *)
Fail(p, stage) == Goto(p, IF p = Op /\ cmd = "rc" THEN stage ELSE "idle")

(* What follows enable and disable. *)
Done(p) == Goto(p, IF p = Op /\ cmd = "ums_en" THEN "config" ELSE "idle")

Working(p) == pc[p] \in LunStep

(* p starts to work on the image. *)
Starts(p) == overlap' = (overlap \/ \E q \in Proc \ {p} : Working(q))

Own == IF cmd \in {"acm_en", "acm_stop"} THEN "acm_gadget" ELSE "rockchip"

(* The lun file can be written: configfs shows it. *)
LunFile == configfs /\ "rockchip" \in functions

(* The gadget of the command can be bound. *)
Bindable == configfs /\ Own \in linked /\ udc = "none"
-----------------------------------------------------------------------------
(* usb_mode.sh with one of its arguments, or rcK; only one command runs at *)
(* a time.                                                                 *)
Give(c) ==
  /\ pc[Op] = "idle" /\ cmds < MaxCmds
  /\ cmds' = cmds + 1 /\ cmd' = c
  /\ Goto(Op, CASE c \in {"rc", "ums_en", "acm_en"} -> "mount"
                [] c \in {"ums_stop", "acm_stop"} -> "find"
                [] c = "ums_enable" -> "enable.test"
                [] c = "ums_disable" -> "disable.clear")
  /\ IF c \in {"ums_enable", "ums_disable"}
     THEN Starts(Op) /\ excused' = TRUE
     ELSE UNCHANGED <<overlap, excused>>
  /\ UNCHANGED <<tree, image, host, hotplug, config, broken>>

(* start: refuse if configfs is mounted; mount it. *)
Mount ==
  /\ pc[Op] = "mount"
  /\ \/ ~configfs /\ configfs' = TRUE /\ Goto(Op, "build")
     \/ configfs' = configfs /\ Fail(Op, "bind")
  /\ UNCHANGED <<dirs, udc, image, host, oper, overlap, excused>>

(* start: mkdir of the gadget fails if it has survived an unmount; what a  *)
(* failure leaves has no linked function, since ln -s comes last.          *)
Build ==
  /\ pc[Op] = "build"
  /\ \/ /\ Own \notin gadgets
        /\ gadgets' = gadgets \cup {Own} /\ functions' = functions \cup {Own}
        /\ linked' = linked \cup {Own}
        /\ Goto(Op, "bind")
     \/ /\ gadgets' \in {gadgets, gadgets \cup {Own}}
        /\ functions' \in {functions, functions \cup (gadgets' \ gadgets)}
        /\ linked' = linked
        /\ Fail(Op, "bind")
  /\ UNCHANGED <<configfs, udc, image, host, oper, overlap, excused>>

(* Mutant: the outcome of writing UDC is not looked at. *)
Bind_unchecked ==
  /\ pc[Op] = "bind"
  /\ udc' = IF Bindable THEN Own ELSE udc
  /\ Goto(Op, IF cmd = "acm_en" THEN "config" ELSE "register")
  /\ UNCHANGED <<configfs, dirs, image, host, oper, overlap, excused>>

(* bind: writing UDC fails if the controller or the gadget is taken. *)
Bind ==
  /\ pc[Op] = "bind"
  /\ \/ /\ Bindable
        /\ udc' = Own
        /\ Goto(Op, IF cmd = "acm_en" THEN "config" ELSE "register")
     \/ udc' = udc /\ Fail(Op, "register")
  /\ UNCHANGED <<configfs, dirs, image, host, oper, overlap, excused>>

(* The hotplug helper is named before the USB state is read; update then   *)
(* makes the image and its directory if they are missing.                  *)
Register ==
  /\ pc[Op] = "register"
  /\ hotplug' = TRUE
  /\ Goto(Op, "read") /\ Starts(Op)
  /\ UNCHANGED <<tree, image, host, config, cmd, cmds, broken, excused>>

(* The end of ums_en, acm_en, ums_stop and acm_stop. *)
Config ==
  /\ pc[Op] = "config"
  /\ config' = CASE cmd = "ums_en" -> "ums" [] cmd = "acm_en" -> "acm" [] OTHER -> ""
  /\ broken' = {}
  /\ Goto(Op, "idle")
  /\ UNCHANGED <<tree, image, host, hotplug, cmd, cmds, overlap, excused>>
-----------------------------------------------------------------------------
(* stop: without a gadget directory to see, only configfs is unmounted. *)
Find ==
  /\ pc[Op] = "find"
  /\ Goto(Op, IF configfs /\ Own \in gadgets THEN "unlink"
              ELSE IF configfs THEN "umount" ELSE "config")
  /\ UNCHANGED <<tree, image, host, oper, overlap, excused>>

(* A command of stop fails, and usb_mode.sh ends before .usb_config. *)
StopFails == Goto(Op, "idle") /\ broken' = broken \cup {Own}

(* stop: the links are removed, which unbinds the gadget.  Only ums.sh has *)
(* an os_desc link that can be gone when removing the function's fails.    *)
Unlink ==
  /\ pc[Op] = "unlink"
  /\ LET unbound == IF udc = Own THEN "none" ELSE udc
     IN  \/ /\ udc' = unbound /\ linked' = linked \ {Own}
            /\ Goto(Op, "remove") /\ UNCHANGED broken
         \/ /\ udc' \in {udc} \cup (IF Own = "rockchip" THEN {unbound} ELSE {})
            /\ linked' = linked
            /\ StopFails
  /\ UNCHANGED <<configfs, gadgets, functions, image, host, hotplug, config, cmd, cmds, overlap, excused>>

(* Mutant: the functions, and with them the lun, are left alone. *)
Remove_dirOnly ==
  /\ pc[Op] = "remove"
  /\ gadgets' = gadgets \ {Own}
  /\ Goto(Op, "umount")
  /\ UNCHANGED <<configfs, functions, linked, udc, image, host, oper, overlap, excused>>

(* stop: the functions, the lun with its own, and the gadget are removed.  *)
Remove ==
  /\ pc[Op] = "remove"
  /\ \/ /\ gadgets' = gadgets \ {Own} /\ functions' = functions \ {Own}
        /\ Goto(Op, "umount") /\ UNCHANGED broken
     \/ /\ gadgets' = gadgets /\ functions' \in {functions, functions \ {Own}}
        /\ StopFails
  /\ lun' = (lun /\ "rockchip" \in functions')
  /\ UNCHANGED <<configfs, linked, udc, local, host, hotplug, config, cmd, cmds, overlap, excused>>

Unmount ==
  /\ pc[Op] = "umount"
  /\ \/ configfs' = FALSE /\ Goto(Op, "config") /\ UNCHANGED broken
     \/ configfs' = configfs /\ StopFails
  /\ UNCHANGED <<dirs, udc, image, host, hotplug, config, cmd, cmds, overlap, excused>>
-----------------------------------------------------------------------------
(* Mutant: update enables in every state but DISCONNECTED. *)
Read_connected ==
  /\ pc[Op] = "read"
  /\ Goto(Op, IF usb # "DISCONNECTED" THEN "enable.test" ELSE "disable.clear")
  /\ excused' = FALSE
  /\ UNCHANGED <<tree, image, host, oper, overlap>>

(* update: the USB state is read once, and acted on afterwards, unless the *)
(* directory or the image was missing and could not be made.               *)
Read ==
  /\ pc[Op] = "read"
  /\ \/ /\ Goto(Op, IF usb = "CONFIGURED" THEN "enable.test" ELSE "disable.clear")
        /\ excused' = FALSE
     \/ Goto(Op, "idle") /\ excused' = TRUE
  /\ UNCHANGED <<tree, image, host, oper, overlap>>

(* Mutant: enable does not look for a mounted image. *)
EnableTest_missing(p) ==
  /\ pc[p] = "enable.test"
  /\ Goto(p, "enable.set")
  /\ UNCHANGED <<tree, image, host, oper, overlap, excused>>

EnableTest(p) ==
  /\ pc[p] = "enable.test"
  /\ Goto(p, IF local > 0 THEN "enable.umount" ELSE "enable.set")
  /\ UNCHANGED <<tree, image, host, oper, overlap, excused>>

(* umount fails when the directory is in use, or already unmounted. *)
EnableUmount(p) ==
  /\ pc[p] = "enable.umount"
  /\ \/ /\ local > 0
        /\ local' = local - 1
        /\ Goto(p, "enable.set") /\ UNCHANGED excused
     \/ /\ Goto(p, "idle")
        /\ excused' = TRUE /\ UNCHANGED local
  /\ UNCHANGED <<tree, lun, host, oper, overlap>>

EnableSet(p) ==
  /\ pc[p] = "enable.set"
  /\ \/ /\ LunFile
        /\ lun' = TRUE
        /\ Done(p) /\ UNCHANGED excused
     \/ /\ Goto(p, "idle")
        /\ excused' = TRUE /\ UNCHANGED lun
  /\ UNCHANGED <<tree, local, host, oper, overlap>>

DisableClear(p) ==
  /\ pc[p] = "disable.clear"
  /\ \/ /\ LunFile
        /\ lun' = FALSE
        /\ Goto(p, "disable.test") /\ UNCHANGED excused
     \/ /\ Goto(p, "idle")
        /\ excused' = TRUE /\ UNCHANGED lun
  /\ UNCHANGED <<tree, local, host, oper, overlap>>

DisableTest(p) ==
  /\ pc[p] = "disable.test"
  /\ IF local > 0 THEN Done(p) ELSE Goto(p, "disable.mount")
  /\ UNCHANGED <<tree, image, host, oper, overlap, excused>>

DisableMount(p) ==
  /\ pc[p] = "disable.mount"
  /\ \/ /\ local' = local + 1
        /\ Done(p) /\ UNCHANGED excused
     \/ /\ Goto(p, "idle")
        /\ excused' = TRUE /\ UNCHANGED local
  /\ UNCHANGED <<tree, lun, host, oper, overlap>>
-----------------------------------------------------------------------------
(* ums_hotplug.sh looks only at CONFIGURED and DISCONNECTED. *)
Spawn(p, state) ==
  /\ pc[p] = "idle"
  /\ Goto(p, IF state = "CONFIGURED" THEN "enable.test" ELSE "disable.clear")
  /\ Starts(p) /\ excused' = FALSE

(* The host, the cable and the kernel.  A device that is not bound is not  *)
(* connected for long.                                                     *)
Connect ==
  /\ usb = "DISCONNECTED" /\ udc # "none" /\ events < MaxEvents
  /\ usb' = "CONNECTED" /\ events' = events + 1
  /\ UNCHANGED <<tree, image, oper, pc, overlap, excused>>

Configured ==
  /\ usb = "CONNECTED" /\ udc # "none" /\ events < MaxEvents
  /\ usb' = "CONFIGURED" /\ events' = events + 1
  /\ IF hotplug THEN \E p \in Helper : Spawn(p, "CONFIGURED") ELSE UNCHANGED <<pc, overlap, excused>>
  /\ UNCHANGED <<tree, image, oper>>

Disconnect ==
  /\ usb # "DISCONNECTED" /\ events < MaxEvents
  /\ usb' = "DISCONNECTED" /\ events' = events + 1
  /\ IF hotplug THEN \E p \in Helper : Spawn(p, "DISCONNECTED") ELSE UNCHANGED <<pc, overlap, excused>>
  /\ UNCHANGED <<tree, image, oper>>

ImageStep(p) ==
  \/ EnableTest(p) \/ EnableUmount(p) \/ EnableSet(p)
  \/ DisableClear(p) \/ DisableTest(p) \/ DisableMount(p)

OpStep ==
  \/ \E c \in Command : Give(c)
  \/ Mount \/ Build \/ Bind \/ Register \/ Read \/ Config
  \/ Find \/ Unlink \/ Remove \/ Unmount

Next ==
  \/ OpStep
  \/ \E p \in Proc : ImageStep(p)
  \/ Connect \/ Configured \/ Disconnect

Spec == Init /\ [][Next]_vars
-----------------------------------------------------------------------------
Settled == pc = [p \in Proc |-> "idle"]

(* The image is never exported and mounted at the same time, as long as no *)
(* two processes worked on it at a time.  Two that do can pass each        *)
(* other's test.                                                           *)
NeverTwiceInUse == lun /\ local > 0 => overlap

(* When everything has come to rest, the image is where the state of USB   *)
(* wants it: no event is lost between the registration of the helper and   *)
(* update, which reads the state only once.  Overlapping scripts, a failed *)
(* step and a command given by hand can leave it elsewhere.                *)
ImageFollowsUsb ==
  Settled /\ udc = "rockchip" /\ configfs /\ ~overlap /\ ~excused
    => /\ lun <=> (usb = "CONFIGURED")
       /\ local = IF usb = "CONFIGURED" THEN 0 ELSE 1

(* The image is exported only through a gadget that exists, with its       *)
(* function, whatever the order of commands and events: stop closes it,    *)
(* and a stop that fails part way does not leave it exported by nothing.   *)
ExportedByGadget == lun => "rockchip" \in gadgets \cap functions

(* Between commands .usb_config names a gadget that is not bound only if a *)
(* stop of that gadget has failed part way since the file was written:     *)
(* usb_mode.sh writes it last, and a failing rm, rmdir or umount ends the  *)
(* command before that, with the gadget unbound already or even gone.      *)
ConfigIsBound ==
  pc[Op] = "idle" =>
    /\ config = "ums" => udc = "rockchip" \/ "rockchip" \in broken
    /\ config = "acm" => udc = "acm_gadget" \/ "acm_gadget" \in broken
=============================================================================
