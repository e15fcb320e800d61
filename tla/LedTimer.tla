------------------------------ MODULE LedTimer ------------------------------
(***************************************************************************)
(* driver/timer/timer.c: a LED blinked by a kernel timer that re-arms      *)
(* itself.  Processes open the device and drive the timer with ioctls; the *)
(* timer function runs on its own.  The spin lock guards only the period:  *)
(* reading it and arming the timer with it are two steps, in the ioctls    *)
(* and in the timer function.  The device has no release operation, so the *)
(* timer outlives the file that started it.                                *)
(* Time is abstracted: an armed timer may expire at any moment, and        *)
(* armedFor is the delay it was armed with.                                *)
(***************************************************************************)
EXTENDS Integers

CONSTANTS
  Proc,          \* processes using the device
  Period,        \* the periods SETPERIOD_CMD is called with
  DefaultPeriod, \* the 1000 ms of timer_open
  MaxCmd         \* bound: opens and ioctls made in all

ASSUME PeriodAssumption == DefaultPeriod \in Period
ASSUME CmdAssumption == MaxCmd \in Nat

VARIABLES
  period,     \* timerdev.timerperiod
  pending, armedFor,
  fpc,        \* the timer function: idle, LED toggled, period loaded
  loaded,     \* the period the timer function has loaded
  sta, led,   \* the static toggle of timer_function, and the pin
  files,      \* processes that have the device open
  pc, local,  \* each process: idle or about to arm; its local timerperiod
  module,     \* the module: up, exiting (LED switched off), gone
  want,       \* history: the effect of the last command on the timer
  cmds        \* opens and ioctls so far

timer == <<pending, armedFor, fpc, loaded>>
light == <<sta, led>>
procs == <<files, pc, local>>
timerVars == <<period, timer, light, procs, module, want, cmds>>

TimerTypeOK ==
  /\ period \in Period /\ armedFor \in Period /\ loaded \in Period
  /\ pending \in BOOLEAN
  /\ fpc \in {"idle", "toggled", "rearm"}
  /\ sta \in {-1, 0, 1} /\ led \in {0, 1}
  /\ files \subseteq Proc
  /\ pc \in [Proc -> {"idle", "arm"}] /\ local \in [Proc -> Period]
  /\ module \in {"up", "exiting", "gone"}
  /\ want \in {"off", "on"}
  /\ cmds \in 0 .. MaxCmd

(* timer_init, with the pin as timer_open will first set it. *)
timer_init ==
  /\ period = DefaultPeriod /\ armedFor = DefaultPeriod /\ loaded = DefaultPeriod
  /\ pending = FALSE /\ fpc = "idle"
  /\ sta = -1 /\ led = 1
  /\ files = {}
  /\ pc = [p \in Proc |-> "idle"] /\ local = [p \in Proc |-> DefaultPeriod]
  /\ module = "up" /\ want = "off" /\ cmds = 0

Count == cmds < MaxCmd /\ cmds' = cmds + 1
-----------------------------------------------------------------------------
(* timer_open: the period and the pin are reset whoever is using them. *)
Open(p) ==
  /\ module = "up" /\ p \notin files /\ Count
  /\ files' = files \cup {p}
  /\ period' = DefaultPeriod /\ led' = 1
  /\ UNCHANGED <<timer, sta, pc, local, module, want>>

(* close(): there is no release operation. *)
CloseFile(p) ==
  /\ p \in files /\ pc[p] = "idle"
  /\ files' = files \ {p}
  /\ UNCHANGED <<period, timer, light, pc, local, module, want, cmds>>

(* ioctl OPEN_CMD: the period is read under the lock. *)
OpenCmd(p) ==
  /\ p \in files /\ pc[p] = "idle" /\ Count
  /\ local' = [local EXCEPT ![p] = period]
  /\ pc' = [pc EXCEPT ![p] = "arm"]
  /\ UNCHANGED <<period, timer, light, files, module, want>>

(* ioctl SETPERIOD_CMD: the period is written under the lock. *)
SetPeriodCmd(p, v) ==
  /\ p \in files /\ pc[p] = "idle" /\ Count
  /\ period' = v
  /\ local' = [local EXCEPT ![p] = v]
  /\ pc' = [pc EXCEPT ![p] = "arm"]
  /\ UNCHANGED <<timer, light, files, module, want>>

(* Both go on with mod_timer, outside the lock. *)
ArmByCmd(p) ==
  /\ pc[p] = "arm"
  /\ pending' = TRUE /\ armedFor' = local[p] /\ want' = "on"
  /\ pc' = [pc EXCEPT ![p] = "idle"]
  /\ UNCHANGED <<period, fpc, loaded, light, files, local, module, cmds>>

(* Mutant: del_timer, which does not wait for the timer function. *)
CloseCmd_async(p) ==
  /\ p \in files /\ pc[p] = "idle" /\ Count
  /\ pending' = FALSE /\ want' = "off"
  /\ UNCHANGED <<period, armedFor, fpc, loaded, light, procs, module>>

(* ioctl CLOSE_CMD: del_timer_sync waits for a running timer function and  *)
(* removes the timer it has re-armed.                                      *)
CloseCmd(p) ==
  /\ p \in files /\ pc[p] = "idle" /\ fpc = "idle" /\ Count
  /\ pending' = FALSE /\ want' = "off"
  /\ UNCHANGED <<period, armedFor, fpc, loaded, light, procs, module>>
-----------------------------------------------------------------------------
(* timer_function: toggle the LED, load the period, arm the timer again.   *)
(* The static sta starts at -1, and !sta of any value but 0 is 0.          *)
Expire ==
  /\ pending /\ fpc = "idle"
  /\ pending' = FALSE /\ fpc' = "toggled"
  /\ sta' = (IF sta = 0 THEN 1 ELSE 0) /\ led' = sta'
  /\ UNCHANGED <<period, armedFor, loaded, procs, module, want, cmds>>

(* Mutant: the timer goes on with the delay it had. *)
LoadPeriod_stale ==
  /\ fpc = "toggled"
  /\ loaded' = armedFor /\ fpc' = "rearm"
  /\ UNCHANGED <<period, pending, armedFor, light, procs, module, want, cmds>>

LoadPeriod ==
  /\ fpc = "toggled"
  /\ loaded' = period /\ fpc' = "rearm"
  /\ UNCHANGED <<period, pending, armedFor, light, procs, module, want, cmds>>

(* Mutant: the timer is not armed again. *)
Rearm_missing ==
  /\ fpc = "rearm"
  /\ fpc' = "idle"
  /\ UNCHANGED <<period, pending, armedFor, loaded, light, procs, module, want, cmds>>

Rearm ==
  /\ fpc = "rearm"
  /\ pending' = TRUE /\ armedFor' = loaded /\ fpc' = "idle"
  /\ UNCHANGED <<period, loaded, light, procs, module, want, cmds>>
-----------------------------------------------------------------------------
(* timer_exit, which module reference counting keeps until every file is   *)
(* closed: the LED is switched off first, then the timer is deleted.       *)
ExitLedOff ==
  /\ module = "up" /\ files = {}
  /\ module' = "exiting" /\ led' = 1
  /\ UNCHANGED <<period, timer, sta, procs, want, cmds>>

ExitDelTimer ==
  /\ module = "exiting" /\ fpc = "idle"
  /\ module' = "gone" /\ pending' = FALSE /\ want' = "off"
  /\ UNCHANGED <<period, armedFor, fpc, loaded, light, procs, cmds>>

timer_function == Expire \/ LoadPeriod \/ Rearm

Command(p) ==
  \/ Open(p) \/ CloseFile(p) \/ OpenCmd(p) \/ CloseCmd(p) \/ ArmByCmd(p)
  \/ \E v \in Period : SetPeriodCmd(p, v)

TimerNext == timer_function \/ (\E p \in Proc : Command(p)) \/ ExitLedOff \/ ExitDelTimer

TimerSpec == timer_init /\ [][TimerNext]_timerVars

(* Timers expire, and a command that has begun is finished. *)
TimerFairness == WF_timerVars(timer_function) /\ \A p \in Proc : WF_timerVars(ArmByCmd(p))

FairTimerSpec == TimerSpec /\ TimerFairness
-----------------------------------------------------------------------------
(* When the last command stopped the timer (CLOSE_CMD, or the module's     *)
(* exit), it is neither pending nor running: the timer function that       *)
(* re-arms itself does not slip past the deletion.                         *)
OffMeansOff == want = "off" => ~pending /\ fpc = "idle"

(* When the last command started the timer, it is pending or will be:      *)
(* no interleaving of commands and expiries loses it.                      *)
OnMeansArmed == want = "on" => pending \/ fpc # "idle"

(* A command that read the period before another one changed it can arm    *)
(* the timer with the old one, and so can the timer function; but once the *)
(* commands stop, the timer runs with the period that was set last.        *)
PeriodSettles == <>[](pending => armedFor = period)

(* A timer that stays on keeps blinking. *)
KeepsBlinking == <>[](want = "on") => []<>(led = 0) /\ []<>(led = 1)
=============================================================================
