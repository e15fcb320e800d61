------------------------------- MODULE KeyIrq -------------------------------
(***************************************************************************)
(* driver/atk_irq/imx6_irq.c: a key whose edges raise an interrupt.  The   *)
(* handler arms a 10 ms timer, the timer samples the pin into two separate *)
(* atomics, keyvalue and releasekey, and read() consumes them.  Handler,   *)
(* timer function, readers and module unloading interleave at every access *)
(* to the shared words, as they do on a multiprocessor.                    *)
(* The 10 ms are not modelled: an armed timer may fire at any moment, and  *)
(* mod_timer on an armed timer leaves it armed.                            *)
(***************************************************************************)
EXTENDS Naturals, FiniteSets

CONSTANTS
  Reader,     \* the processes that read the device
  MaxPress    \* bound: how often the key is pressed

ASSUME ReaderAssumption == IsFiniteSet(Reader)
ASSUME PressAssumption == MaxPress \in Nat

(* The values of keyvalue: INVAKEY (0xFF) at start, KEY0VALUE (0x01) for a *)
(* key held down and 0x80 | KEY0VALUE for a released one.                  *)
KeyValue == {"INVAKEY", "down", "released"}
TopBit(v) == v \in {"INVAKEY", "released"}      \* v & 0x80

VARIABLES
  level,       \* the pin: 0 while the key is held down, 1 otherwise
  presses,     \* presses so far
  edge,        \* an edge the interrupt controller has latched
  armed,       \* the timer is pending
  tpc,         \* the timer function: not running, sampled 0 or 1, or about to set releasekey
  keyvalue, releasekey,
  rpc,         \* each reader: idle, or the next access of its read()
  seen,        \* the keyvalue each reader has loaded
  life,        \* the module: request_irq done, up, timer deleted, irq freed; or a kernel oops
  lateEdge,    \* history: the handler ran after del_timer_sync
  releases,    \* history: how often the timer set releasekey
  delivered    \* history: for each reader, the values read() returned, by number

vars == <<level, presses, edge, armed, tpc, keyvalue, releasekey, rpc, seen, life,
          lateEdge, releases, delivered>>

key == <<level, presses>>
words == <<keyvalue, releasekey>>
reads == <<rpc, seen, delivered>>

TypeOK ==
  /\ level \in {0, 1} /\ presses \in 0 .. MaxPress
  /\ edge \in BOOLEAN /\ armed \in BOOLEAN /\ lateEdge \in BOOLEAN
  /\ tpc \in {"idle", "sampled0", "sampled1", "mark"}
  /\ keyvalue \in KeyValue /\ releasekey \in {0, 1}
  /\ rpc \in [Reader -> {"idle", "release", "clear"}]
  /\ seen \in [Reader -> KeyValue]
  /\ life \in {"irq", "up", "stopped", "gone", "oops"}
  /\ releases \in Nat
  /\ delivered \in [Reader -> [{"INVAKEY", "released"} -> Nat]]

(* imx6uirq_init up to request_irq: the words are set before the interrupt *)
(* is requested, and the interrupt before the timer is initialised.        *)
Init ==
  /\ level = 1 /\ presses = 0 /\ edge = FALSE
  /\ armed = FALSE /\ tpc = "idle"
  /\ keyvalue = "INVAKEY" /\ releasekey = 0
  /\ rpc = [r \in Reader |-> "idle"]
  /\ seen = [r \in Reader |-> "INVAKEY"]
  /\ life = "irq" /\ lateEdge = FALSE
  /\ releases = 0
  /\ delivered = [r \in Reader |-> [v \in {"INVAKEY", "released"} |-> 0]]
-----------------------------------------------------------------------------
(* The finger; both edges of the pin raise the interrupt. *)
Press ==
  /\ level = 1 /\ presses < MaxPress
  /\ level' = 0 /\ presses' = presses + 1 /\ edge' = (life # "gone")
  /\ UNCHANGED <<armed, tpc, words, reads, life, lateEdge, releases>>

Lift ==
  /\ level = 0
  /\ level' = 1 /\ edge' = (life # "gone")
  /\ UNCHANGED <<presses, armed, tpc, words, reads, life, lateEdge, releases>>

(* Mutant: the handler leaves the timer alone while its function runs. *)
key0_handler_skips ==
  /\ edge /\ life \in {"irq", "up", "stopped"}
  /\ edge' = FALSE
  /\ armed' = (life # "irq" /\ (armed \/ tpc = "idle"))
  /\ life' = IF life = "irq" THEN "oops" ELSE life
  /\ lateEdge' = (lateEdge \/ life = "stopped")
  /\ UNCHANGED <<key, tpc, words, reads, releases>>

(* key0_handler: (re)start the debounce timer.  An edge that comes after   *)
(* request_irq and before init_timer finds a timer without a function, on  *)
(* which mod_timer is a kernel BUG.                                        *)
key0_handler ==
  /\ edge /\ life \in {"irq", "up", "stopped"}
  /\ edge' = FALSE
  /\ armed' = (life # "irq")
  /\ life' = IF life = "irq" THEN "oops" ELSE life
  /\ lateEdge' = (lateEdge \/ life = "stopped")
  /\ UNCHANGED <<key, tpc, words, reads, releases>>

(* timer_function: sample the pin, then store what was sampled; a released *)
(* key needs two stores, keyvalue first.  The timer is no longer pending   *)
(* while its function runs, and the function does not run twice at a time. *)
Sample ==
  /\ armed /\ tpc = "idle"
  /\ armed' = FALSE
  /\ tpc' = IF level = 0 THEN "sampled0" ELSE "sampled1"
  /\ UNCHANGED <<key, edge, words, reads, life, lateEdge, releases>>

StoreValue ==
  /\ \/ /\ tpc = "sampled0"
        /\ keyvalue' = "down" /\ tpc' = "idle"
     \/ /\ tpc = "sampled1"
        /\ keyvalue' = "released" /\ tpc' = "mark"
  /\ UNCHANGED <<key, edge, armed, releasekey, reads, life, lateEdge, releases>>

StoreRelease ==
  /\ tpc = "mark"
  /\ releasekey' = 1 /\ tpc' = "idle"
  /\ releases' = releases + 1
  /\ UNCHANGED <<key, edge, armed, keyvalue, reads, life, lateEdge>>
-----------------------------------------------------------------------------
(* imx6uirq_read: load keyvalue, load releasekey and fail with EINVAL      *)
(* unless a release is marked and keyvalue has its top bit, copy the value *)
(* to the caller and clear the mark.                                       *)
LoadValue(r) ==
  /\ rpc[r] = "idle" /\ life \notin {"gone", "oops"}
  /\ rpc' = [rpc EXCEPT ![r] = "release"]
  /\ seen' = [seen EXCEPT ![r] = keyvalue]
  /\ UNCHANGED <<key, edge, armed, tpc, words, life, lateEdge, releases, delivered>>

LoadRelease(r) ==
  /\ rpc[r] = "release" /\ life # "oops"
  /\ rpc' = [rpc EXCEPT ![r] = IF releasekey = 1 /\ TopBit(seen[r]) THEN "clear" ELSE "idle"]
  /\ UNCHANGED <<key, edge, armed, tpc, words, seen, life, lateEdge, releases, delivered>>

(* Mutant: the mark is not cleared. *)
ClearRelease_keeps(r) ==
  /\ rpc[r] = "clear" /\ life # "oops"
  /\ rpc' = [rpc EXCEPT ![r] = "idle"]
  /\ delivered' = [delivered EXCEPT ![r][seen[r]] = IF @ < MaxPress + 2 THEN @ + 1 ELSE @]
  /\ UNCHANGED <<key, edge, armed, tpc, words, seen, life, lateEdge, releases>>

ClearRelease(r) ==
  /\ rpc[r] = "clear" /\ life # "oops"
  /\ rpc' = [rpc EXCEPT ![r] = "idle"]
  /\ releasekey' = 0
  /\ delivered' = [delivered EXCEPT ![r][seen[r]] = @ + 1]
  /\ UNCHANGED <<key, edge, armed, tpc, keyvalue, seen, life, lateEdge, releases>>
-----------------------------------------------------------------------------
(* The end of keyio_init. *)
InitTimer ==
  /\ life = "irq"
  /\ life' = "up"
  /\ UNCHANGED <<key, edge, armed, tpc, words, reads, lateEdge, releases>>

(* Mutant: del_timer, which does not wait for a running timer function. *)
DelTimer_async ==
  /\ life = "up" /\ \A r \in Reader : rpc[r] = "idle"
  /\ life' = "stopped" /\ armed' = FALSE
  /\ UNCHANGED <<key, edge, tpc, words, reads, lateEdge, releases>>

(* imx6uirq_exit, once nobody is inside the device: del_timer_sync waits   *)
(* for the timer function and removes a pending timer; free_irq comes      *)
(* after it.                                                               *)
DelTimerSync ==
  /\ life = "up" /\ \A r \in Reader : rpc[r] = "idle"
  /\ tpc = "idle"
  /\ life' = "stopped" /\ armed' = FALSE
  /\ UNCHANGED <<key, edge, tpc, words, reads, lateEdge, releases>>

FreeIrq ==
  /\ life = "stopped" /\ \A r \in Reader : rpc[r] = "idle"
  /\ life' = "gone" /\ edge' = FALSE
  /\ UNCHANGED <<key, armed, tpc, words, reads, lateEdge, releases>>

Timer == Sample \/ StoreValue \/ StoreRelease
Read(r) == LoadValue(r) \/ LoadRelease(r) \/ ClearRelease(r)

Next ==
  \/ Press \/ Lift
  \/ key0_handler \/ Timer
  \/ \E r \in Reader : Read(r)
  \/ InitTimer \/ DelTimerSync \/ FreeIrq

Spec == Init /\ [][Next]_vars

(* The interrupt is served, timers fire, readers poll, and a key that is   *)
(* held down is let go in the end.                                         *)
Fairness ==
  /\ WF_vars(Lift) /\ WF_vars(key0_handler)
  /\ WF_vars(Timer) /\ WF_vars(InitTimer)
  /\ \A r \in Reader : WF_vars(Read(r))

FairSpec == Spec /\ Fairness
-----------------------------------------------------------------------------
Quiet == ~edge /\ ~armed /\ tpc = "idle"

(* However edges, timer runs and reads interleave, once the driver is at   *)
(* rest keyvalue shows the pin: the last sample was taken after the last   *)
(* edge, even when that edge came while the timer function was running.    *)
AtRestShowsPin ==
  life = "up" /\ Quiet /\ presses > 0 => keyvalue = IF level = 0 THEN "down" ELSE "released"

(* No reader is told of more releases than there were, although the mark   *)
(* is loaded and cleared in two steps that the timer and other readers can *)
(* come between.                                                           *)
NoPhantomRelease ==
  \A r \in Reader : delivered[r]["released"] + delivered[r]["INVAKEY"] <= releases

(* After the module has gone a timer can still be pending or running only  *)
(* if an edge came between del_timer_sync and free_irq.                    *)
OrphanNeedsLateEdge ==
  life = "gone" /\ (armed \/ tpc # "idle") => lateEdge

(* A marked release is read in the end: a reader that loads a stale        *)
(* keyvalue, or the value of a newer press, fails but finds it later.      *)
ReleaseIsRead == releasekey = 1 ~> releasekey = 0 \/ life # "up"

(* imx6_irq.c:42 calls INVAKEY the invalid key value: it is not a key that *)
(* read() reports.                                                         *)
InvalidNeverRead == \A r \in Reader : delivered[r]["INVAKEY"] = 0
=============================================================================
