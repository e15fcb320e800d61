------------------------------ MODULE DevLock ------------------------------
(***************************************************************************)
(* driver/lock/lock.c: the gpioled character device, which only one opener *)
(* may have at a time.  The file is compiled with one of four macros; the  *)
(* variable variant, which never changes, names the build:                 *)
(*   "atomic"  ATOMIC_LOCK_T: an atomic counter, decremented and tested,   *)
(*             and incremented back by an opener that lost                 *)
(*   "spin"    SPIN_LOCK_T: the flag dev_stats under a spin lock           *)
(*   "sleep"   SEM_LOCK_T and MUTEX_LOCK_T: an interruptible sleeping      *)
(*             lock held for as long as the device is open                 *)
(* An Opener is an open file description, from led_open to led_release.    *)
(***************************************************************************)
EXTENDS Integers, FiniteSets

CONSTANTS
  Opener,    \* the file descriptions user space opens
  None       \* no opener

ASSUME OpenerAssumption == IsFiniteSet(Opener) /\ None \notin Opener

VARIABLES
  variant,   \* the lock the driver was compiled with
  word,      \* the atomic counter, dev_stats, or the count of the semaphore
  spin,      \* who is inside spin_lock_irqsave ... spin_unlock_irqrestore
  pc,        \* where each opener is
  led,       \* the level of the LED pin
  wrote      \* history: the level each opener last set since it opened

vars == <<variant, word, spin, pc, led, wrote>>

Level == {0, 1}
Place == {"closed", "backoff", "locked", "clear", "waiting", "open"}

Variants == {"atomic", "spin", "sleep"}

TypeOK ==
  /\ variant \in Variants
  /\ word \in -Cardinality(Opener) .. 1
  /\ spin \in Opener \cup {None}
  /\ pc \in [Opener -> Place]
  /\ led \in Level
  /\ wrote \in [Opener -> Level \cup {None}]

(* led_intt: the lock is initialised free and the pin is driven high. *)
Init ==
  /\ variant \in Variants
  /\ word = IF variant = "spin" THEN 0 ELSE 1
  /\ spin = None
  /\ pc = [p \in Opener |-> "closed"]
  /\ led = 1
  /\ wrote = [p \in Opener |-> None]

Goto(p, from, to) ==
  pc[p] = from /\ pc' = [pc EXCEPT ![p] = to] /\ UNCHANGED variant
-----------------------------------------------------------------------------
(* led_open, ATOMIC_LOCK_T: atomic_dec_and_test, then atomic_inc for the   *)
(* opener that did not bring the counter to zero.                          *)
OpenDec(p) ==
  /\ variant = "atomic"
  /\ Goto(p, "closed", IF word - 1 = 0 THEN "open" ELSE "backoff")
  /\ word' = word - 1
  /\ UNCHANGED <<spin, led, wrote>>

(* Mutant: the refused opener forgets its increment. *)
OpenIncDropped(p) ==
  /\ Goto(p, "backoff", "closed")
  /\ UNCHANGED <<word, spin, led, wrote>>

OpenInc(p) ==
  /\ Goto(p, "backoff", "closed")
  /\ word' = word + 1
  /\ UNCHANGED <<spin, led, wrote>>

(* led_open, SPIN_LOCK_T: lock, test dev_stats, increment it, unlock. *)
SpinLock(p) ==
  /\ variant = "spin"
  /\ spin = None
  /\ Goto(p, "closed", "locked")
  /\ spin' = p
  /\ UNCHANGED <<word, led, wrote>>

SpinTest(p) ==
  /\ Goto(p, "locked", IF word # 0 THEN "closed" ELSE "clear")
  /\ spin' = IF word # 0 THEN None ELSE spin
  /\ UNCHANGED <<word, led, wrote>>

SpinClaim(p) ==
  /\ Goto(p, "clear", "open")
  /\ word' = word + 1
  /\ spin' = None
  /\ UNCHANGED <<led, wrote>>

(* led_open, SEM_LOCK_T / MUTEX_LOCK_T: the opener sleeps until the lock   *)
(* is free; a signal ends the sleep and the open fails (-ERESTARTSYS).     *)
Sleep(p) ==
  /\ variant = "sleep"
  /\ Goto(p, "closed", "waiting")
  /\ UNCHANGED <<word, spin, led, wrote>>

(* Mutant: the sleeper that is woken does not take the lock. *)
WakeUncounted(p) ==
  /\ word > 0
  /\ Goto(p, "waiting", "open")
  /\ UNCHANGED <<word, spin, led, wrote>>

Wake(p) ==
  /\ word > 0
  /\ Goto(p, "waiting", "open")
  /\ word' = word - 1
  /\ UNCHANGED <<spin, led, wrote>>

Interrupt(p) ==
  /\ Goto(p, "waiting", "closed")
  /\ UNCHANGED <<word, spin, led, wrote>>
-----------------------------------------------------------------------------
(* led_write: LEDON drives the pin low, LEDOFF drives it high; any other   *)
(* byte leaves it alone (and this action stutters).                        *)
Write(p, v) ==
  /\ pc[p] = "open"
  /\ led' = v
  /\ wrote' = [wrote EXCEPT ![p] = v]
  /\ UNCHANGED <<variant, word, spin, pc>>

(* Mutant: led_release forgets the lock. *)
ReleaseKeepsLock(p) ==
  /\ Goto(p, "open", "closed")
  /\ variant = "spin" => spin = None
  /\ wrote' = [wrote EXCEPT ![p] = None]
  /\ UNCHANGED <<word, spin, led>>

(* led_release, for the variant the driver was compiled with.  The spin    *)
(* lock is taken and given back within the call, and the flag only goes    *)
(* down when it is set.                                                    *)
Release(p) ==
  /\ Goto(p, "open", "closed")
  /\ \/ /\ variant = "spin"
        /\ spin = None
        /\ word' = IF word # 0 THEN word - 1 ELSE word
     \/ /\ variant # "spin"
        /\ word' = word + 1
  /\ wrote' = [wrote EXCEPT ![p] = None]
  /\ UNCHANGED <<spin, led>>

OpenStep(p) ==
  \/ OpenDec(p) \/ OpenInc(p)
  \/ SpinLock(p) \/ SpinTest(p) \/ SpinClaim(p)
  \/ Sleep(p) \/ Wake(p) \/ Interrupt(p)

Next == \E p \in Opener : OpenStep(p) \/ (\E v \in Level : Write(p, v)) \/ Release(p)

Spec == Init /\ [][Next]_vars

(* Openers close in the end, the kernel finishes a led_open it has begun,  *)
(* and it does not pass over a sleeper for ever (its wait lists are FIFO). *)
Fairness ==
  \A p \in Opener :
    /\ WF_vars(OpenInc(p)) /\ WF_vars(SpinTest(p)) /\ WF_vars(SpinClaim(p))
    /\ SF_vars(Wake(p)) /\ SF_vars(Release(p))

FairSpec == Spec /\ Fairness
-----------------------------------------------------------------------------
HasDevice == {p \in Opener : pc[p] = "open"}
Counted == {p \in Opener : pc[p] \in {"open", "backoff"}}

(* At most one opener has the device, whichever lock guards it. *)
MutualExclusion == \A p, q \in Opener : pc[p] = "open" /\ pc[q] = "open" => p = q

(* Failed opens leave no trace in the lock: the counter is one less for    *)
(* every opener that has the device or has yet to take its decrement back, *)
(* so once they are gone the device can be opened again.                   *)
LockAccounts ==
  word = IF variant = "spin" THEN Cardinality(Counted) ELSE 1 - Cardinality(Counted)

(* What the holder last wrote is what the LED shows: nobody else moves it  *)
(* between the holder's open and its release.                              *)
LedIsHolders == \A p \in Opener : wrote[p] # None => pc[p] = "open" /\ led = wrote[p]

(* An opener that sleeps for the device gets it or is interrupted, as long *)
(* as every holder closes in the end.                                      *)
SleeperServed == \A p \in Opener : pc[p] = "waiting" ~> pc[p] # "waiting"

Holder == IF HasDevice = {} THEN None ELSE CHOOSE p \in HasDevice : TRUE

Excl == INSTANCE ExclusiveOpen WITH holder <- Holder

(* Every lock variant implements the exclusive device. *)
Exclusive == Excl!Spec
=============================================================================
