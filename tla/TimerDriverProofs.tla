------------------------- MODULE TimerDriverProofs -------------------------
(***************************************************************************)
(* The two drivers that lean on a kernel timer.                            *)
(*                                                                         *)
(* KeyIrq, for any number of readers and presses: keyvalue agrees with the *)
(* pin when the driver is at rest, no reader is told of a release that did *)
(* not happen, and only a late edge leaves a timer behind the module.      *)
(*                                                                         *)
(* LedTimer, for any processes, periods and number of commands: a timer    *)
(* that was stopped last is neither pending nor running, and one that was  *)
(* started last is never lost, however commands and the self-re-arming     *)
(* timer function interleave.                                              *)
(***************************************************************************)
EXTENDS KeyIrq, LedTimer, TLAPS

(* The releases a reader was told of. *)
Told(r) == delivered[r]["released"] + delivered[r]["INVAKEY"]

(* A reader that is about to be told of a release, or could still find the *)
(* mark, has been told of fewer releases than there were.                  *)
Credit ==
  \A r \in Reader :
    /\ rpc[r] = "clear" => TopBit(seen[r])
    /\ Told(r) <= releases
    /\ releasekey = 1 \/ rpc[r] = "clear" => Told(r) + 1 <= releases

(* What the timer function has sampled is what the pin shows, unless a     *)
(* later edge is latched or has armed the timer again.                     *)
Fresh ==
  life \in {"irq", "up"} /\ presses > 0 /\ ~edge /\ ~armed =>
    /\ tpc = "idle" => keyvalue = IF level = 0 THEN "down" ELSE "released"
    /\ tpc = "sampled0" => level = 0
    /\ tpc \in {"sampled1", "mark"} => level = 1
    /\ tpc = "mark" => keyvalue = "released"

Untouched ==
  /\ presses = 0 => level = 1
  /\ life = "irq" => ~armed /\ tpc = "idle" /\ (presses > 0 => edge)

Orphan == life \in {"stopped", "gone"} /\ (armed \/ tpc # "idle") => lateEdge

KeyInv == TypeOK /\ Credit /\ Fresh /\ Untouched /\ Orphan

USE DEF key, words, reads, KeyValue, TopBit
-----------------------------------------------------------------------------
LEMMA InitKeyInv == Init => KeyInv
<1> SUFFICES ASSUME Init PROVE KeyInv
  OBVIOUS
<1>1. \A r \in Reader : Told(r) = 0
  BY DEF Init, Told
<1>2. TypeOK
  <2>1. presses \in 0 .. MaxPress
    BY PressAssumption DEF Init
  <2>2. delivered \in [Reader -> [{"INVAKEY", "released"} -> Nat]]
    BY DEF Init
  <2>3. QED
    BY <2>1, <2>2 DEF Init, TypeOK
<1>3. Credit /\ Fresh /\ Untouched /\ Orphan
  BY <1>1 DEF Init, Credit, Fresh, Untouched, Orphan
<1>4. QED
  BY <1>2, <1>3 DEF KeyInv

LEMMA FingerStep == KeyInv /\ (Press \/ Lift) => KeyInv'
<1> SUFFICES ASSUME KeyInv, Press \/ Lift PROVE KeyInv'
  OBVIOUS
<1>1. /\ UNCHANGED <<armed, tpc, words, reads, life, lateEdge, releases>>
      /\ level' \in {0, 1} /\ presses' \in 0 .. MaxPress
      /\ presses' = 0 => level' = 1
  BY PressAssumption DEF Press, Lift, KeyInv, TypeOK, Untouched
<1>2. edge' \in BOOLEAN /\ (life # "gone" => edge')
  BY DEF Press, Lift
<1>3. TypeOK' /\ Credit' /\ Orphan'
  BY <1>1, <1>2 DEF KeyInv, TypeOK, Credit, Orphan, Told
<1>4. Fresh' /\ Untouched'
  BY <1>1, <1>2 DEF KeyInv, Fresh, Untouched
<1>5. QED
  BY <1>3, <1>4 DEF KeyInv

LEMMA HandlerStep == KeyInv /\ key0_handler => KeyInv'
BY DEF key0_handler, KeyInv, TypeOK, Credit, Fresh, Untouched, Orphan, Told

LEMMA TimerStep == KeyInv /\ Timer => KeyInv'
<1>1. ASSUME KeyInv, Sample PROVE KeyInv'
  <2>1. TypeOK' /\ Credit'
    BY <1>1 DEF Sample, KeyInv, TypeOK, Credit, Told
  <2>2. life # "irq"
    BY <1>1 DEF Sample, KeyInv, Untouched
  <2>3. Fresh'
    BY <1>1, <2>2 DEF Sample, KeyInv, TypeOK, Fresh
  <2>4. Untouched' /\ Orphan'
    BY <1>1, <2>2 DEF Sample, KeyInv, Untouched, Orphan
  <2>5. QED
    BY <2>1, <2>3, <2>4 DEF KeyInv
<1>2. KeyInv /\ StoreValue => KeyInv'
  BY DEF StoreValue, KeyInv, TypeOK, Credit, Fresh, Untouched, Orphan, Told
<1>3. KeyInv /\ StoreRelease => KeyInv'
  BY DEF StoreRelease, KeyInv, TypeOK, Credit, Fresh, Untouched, Orphan, Told
<1>4. QED
  BY <1>1, <1>2, <1>3 DEF Timer

LEMMA ReadStep == ASSUME KeyInv, NEW r \in Reader, Read(r) PROVE KeyInv'
<1>1. CASE LoadValue(r)
  BY <1>1 DEF LoadValue, KeyInv, TypeOK, Credit, Fresh, Untouched, Orphan, Told
<1>2. CASE LoadRelease(r)
  BY <1>2 DEF LoadRelease, KeyInv, TypeOK, Credit, Fresh, Untouched, Orphan, Told
<1>3. CASE ClearRelease(r)
  <2>1. seen[r] \in {"INVAKEY", "released"}
    BY <1>3 DEF ClearRelease, KeyInv, Credit
  <2>2. TypeOK'
    BY <1>3, <2>1 DEF ClearRelease, KeyInv, TypeOK
  <2>3. Told(r)' = Told(r) + 1 /\ \A q \in Reader \ {r} : Told(q)' = Told(q)
    BY <1>3, <2>1 DEF ClearRelease, KeyInv, TypeOK, Told
  <2>4. \A q \in Reader : Told(q) \in Nat
    BY DEF KeyInv, TypeOK, Told
  <2>5. Credit'
    BY <1>3, <2>3, <2>4 DEF ClearRelease, KeyInv, TypeOK, Credit
  <2>6. QED
    BY <1>3, <2>2, <2>5 DEF ClearRelease, KeyInv, Fresh, Untouched, Orphan
<1>4. QED
  BY <1>1, <1>2, <1>3 DEF Read

LEMMA LifeStep == KeyInv /\ (InitTimer \/ DelTimerSync \/ FreeIrq) => KeyInv'
<1> SUFFICES ASSUME KeyInv, InitTimer \/ DelTimerSync \/ FreeIrq PROVE KeyInv'
  OBVIOUS
<1>1. TypeOK' /\ Credit'
  <2>1. /\ UNCHANGED <<level, presses, tpc, words, reads, lateEdge, releases>>
        /\ edge' \in BOOLEAN /\ armed' \in BOOLEAN
        /\ life' \in {"irq", "up", "stopped", "gone", "oops"}
    BY DEF InitTimer, DelTimerSync, FreeIrq, KeyInv, TypeOK
  <2>2. TypeOK'
    BY <2>1 DEF KeyInv, TypeOK
  <2>3. Credit'
    BY <2>1 DEF KeyInv, Credit, Told
  <2>4. QED
    BY <2>2, <2>3
<1>2. Fresh' /\ Untouched'
  BY DEF InitTimer, DelTimerSync, FreeIrq, KeyInv, Fresh, Untouched
<1>3. Orphan'
  BY DEF InitTimer, DelTimerSync, FreeIrq, KeyInv, Untouched, Orphan
<1>4. QED
  BY <1>1, <1>2, <1>3 DEF KeyInv

(* The inductive invariant holds in every reachable state. *)
THEOREM KeyInductive == Spec => []KeyInv
<1>1. KeyInv /\ UNCHANGED vars => KeyInv'
  BY DEF vars, KeyInv, TypeOK, Credit, Fresh, Untouched, Orphan, Told
<1>2. KeyInv /\ [Next]_vars => KeyInv'
  BY <1>1, FingerStep, HandlerStep, TimerStep, ReadStep, LifeStep DEF Next
<1>3. QED
  BY <1>2, InitKeyInv, PTL DEF Spec

(* The variables have their types. *)
THEOREM KeyTypeCorrect == Spec => []TypeOK
<1>1. KeyInv => TypeOK
  BY DEF KeyInv
<1>2. QED
  BY <1>1, KeyInductive, PTL

(* At rest, keyvalue shows the pin. *)
THEOREM RestShowsPin == Spec => []AtRestShowsPin
<1>1. KeyInv => AtRestShowsPin
  BY DEF KeyInv, TypeOK, Fresh, AtRestShowsPin, Quiet
<1>2. QED
  BY <1>1, KeyInductive, PTL

(* No reader is told of more releases than happened. *)
THEOREM NoPhantom == Spec => []NoPhantomRelease
<1>1. KeyInv => NoPhantomRelease
  BY DEF KeyInv, Credit, Told, NoPhantomRelease
<1>2. QED
  BY <1>1, KeyInductive, PTL

(* Only an edge in the gap between del_timer_sync and free_irq leaves a    *)
(* timer behind the module.                                                *)
THEOREM OrphanByLateEdge == Spec => []OrphanNeedsLateEdge
<1>1. KeyInv => OrphanNeedsLateEdge
  BY DEF KeyInv, Orphan, OrphanNeedsLateEdge
<1>2. QED
  BY <1>1, KeyInductive, PTL

-----------------------------------------------------------------------------
(* What the two properties lean on: a command in progress keeps its file   *)
(* open, and open files keep the module up.                                *)
LedInv ==
  /\ TimerTypeOK
  /\ \A p \in Proc : pc[p] = "arm" => p \in files
  /\ files # {} => module = "up"
  /\ OffMeansOff
  /\ OnMeansArmed

USE PeriodAssumption, CmdAssumption DEF TimerTypeOK, Count, timer, light, procs, OffMeansOff, OnMeansArmed

LEMMA FunctionStep == LedInv /\ timer_function => LedInv'
<1>1. LedInv /\ Expire => LedInv'
  BY DEF LedInv, Expire
<1>2. LedInv /\ LoadPeriod => LedInv'
  BY DEF LedInv, LoadPeriod
<1>3. LedInv /\ Rearm => LedInv'
  BY DEF LedInv, Rearm
<1>4. QED
  BY <1>1, <1>2, <1>3 DEF timer_function

LEMMA CommandStep == ASSUME LedInv, NEW p \in Proc, Command(p) PROVE LedInv'
<1>1. CASE Open(p)
  BY <1>1 DEF LedInv, Open
<1>2. CASE CloseFile(p)
  BY <1>2 DEF LedInv, CloseFile
<1>3. CASE OpenCmd(p)
  BY <1>3 DEF LedInv, OpenCmd
<1>4. CASE CloseCmd(p)
  <2>1. TimerTypeOK'
    <3>1. UNCHANGED <<period, armedFor, fpc, loaded, sta, led, files, pc, local, module>>
      BY <1>4 DEF CloseCmd
    <3>2. cmds' \in 0 .. MaxCmd /\ pending' = FALSE /\ want' = "off"
      BY <1>4 DEF LedInv, CloseCmd
    <3>3. QED
      BY <3>1, <3>2 DEF LedInv
  <2>2. QED
    BY <1>4, <2>1 DEF LedInv, CloseCmd
<1>5. CASE ArmByCmd(p)
  BY <1>5 DEF LedInv, ArmByCmd
<1>6. CASE \E v \in Period : SetPeriodCmd(p, v)
  BY <1>6 DEF LedInv, SetPeriodCmd
<1>7. QED
  BY <1>1, <1>2, <1>3, <1>4, <1>5, <1>6 DEF Command

LEMMA ExitStep == LedInv /\ (ExitLedOff \/ ExitDelTimer) => LedInv'
<1>1. LedInv /\ ExitLedOff => LedInv'
  BY DEF LedInv, ExitLedOff
<1>2. LedInv /\ ExitDelTimer => LedInv'
  BY DEF LedInv, ExitDelTimer
<1>3. QED
  BY <1>1, <1>2

(* The inductive invariant holds in every reachable state. *)
THEOREM LedInductive == TimerSpec => []LedInv
<1>1. timer_init => LedInv
  <2> SUFFICES ASSUME timer_init PROVE LedInv
    OBVIOUS
  <2>1. TimerTypeOK
    <3>1. cmds \in 0 .. MaxCmd
      BY DEF timer_init
    <3>2. pc \in [Proc -> {"idle", "arm"}] /\ local \in [Proc -> Period]
      BY DEF timer_init
    <3>3. QED
      BY <3>1, <3>2 DEF timer_init
  <2>2. QED
    BY <2>1 DEF timer_init, LedInv
<1>2. LedInv /\ UNCHANGED timerVars => LedInv'
  BY DEF LedInv, timerVars
<1>3. LedInv /\ [TimerNext]_timerVars => LedInv'
  BY <1>2, FunctionStep, CommandStep, ExitStep DEF TimerNext
<1>4. QED
  BY <1>1, <1>3, PTL DEF TimerSpec

(* The variables have their types. *)
THEOREM LedTypeCorrect == TimerSpec => []TimerTypeOK
<1>1. LedInv => TimerTypeOK
  BY DEF LedInv
<1>2. QED
  BY <1>1, LedInductive, PTL

(* A stopped timer is off; del_timer_sync is not outrun. *)
THEOREM StoppedIsOff == TimerSpec => []OffMeansOff
<1>1. LedInv => OffMeansOff
  BY DEF LedInv
<1>2. QED
  BY <1>1, LedInductive, PTL

(* A started timer is pending or its function is about to arm it. *)
THEOREM StartedIsArmed == TimerSpec => []OnMeansArmed
<1>1. LedInv => OnMeansArmed
  BY DEF LedInv
<1>2. QED
  BY <1>1, LedInductive, PTL
=============================================================================
