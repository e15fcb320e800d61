--------------------------- MODULE DevLockProofs ---------------------------
(***************************************************************************)
(* For any finite set of openers and each of the lock variants, led_open   *)
(* and led_release keep the device exclusive and the lock's count exact.   *)
(* The inductive invariant adds to the checked invariants which places an  *)
(* opener can be in under each variant, and what the spin lock protects:   *)
(* between the test of dev_stats and its increment nobody else is inside.  *)
(***************************************************************************)
EXTENDS DevLock, FiniteSetTheorems, TLAPS

Places ==
  CASE variant = "atomic" -> {"closed", "backoff", "open"}
    [] variant = "spin"   -> {"closed", "locked", "clear", "open"}
    [] variant = "sleep"  -> {"closed", "waiting", "open"}

Typed ==
  /\ variant \in Variants
  /\ word \in Int
  /\ spin \in Opener \cup {None}
  /\ pc \in [Opener -> Place]
  /\ led \in Level
  /\ wrote \in [Opener -> Level \cup {None}]

Section ==
  \A p \in Opener :
    /\ pc[p] \in {"locked", "clear"} => spin = p
    /\ pc[p] = "clear" => word = 0

WordRange ==
  /\ variant # "atomic" => word \in {0, 1}
  /\ variant = "atomic" => word <= 1

IInv ==
  /\ Typed
  /\ \A p \in Opener : pc[p] \in Places
  /\ Section
  /\ WordRange
  /\ LockAccounts
  /\ MutualExclusion
  /\ LedIsHolders
-----------------------------------------------------------------------------
(* The set of counted openers is finite, in every state with a typed pc. *)
LEMMA CountedFinite ==
  /\ IsFiniteSet(Counted)
  /\ Cardinality(Counted) \in 0 .. Cardinality(Opener)
  /\ Cardinality(Opener) \in Nat
  /\ Cardinality(Counted) = 0 <=> Counted = {}
<1>1. Counted \in SUBSET Opener
  BY DEF Counted
<1>2. IsFiniteSet(Counted) /\ Cardinality(Counted) <= Cardinality(Opener)
  BY <1>1, FS_Subset, OpenerAssumption
<1>3. Cardinality(Counted) \in Nat /\ Cardinality(Opener) \in Nat
  BY <1>2, FS_CardinalityType, OpenerAssumption
<1>4. QED
  BY <1>2, <1>3, FS_EmptySet

(* One opener moves: the set of counted openers gains it, loses it or      *)
(* stays the same, and so does its cardinality.                            *)
LEMMA Moves ==
  ASSUME NEW p \in Opener, NEW from, NEW to,
         pc \in [Opener -> Place], Goto(p, from, to)
  PROVE  Cardinality(Counted') =
           Cardinality(Counted)
             + (IF to \in {"open", "backoff"} THEN 1 ELSE 0)
             - (IF from \in {"open", "backoff"} THEN 1 ELSE 0)
<1> USE DEF Goto, Counted
<1>1. Cardinality(Counted) \in Nat /\ IsFiniteSet(Counted)
  BY CountedFinite
<1>2. CASE to \in {"open", "backoff"} /\ from \notin {"open", "backoff"}
  <2>1. Counted' = Counted \cup {p} /\ p \notin Counted
    BY <1>2
  <2>2. QED
    BY <1>1, <1>2, <2>1, FS_AddElement
<1>3. CASE to \notin {"open", "backoff"} /\ from \in {"open", "backoff"}
  <2>1. Counted' = Counted \ {p} /\ p \in Counted
    BY <1>3
  <2>2. Cardinality(Counted') = Cardinality(Counted) - 1
    BY <1>1, <2>1, FS_RemoveElement
  <2>3. QED
    BY <1>1, <1>3, <2>2
<1>4. CASE to \in {"open", "backoff"} <=> from \in {"open", "backoff"}
  <2>1. Counted' = Counted
    BY <1>4
  <2>2. QED
    BY <1>1, <1>4, <2>1
<1>5. QED
  BY <1>2, <1>3, <1>4

LEMMA InitIInv == Init => IInv
<1> SUFFICES ASSUME Init PROVE IInv
  OBVIOUS
<1>1. Counted = {}
  BY DEF Init, Counted
<1>2. Cardinality(Counted) = 0
  BY <1>1, FS_EmptySet
<1>3. Typed /\ Section /\ WordRange /\ MutualExclusion /\ LedIsHolders
  BY OpenerAssumption DEF Init, Typed, Section, WordRange, MutualExclusion,
     LedIsHolders, Level, Place
<1>4. \A p \in Opener : pc[p] \in Places
  BY DEF Variants, Init, Places
<1>5. LockAccounts
  BY <1>2 DEF Init, LockAccounts
<1>6. QED
  BY <1>3, <1>4, <1>5 DEF IInv

(* The count, from the step's effect on the word and on the openers. *)
LEMMA StepAccounts == IInv /\ Next => LockAccounts' /\ WordRange'
<1> SUFFICES ASSUME IInv, NEW p \in Opener, OpenStep(p) \/ (\E v \in Level : Write(p, v)) \/ Release(p)
             PROVE  LockAccounts' /\ WordRange'
  BY DEF Next
<1> USE DEF IInv, Typed, LockAccounts, WordRange
<1>0. Cardinality(Counted) \in Nat /\ variant' = variant
  BY CountedFinite DEF OpenStep, OpenDec, OpenInc, SpinLock, SpinTest, SpinClaim, Sleep, Wake,
     Interrupt, Write, Release, Goto
<1>1. CASE OpenDec(p)
  BY <1>0, <1>1, Moves DEF OpenDec
<1>2. CASE OpenInc(p)
  <2>1. variant = "atomic"
    BY <1>2 DEF Variants, OpenInc, Goto, Places
  <2>2. p \in Counted
    BY <1>2 DEF OpenInc, Goto, Counted
  <2>3. Cardinality(Counted) >= 1
    BY <1>0, <2>2, CountedFinite
  <2>4. QED
    BY <1>0, <1>2, <2>1, <2>3, Moves DEF OpenInc
<1>3. CASE SpinLock(p) \/ Sleep(p) \/ Interrupt(p)
  BY <1>0, <1>3, Moves DEF SpinLock, Sleep, Interrupt
<1>4. CASE SpinTest(p)
  BY <1>0, <1>4, Moves DEF SpinTest
<1>5. CASE SpinClaim(p)
  <2>1. variant = "spin" /\ word = 0
    BY <1>5 DEF Variants, SpinClaim, Goto, Places, Section
  <2>2. QED
    BY <1>0, <1>5, <2>1, Moves DEF SpinClaim
<1>6. CASE Wake(p)
  <2>1. variant = "sleep"
    BY <1>6 DEF Variants, Wake, Goto, Places
  <2>2. Cardinality(Counted') = Cardinality(Counted) + 1
    BY <1>0, <1>6, Moves DEF Wake
  <2>3. QED
    BY <1>0, <1>6, <2>1, <2>2 DEF Wake
<1>7. CASE \E v \in Level : Write(p, v)
  BY <1>7 DEF Write, Counted
<1>8. CASE Release(p)
  <2>1. p \in Counted
    BY <1>8 DEF Release, Goto, Counted
  <2>2. Cardinality(Counted) >= 1
    BY <1>0, <2>1, CountedFinite
  <2>3. Cardinality(Counted') = Cardinality(Counted) - 1
    BY <1>0, <1>8, Moves DEF Release
  <2>4. QED
    BY <1>0, <1>8, <2>2, <2>3 DEF Variants, Release
<1>9. QED
  BY <1>1, <1>2, <1>3, <1>4, <1>5, <1>6, <1>7, <1>8 DEF OpenStep

(* Nobody has the device when an opener is let in. *)
LEMMA StepExclusion == IInv /\ Next => MutualExclusion' /\ LedIsHolders'
<1> SUFFICES ASSUME IInv, NEW p \in Opener, OpenStep(p) \/ (\E v \in Level : Write(p, v)) \/ Release(p)
             PROVE  MutualExclusion' /\ LedIsHolders'
  BY DEF Next
<1> USE DEF IInv, Typed, MutualExclusion, LedIsHolders
<1>0. Cardinality(Counted) \in Nat /\ (Cardinality(Counted) = 0 => \A q \in Opener : pc[q] # "open")
  BY CountedFinite DEF Counted
<1>1. CASE OpenDec(p)
  <2>1. word = 1 => \A q \in Opener : pc[q] # "open"
    BY <1>0, <1>1 DEF OpenDec, LockAccounts
  <2>2. QED
    BY <1>1, <2>1 DEF OpenDec, Goto
<1>2. CASE OpenInc(p) \/ SpinLock(p) \/ Sleep(p) \/ Interrupt(p) \/ SpinTest(p)
  BY <1>2 DEF OpenInc, SpinLock, Sleep, Interrupt, SpinTest, Goto
<1>3. CASE SpinClaim(p)
  <2>1. variant = "spin" /\ word = 0
    BY <1>3 DEF Variants, SpinClaim, Goto, Places, Section
  <2>2. \A q \in Opener : pc[q] # "open"
    BY <1>0, <2>1 DEF LockAccounts
  <2>3. QED
    BY <1>3, <2>2 DEF SpinClaim, Goto
<1>4. CASE Wake(p)
  <2>1. variant = "sleep" /\ word > 0
    BY <1>4 DEF Variants, Wake, Goto, Places
  <2>2. \A q \in Opener : pc[q] # "open"
    BY <1>0, <2>1 DEF LockAccounts
  <2>3. QED
    BY <1>4, <2>2 DEF Wake, Goto
<1>5. CASE \E v \in Level : Write(p, v)
  BY <1>5, OpenerAssumption DEF Write
<1>6. CASE Release(p)
  BY <1>6 DEF Release, Goto
<1>7. QED
  BY <1>1, <1>2, <1>3, <1>4, <1>5, <1>6 DEF OpenStep

LEMMA StepTyped == IInv /\ Next => Typed' /\ Section' /\ \A p \in Opener : pc'[p] \in Places'
<1> SUFFICES ASSUME IInv, NEW p \in Opener, OpenStep(p) \/ (\E v \in Level : Write(p, v)) \/ Release(p)
             PROVE  Typed' /\ Section' /\ \A q \in Opener : pc'[q] \in Places'
  BY DEF Next
<1> USE OpenerAssumption DEF Variants, IInv, Typed, Section, Places, Place, Goto
<1>1. CASE OpenDec(p)
  BY <1>1 DEF OpenDec
<1>2. CASE OpenInc(p)
  BY <1>2 DEF OpenInc
<1>3. CASE SpinLock(p)
  BY <1>3 DEF SpinLock
<1>4. CASE SpinTest(p)
  BY <1>4 DEF SpinTest
<1>5. CASE SpinClaim(p)
  BY <1>5 DEF SpinClaim
<1>6. CASE Sleep(p) \/ Interrupt(p)
  BY <1>6 DEF Sleep, Interrupt
<1>7. CASE Wake(p)
  BY <1>7 DEF Wake
<1>8. CASE \E v \in Level : Write(p, v)
  BY <1>8 DEF Write
<1>9. CASE Release(p)
  BY <1>9 DEF Release, WordRange
<1>10. QED
  BY <1>1, <1>2, <1>3, <1>4, <1>5, <1>6, <1>7, <1>8, <1>9 DEF OpenStep

(* The inductive invariant holds in every reachable state. *)
THEOREM Inductive == Spec => []IInv
<1>1. Init => IInv
  BY InitIInv
<1>2. IInv /\ [Next]_vars => IInv'
  <2>1. CASE Next
    BY <2>1, StepAccounts, StepExclusion, StepTyped DEF IInv, Places
  <2>2. CASE UNCHANGED vars
    BY <2>2 DEF vars, IInv, Places, Typed, Section, WordRange, LockAccounts, MutualExclusion,
       LedIsHolders, Counted
  <2>3. QED
    BY <2>1, <2>2
<1>3. QED
  BY <1>1, <1>2, PTL DEF Spec

(* The state stays typed, and the word within the bounds the openers set. *)
THEOREM TypeCorrect == Spec => []TypeOK
<1>1. IInv => TypeOK
  BY CountedFinite DEF IInv, Typed, TypeOK, LockAccounts, WordRange
<1>2. QED
  BY <1>1, Inductive, PTL

(* At most one opener has the device. *)
THEOREM Exclusion == Spec => []MutualExclusion
<1>1. IInv => MutualExclusion
  BY DEF IInv
<1>2. QED
  BY <1>1, Inductive, PTL

(* The lock word counts exactly the openers that hold or still owe it. *)
THEOREM Accounts == Spec => []LockAccounts
<1>1. IInv => LockAccounts
  BY DEF IInv
<1>2. QED
  BY <1>1, Inductive, PTL

(* The LED shows what its holder last wrote. *)
THEOREM LedFollowsHolder == Spec => []LedIsHolders
<1>1. IInv => LedIsHolders
  BY DEF IInv
<1>2. QED
  BY <1>1, Inductive, PTL
-----------------------------------------------------------------------------
(* The abstract holder is the one opener that has the device. *)
LEMMA HolderIs ==
  ASSUME MutualExclusion, None \notin Opener
  PROVE  /\ \A p \in Opener : pc[p] = "open" => Holder = p
         /\ Holder = None <=> HasDevice = {}
<1>1. \A p \in Opener : pc[p] = "open" => HasDevice = {p}
  BY DEF MutualExclusion, HasDevice
<1>2. HasDevice # {} => Holder \in HasDevice
  BY DEF Holder
<1>3. QED
  BY <1>1, <1>2 DEF Holder, HasDevice

(* The device under any of the lock variants is an exclusive device: an    *)
(* open that succeeds is Open, a write is Write, a release is Close, and   *)
(* every step of a failing or waiting open stutters.                       *)
THEOREM Refines == Spec => Exclusive
<1>1. Init => Excl!Init
  BY DEF Init, Excl!Init, Holder, HasDevice, Level
<1>2. IInv /\ IInv' /\ [Next]_vars => [Excl!Next]_<<Holder, led>>
  <2> SUFFICES ASSUME IInv, IInv', [Next]_vars PROVE [Excl!Next]_<<Holder, led>>
    OBVIOUS
  <2> USE OpenerAssumption
  <2>1. /\ \A p \in Opener : pc[p] = "open" => Holder = p
        /\ Holder = None <=> HasDevice = {}
        /\ \A p \in Opener : pc'[p] = "open" => Holder' = p
        /\ Holder' = None <=> HasDevice' = {}
    BY HolderIs DEF IInv, MutualExclusion, Holder, HasDevice
  <2>2. HasDevice' = HasDevice => Holder' = Holder
    BY DEF Holder
  <2>3. CASE UNCHANGED vars
    BY <2>2, <2>3 DEF vars, HasDevice
  <2>4. ASSUME NEW p \in Opener, OpenStep(p)
        PROVE  Excl!Open(p) \/ UNCHANGED <<Holder, led>>
    <3>1. UNCHANGED led /\ pc[p] # "open" /\ pc' = [pc EXCEPT ![p] = pc'[p]]
      BY <2>4 DEF OpenStep, OpenDec, OpenInc, SpinLock, SpinTest, SpinClaim, Sleep, Wake,
         Interrupt, Goto, IInv, Typed
    <3>2. CASE pc'[p] = "open"
      <4>1. Holder' = p
        BY <2>1, <3>2
      <4>2. HasDevice = {}
        BY <3>1, <3>2 DEF IInv, MutualExclusion, HasDevice, Typed
      <4>3. QED
        BY <2>1, <3>1, <4>1, <4>2 DEF Excl!Open
    <3>3. CASE pc'[p] # "open"
      <4>1. HasDevice' = HasDevice
        BY <3>1, <3>3 DEF HasDevice, IInv, Typed
      <4>2. QED
        BY <2>2, <3>1, <4>1
    <3>4. QED
      BY <3>2, <3>3
  <2>5. ASSUME NEW p \in Opener, NEW v \in Level, Write(p, v)
        PROVE  Excl!Write(p)
    <3>1. Holder = p /\ Holder' = p /\ led' \in Level
      BY <2>1, <2>5 DEF Write
    <3>2. QED
      BY <3>1 DEF Excl!Write
  <2>6. ASSUME NEW p \in Opener, Release(p)
        PROVE  Excl!Close(p)
    <3>1. Holder = p /\ UNCHANGED led
      BY <2>1, <2>6 DEF Release, Goto
    <3>2. HasDevice' = {}
      BY <2>6 DEF Release, Goto, IInv, MutualExclusion, HasDevice, Typed
    <3>3. QED
      BY <2>1, <3>1, <3>2 DEF Excl!Close
  <2>7. QED
    BY <2>3, <2>4, <2>5, <2>6 DEF Next, Excl!Next
<1>3. QED
  BY <1>1, <1>2, Inductive, PTL DEF Spec, Exclusive, Excl!Spec
=============================================================================
