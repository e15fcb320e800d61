-------------------------- MODULE UmsGadgetProofs --------------------------
(***************************************************************************)
(* For any number of hotplug helpers, commands and USB events: the image   *)
(* is exported and mounted at a time only after two processes worked on it *)
(* at a time, and between commands .usb_config names a gadget that is not  *)
(* bound only after a stop of it failed part way.  The inductive invariant *)
(* says what a process that works alone knows after each of its tests, and *)
(* which command is behind each stage.  That the image follows USB needs   *)
(* two more: no change of USB goes unheard, and whoever works is on the    *)
(* way to where USB wants the image.                                       *)
(***************************************************************************)
EXTENDS UmsGadget, TLAPS

Typed ==
  /\ pc \in [Proc -> Stage]
  /\ cmd \in Command
  /\ lun \in BOOLEAN /\ overlap \in BOOLEAN
  /\ local \in Nat

(* Without an overlap one process at most works on the image. *)
Alone == ~overlap => \A p, q \in Proc : Working(p) /\ Working(q) => p = q

(* What the process that works alone knows. *)
Knows ==
  ~overlap =>
    /\ local <= 1
    /\ lun => local = 0
    /\ \A p \in Proc :
         /\ pc[p] = "enable.set" => local = 0
         /\ pc[p] = "disable.test" => ~lun
         /\ pc[p] = "disable.mount" => ~lun /\ local = 0

(* The stages of the operator, and the commands they belong to. *)
Stages ==
  /\ \A p \in Helper : pc[p] \in LunStep \cup {"idle"}
  /\ pc[Op] \in {"find", "unlink", "remove", "umount"} => cmd \in {"ums_stop", "acm_stop"}
  /\ pc[Op] \in {"register", "read"} => cmd \in {"rc", "ums_en"}
  /\ pc[Op] \in {"mount", "build", "bind"} => cmd \in {"rc", "ums_en", "acm_en"}
  /\ pc[Op] \in LunStep => cmd \in {"rc", "ums_en", "ums_enable", "ums_disable"}
  /\ pc[Op] = "config" => cmd \in {"ums_en", "acm_en", "ums_stop", "acm_stop"}

(* .usb_config, and what the running command has achieved so far. *)
Truth ==
  /\ config = "ums" => \/ udc = "rockchip" \/ "rockchip" \in broken
                       \/ cmd = "ums_stop" /\ pc[Op] \in {"remove", "umount", "config"}
  /\ config = "acm" => \/ udc = "acm_gadget" \/ "acm_gadget" \in broken
                       \/ cmd = "acm_stop" /\ pc[Op] \in {"remove", "umount", "config"}
  /\ cmd = "ums_en" /\ pc[Op] \in LunStep \cup {"register", "config"} => udc = "rockchip"
  /\ cmd = "acm_en" /\ pc[Op] = "config" => udc = "acm_gadget"

(* A function directory lies in the directory of its gadget. *)
Exports == ExportedByGadget /\ functions \subseteq gadgets

IInv == Typed /\ Alone /\ Knows /\ Stages /\ Truth /\ Exports
-----------------------------------------------------------------------------
LEMMA InitIInv == Init => IInv
<1> SUFFICES ASSUME Init PROVE IInv
  OBVIOUS
<1>1. /\ \A p \in Proc : pc[p] \in {"idle", "mount"}
      /\ pc \in [Proc -> Stage]
      /\ pc[Op] = "mount"
      /\ \A p \in Helper : pc[p] = "idle"
  BY ProcAssumption DEF Init, Proc, Stage
<1>2. Typed /\ Exports
  BY <1>1 DEF Init, Typed, Command, Exports, ExportedByGadget
<1>3. Alone
  BY <1>1 DEF Alone, Working, LunStep
<1>7. Knows
  <2>0. local = 0
    BY DEF Init
  <2>1. local = 0 /\ local <= 1
    BY <2>0
  <2>2. \A p \in Proc : pc[p] \notin {"enable.set", "disable.test", "disable.mount"}
    BY <1>1
  <2>3. ~lun
    BY DEF Init
  <2>4. QED
    BY <2>1, <2>2, <2>3 DEF Knows
<1>4. Stages
  BY <1>1 DEF Init, Stages, LunStep
<1>5. Truth
  BY <1>1 DEF Init, Truth, LunStep
<1>6. QED
  BY <1>2, <1>3, <1>4, <1>5, <1>7 DEF IInv

(* A step of the operator that does not touch the image. *)
LEMMA OperatorSteps ==
  ASSUME IInv,
         \/ Mount \/ Build \/ Bind \/ Config \/ Find \/ Unlink \/ Unmount \/ Remove
  PROVE  (Typed /\ Alone /\ Knows)'
<1>1. Op \in Proc
  BY DEF Proc
<1>2. PICK s \in {"idle", "build", "bind", "register", "config", "unlink", "remove", "umount"} : Goto(Op, s)
  <2> DEFINE S == {"idle", "build", "bind", "register", "config", "unlink", "remove", "umount"}
  <2> SUFFICES \E s \in S : Goto(Op, s)
    OBVIOUS
  <2>1. CASE Mount
    BY <2>1 DEF Mount, Fail, Goto
  <2>2. CASE Build
    BY <2>2 DEF Build, Fail, Goto
  <2>3. CASE Bind
    BY <2>3 DEF Bind, Fail, Goto
  <2>4. CASE Config
    BY <2>4 DEF Config, Fail, Goto
  <2>5. CASE Find
    BY <2>5 DEF Find, Fail, Goto
  <2>6. CASE Unlink
    BY <2>6 DEF Unlink, StopFails, Goto
  <2>7. CASE Unmount
    BY <2>7 DEF Unmount, StopFails, Goto
  <2>8. CASE Remove
    BY <2>8 DEF Remove, StopFails, Goto
  <2>9. QED
    BY <2>1, <2>2, <2>3, <2>4, <2>5, <2>6, <2>7, <2>8
<1>3. /\ s \in Stage /\ s \notin LunStep
      /\ pc' \in [Proc -> Stage]
      /\ \A q \in Proc : pc'[q] = IF q = Op THEN s ELSE pc[q]
  BY <1>1, <1>2 DEF IInv, Typed, Goto, Stage, LunStep
<1>4. /\ UNCHANGED <<local, overlap, cmd>>
      /\ lun' \in BOOLEAN /\ (lun' => lun)
  <2>1. CASE Mount
    BY <2>1 DEF Mount, IInv, Typed, image, oper
  <2>2. CASE Build
    BY <2>2 DEF Build, IInv, Typed, image, oper
  <2>3. CASE Bind
    BY <2>3 DEF Bind, IInv, Typed, image, oper
  <2>4. CASE Config
    BY <2>4 DEF Config, IInv, Typed, image, oper
  <2>5. CASE Find
    BY <2>5 DEF Find, IInv, Typed, image, oper
  <2>6. CASE Unlink
    BY <2>6 DEF Unlink, IInv, Typed, image, oper
  <2>7. CASE Unmount
    BY <2>7 DEF Unmount, IInv, Typed, image, oper
  <2>8. CASE Remove
    BY <2>8 DEF Remove, IInv, Typed, image, oper
  <2>9. QED
    BY <2>1, <2>2, <2>3, <2>4, <2>5, <2>6, <2>7, <2>8
<1>5. Typed'
  BY <1>3, <1>4 DEF IInv, Typed
<1>6. \A q \in Proc : Working(q)' => Working(q) /\ pc'[q] = pc[q]
  BY <1>3 DEF Working
<1>7. Alone'
  BY <1>4, <1>6 DEF IInv, Alone
<1>8. Knows'
  BY <1>3, <1>4 DEF IInv, Knows, LunStep
<1>9. QED
  BY <1>5, <1>7, <1>8

(* A process begins to work on the image: an event, a command, or update. *)
LEMMA EnterSteps ==
  ASSUME IInv, NEW p \in Proc, ~Working(p),
         NEW s \in {"read", "enable.test", "disable.clear"}, Goto(p, s), Starts(p),
         UNCHANGED image, cmd' \in Command
  PROVE  (Typed /\ Alone /\ Knows)'
<1>1. pc' \in [Proc -> Stage] /\ \A q \in Proc : pc'[q] = IF q = p THEN s ELSE pc[q]
  BY DEF IInv, Typed, Goto, Stage, LunStep
<1>2. Typed'
  BY <1>1 DEF IInv, Typed, Starts, image
<1>3. ~overlap' => ~overlap /\ \A q \in Proc \ {p} : ~Working(q)
  BY DEF Starts, IInv, Typed
<1>4. \A q \in Proc \ {p} : Working(q)' <=> Working(q)
  BY <1>1 DEF Working
<1>5. Alone'
  BY <1>3, <1>4 DEF Alone
<1>6. Knows'
  BY <1>1, <1>3 DEF IInv, Knows, image
<1>7. QED
  BY <1>2, <1>5, <1>6

(* A process that is working goes on, finds out something, or ends. *)
LEMMA WorkingSteps ==
  ASSUME IInv, NEW p \in Proc, Working(p), NEW s \in Stage, Goto(p, s), UNCHANGED <<overlap, cmd>>
  PROVE  /\ pc' \in [Proc -> Stage]
         /\ \A q \in Proc : pc'[q] = IF q = p THEN s ELSE pc[q]
         /\ ~overlap' => \A q \in Proc \ {p} : ~Working(q) /\ pc'[q] \notin LunStep
         /\ Alone'
<1>1. pc' \in [Proc -> Stage] /\ \A q \in Proc : pc'[q] = IF q = p THEN s ELSE pc[q]
  BY DEF IInv, Typed, Goto
<1>2. ~overlap' => \A q \in Proc \ {p} : ~Working(q) /\ pc'[q] \notin LunStep
  BY <1>1 DEF IInv, Alone, Working
<1>3. Alone'
  BY <1>1, <1>2 DEF Alone, Working
<1>4. QED
  BY <1>1, <1>2, <1>3

(* What the steps of enable and disable find out stays true. *)
LEMMA ImageSteps ==
  ASSUME IInv, NEW p \in Proc, ImageStep(p)
  PROVE  (Typed /\ Alone /\ Knows)'
<1>0. PICK s \in Stage : Goto(p, s) /\ s # "read"
  BY DEF ImageStep, EnableTest, EnableUmount, EnableSet, DisableClear, DisableTest,
     DisableMount, Done, Goto, Stage, LunStep
<1>1. Working(p) /\ UNCHANGED <<overlap, cmd>>
  BY DEF ImageStep, EnableTest, EnableUmount, EnableSet, DisableClear, DisableTest,
     DisableMount, Working, LunStep, oper
<1>2. /\ pc' \in [Proc -> Stage]
      /\ \A q \in Proc : pc'[q] = IF q = p THEN s ELSE pc[q]
      /\ ~overlap' => \A q \in Proc \ {p} : ~Working(q) /\ pc'[q] \notin LunStep
      /\ Alone'
  BY <1>0, <1>1, WorkingSteps
<1>3. Typed'
  <2>1. lun' \in BOOLEAN /\ local' \in Nat
    <3>1. CASE EnableTest(p)
      BY <3>1 DEF IInv, Typed, EnableTest, image
    <3>2. CASE EnableUmount(p)
      BY <3>2 DEF IInv, Typed, EnableUmount, image
    <3>3. CASE EnableSet(p)
      BY <3>3 DEF IInv, Typed, EnableSet, image
    <3>4. CASE DisableClear(p)
      BY <3>4 DEF IInv, Typed, DisableClear, image
    <3>5. CASE DisableTest(p)
      BY <3>5 DEF IInv, Typed, DisableTest, image
    <3>6. CASE DisableMount(p)
      BY <3>6 DEF IInv, Typed, DisableMount, image
    <3>7. QED
      BY <3>1, <3>2, <3>3, <3>4, <3>5, <3>6 DEF ImageStep
  <2>2. QED
    BY <1>1, <1>2, <2>1 DEF IInv, Typed
<1>4. Knows'
  <2> SUFFICES ASSUME ~overlap' PROVE Knows'
    BY DEF Knows
  <2>1. ~overlap
    BY <1>1
  <2>2. /\ local \in Nat /\ local <= 1 /\ (lun => local = 0)
        /\ pc[p] = "enable.set" => local = 0
        /\ pc[p] = "disable.test" => ~lun
        /\ pc[p] = "disable.mount" => ~lun /\ local = 0
    BY <2>1 DEF IInv, Knows, Typed
  <2>3. \A q \in Proc \ {p} : pc'[q] \notin LunStep
    BY <1>2
  <2>4. SUFFICES /\ local' <= 1 /\ (lun' => local' = 0)
                 /\ s = "enable.set" => local' = 0
                 /\ s = "disable.test" => ~lun'
                 /\ s = "disable.mount" => ~lun' /\ local' = 0
    BY <1>2, <2>3 DEF Knows, LunStep
  <2>5. pc'[p] = s
    BY <1>2
  <2>6. CASE EnableTest(p)
    BY <1>2, <2>2, <2>5, <2>6 DEF EnableTest, image, Goto
  <2>7. CASE EnableUmount(p)
    BY <1>2, <2>2, <2>5, <2>7 DEF EnableUmount, Goto
  <2>8. CASE EnableSet(p)
    BY <1>2, <2>2, <2>5, <2>8 DEF EnableSet, Goto, Done
  <2>9. CASE DisableClear(p)
    BY <1>2, <2>2, <2>5, <2>9 DEF DisableClear, Goto
  <2>10. CASE DisableTest(p)
    BY <1>2, <2>2, <2>5, <2>10 DEF DisableTest, image, Goto, Done
  <2>11. CASE DisableMount(p)
    BY <1>2, <2>2, <2>5, <2>11 DEF DisableMount, Goto, Done
  <2>12. QED
    BY <2>6, <2>7, <2>8, <2>9, <2>10, <2>11 DEF ImageStep
<1>5. QED
  BY <1>2, <1>3, <1>4

(* The stages and the truth of .usb_config, for the operator's own steps. *)
LEMMA OperatorTruth ==
  ASSUME IInv,
         \/ Mount \/ Build \/ Bind \/ Register \/ Read \/ Config \/ Find \/ Unlink \/ Unmount \/ Remove
  PROVE  (Stages /\ Truth /\ Exports)'
<1>1. Op \in Proc /\ \A p \in Helper : p \in Proc /\ p # Op
  BY ProcAssumption DEF Proc
<1>2. /\ cmd' = cmd /\ cmd \in Command
      /\ \A p \in Helper : pc'[p] = pc[p]
  BY <1>1 DEF IInv, Typed, Mount, Build, Bind, Register, Read, Config, Find, Unlink, Unmount, Remove, Fail, StopFails, Goto, oper
<1> USE DEF IInv, Typed, Fail, StopFails, Goto, oper, tree, dirs, image
<1>3. CASE Mount
  <2>1. Stages'
    BY <1>1, <1>2, <1>3 DEF Mount, Stages, LunStep, Command
  <2>2. Truth'
    BY <1>1, <1>2, <1>3 DEF Mount, Stages, Truth, LunStep, Own, Command
  <2>3. Exports'
    BY <1>3 DEF Mount, Exports, ExportedByGadget, Own
  <2>4. QED
    BY <2>1, <2>2, <2>3
<1>4. CASE Build
  <2>1. Stages'
    BY <1>1, <1>2, <1>4 DEF Build, Stages, LunStep, Command
  <2>2. Truth'
    BY <1>1, <1>2, <1>4 DEF Build, Stages, Truth, LunStep, Own, Command
  <2>3. Exports'
    BY <1>4 DEF Build, Exports, ExportedByGadget, Own
  <2>4. QED
    BY <2>1, <2>2, <2>3
<1>5. CASE Bind
  <2>1. Stages'
    BY <1>1, <1>2, <1>5 DEF Bind, Stages, LunStep, Command
  <2>2. Truth'
    BY <1>1, <1>2, <1>5 DEF Bind, Bindable, Stages, Truth, LunStep, Own, Command
  <2>3. Exports'
    BY <1>5 DEF Bind, Exports, ExportedByGadget, Own
  <2>4. QED
    BY <2>1, <2>2, <2>3
<1>6. CASE Register
  <2>1. Stages'
    BY <1>1, <1>2, <1>6 DEF Register, Stages, LunStep, Command
  <2>2. Truth'
    BY <1>1, <1>2, <1>6 DEF Register, Stages, Truth, LunStep, Own, Command
  <2>3. Exports'
    BY <1>6 DEF Register, Exports, ExportedByGadget, Own
  <2>4. QED
    BY <2>1, <2>2, <2>3
<1>7. CASE Read
  <2>1. Stages'
    BY <1>1, <1>2, <1>7 DEF Read, Stages, LunStep, Command
  <2>2. Truth'
    BY <1>1, <1>2, <1>7 DEF Read, Stages, Truth, LunStep, Own, Command
  <2>3. Exports'
    BY <1>7 DEF Read, Exports, ExportedByGadget, Own
  <2>4. QED
    BY <2>1, <2>2, <2>3
<1>8. CASE Config
  <2>1. Stages'
    BY <1>1, <1>2, <1>8 DEF Config, Stages, LunStep, Command
  <2>2. Truth'
    BY <1>1, <1>2, <1>8 DEF Config, Stages, Truth, LunStep, Own, Command
  <2>3. Exports'
    BY <1>8 DEF Config, Exports, ExportedByGadget, Own
  <2>4. QED
    BY <2>1, <2>2, <2>3
<1>9. CASE Find
  <2>1. Stages'
    BY <1>1, <1>2, <1>9 DEF Find, Stages, LunStep, Command
  <2>2. Truth'
    BY <1>1, <1>2, <1>9 DEF Find, Stages, Truth, LunStep, Own, Command
  <2>3. Exports'
    BY <1>9 DEF Find, Exports, ExportedByGadget, Own
  <2>4. QED
    BY <2>1, <2>2, <2>3
<1>10. CASE Unlink
  <2>1. Stages'
    BY <1>1, <1>2, <1>10 DEF Unlink, Stages, LunStep, Command
  <2>2. Truth'
    BY <1>1, <1>2, <1>10 DEF Unlink, Stages, Truth, LunStep, Own, Command
  <2>3. Exports'
    BY <1>10 DEF Unlink, Exports, ExportedByGadget, Own
  <2>4. QED
    BY <2>1, <2>2, <2>3
<1>11. CASE Unmount
  <2>1. Stages'
    BY <1>1, <1>2, <1>11 DEF Unmount, Stages, LunStep, Command
  <2>2. Truth'
    BY <1>1, <1>2, <1>11 DEF Unmount, Stages, Truth, LunStep, Own, Command
  <2>3. Exports'
    BY <1>11 DEF Unmount, Exports, ExportedByGadget, Own
  <2>4. QED
    BY <2>1, <2>2, <2>3
<1>12. CASE Remove
  <2>1. Stages'
    BY <1>1, <1>2, <1>12 DEF Remove, Stages, LunStep, Command
  <2>2. Truth'
    BY <1>1, <1>2, <1>12 DEF Remove, Stages, Truth, LunStep, Own, Command
  <2>3. Exports'
    BY <1>12 DEF Remove, Exports, ExportedByGadget, Own
  <2>4. QED
    BY <2>1, <2>2, <2>3
<1>13. QED
  BY <1>3, <1>4, <1>5, <1>6, <1>7, <1>8, <1>9, <1>10, <1>11, <1>12

(* The steps on the image leave the commands and the gadgets alone. *)
LEMMA ImageTruth ==
  ASSUME IInv, NEW p \in Proc, ImageStep(p)
  PROVE  (Stages /\ Truth /\ Exports)'
<1>1. Op \in Proc /\ \A q \in Helper : q \in Proc /\ q # Op
  BY ProcAssumption DEF Proc
<1>2. PICK s \in (LunStep \ {"read"}) \cup {"idle", "config"} :
        Goto(p, s) /\ (s = "config" => p = Op /\ cmd = "ums_en")
  BY DEF ImageStep, EnableTest, EnableUmount, EnableSet, DisableClear, DisableTest,
     DisableMount, Done, LunStep, Goto
<1>3. pc[p] \in LunStep /\ UNCHANGED <<tree, oper>>
  BY DEF ImageStep, EnableTest, EnableUmount, EnableSet, DisableClear, DisableTest,
     DisableMount, LunStep
<1>4. \A q \in Proc : pc'[q] = IF q = p THEN s ELSE pc[q]
  BY <1>2 DEF IInv, Typed, Goto
<1>5. Stages'
  BY <1>1, <1>2, <1>3, <1>4 DEF IInv, Stages, LunStep, oper
<1>6. Truth'
  <2>1. CASE p = Op
    BY <1>1, <1>2, <1>3, <1>4, <2>1 DEF IInv, Stages, Truth, LunStep, oper, tree
  <2>2. CASE p # Op
    BY <1>1, <1>3, <1>4, <2>2 DEF IInv, Truth, oper, tree
  <2>3. QED
    BY <2>1, <2>2
<1>7. lun' => lun \/ LunFile
  BY DEF ImageStep, EnableTest, EnableUmount, EnableSet, DisableClear, DisableTest,
     DisableMount, image
<1>8. Exports'
  BY <1>3, <1>7 DEF IInv, Exports, ExportedByGadget, LunFile, tree, dirs
<1>9. QED
  BY <1>5, <1>6, <1>8

(* The operator gives a command. *)
LEMMA GiveStep ==
  ASSUME IInv, NEW c \in Command, Give(c)
  PROVE  IInv'
<1>1. Op \in Proc /\ \A q \in Helper : q \in Proc /\ q # Op
  BY ProcAssumption DEF Proc
<1>2. pc[Op] = "idle" /\ ~Working(Op) /\ cmd' = c
  BY DEF Give, Working, LunStep
<1>3. UNCHANGED <<tree, image, config, broken>>
  BY DEF Give
<1>4. PICK s \in {"mount", "find", "enable.test", "disable.clear"} :
        /\ Goto(Op, s)
        /\ s = "mount" => c \in {"rc", "ums_en", "acm_en"}
        /\ s = "find" => c \in {"ums_stop", "acm_stop"}
        /\ s \in {"enable.test", "disable.clear"} => c \in {"ums_enable", "ums_disable"}
  <2>1. CASE c \in {"rc", "ums_en", "acm_en"}
    BY <2>1 DEF Give, Goto
  <2>2. CASE c \in {"ums_stop", "acm_stop"}
    BY <2>2 DEF Give, Goto
  <2>3. CASE c = "ums_enable"
    BY <2>3 DEF Give, Goto
  <2>4. CASE c = "ums_disable"
    BY <2>4 DEF Give, Goto
  <2>5. QED
    BY <2>1, <2>2, <2>3, <2>4 DEF Command
<1>5. pc' \in [Proc -> Stage] /\ \A q \in Proc : pc'[q] = IF q = Op THEN s ELSE pc[q]
  BY <1>1, <1>4 DEF IInv, Typed, Goto, Stage, LunStep
<1>6. (Typed /\ Alone /\ Knows)'
  <2>1. CASE c \in {"ums_enable", "ums_disable"}
    <3>1. s \in {"enable.test", "disable.clear"}
      BY <1>4, <2>1
    <3>2. Starts(Op)
      BY <2>1 DEF Give
    <3>3. QED
      BY <1>1, <1>2, <1>3, <1>4, <3>1, <3>2, EnterSteps
  <2>2. CASE c \notin {"ums_enable", "ums_disable"}
    <3>0. overlap' = overlap
      BY <2>2 DEF Give
    <3>1. s \in {"mount", "find"} /\ overlap' = overlap
      BY <1>4, <2>2, <3>0
    <3>2. Typed'
      BY <1>2, <1>3, <1>5, <3>1 DEF IInv, Typed, image
    <3>3. Alone'
      BY <1>5, <3>1 DEF IInv, Alone, Working, LunStep
    <3>4. Knows'
      BY <1>3, <1>5, <3>1 DEF IInv, Knows, image
    <3>5. QED
      BY <3>2, <3>3, <3>4
  <2>3. QED
    BY <2>1, <2>2
<1>7. Stages'
  <2>1. \A q \in Helper : pc'[q] = pc[q]
    BY <1>1, <1>5
  <2>2. pc'[Op] = s
    BY <1>1, <1>5
  <2>3. QED
    BY <1>2, <1>4, <2>1, <2>2 DEF IInv, Stages, LunStep
<1>8. Truth'
  <2>1. pc'[Op] = s
    BY <1>1, <1>5
  <2>2. /\ config = "ums" => udc = "rockchip" \/ "rockchip" \in broken
        /\ config = "acm" => udc = "acm_gadget" \/ "acm_gadget" \in broken
    BY <1>2 DEF IInv, Truth
  <2>3. QED
    BY <1>2, <1>3, <1>4, <2>1, <2>2 DEF Truth, LunStep, tree
<1>9. Exports'
  BY <1>3 DEF IInv, Exports, ExportedByGadget, image, tree, dirs
<1>10. QED
  BY <1>6, <1>7, <1>8, <1>9 DEF IInv

(* A USB event, with or without a helper. *)
LEMMA UsbStep ==
  ASSUME IInv, Connect \/ Configured \/ Disconnect
  PROVE  IInv'
<1>1. Op \in Proc /\ \A q \in Helper : q \in Proc /\ q # Op
  BY ProcAssumption DEF Proc
<1>2. UNCHANGED <<tree, image, oper>>
  BY DEF Connect, Configured, Disconnect
<1>3. CASE UNCHANGED <<pc, overlap>>
  BY <1>2, <1>3 DEF IInv, Typed, Alone, Knows, Stages, Truth, Exports, ExportedByGadget, Working, tree, dirs, image, oper
<1>4. ASSUME NEW p \in Helper, NEW state \in {"CONFIGURED", "DISCONNECTED"}, Spawn(p, state)
      PROVE  IInv'
  <2>1. PICK s \in {"enable.test", "disable.clear"} : Goto(p, s)
    BY <1>4 DEF Spawn
  <2>2. ~Working(p) /\ Starts(p) /\ p \in Proc /\ p # Op
    BY <1>1, <1>4 DEF Spawn, Working, LunStep
  <2>3. cmd' \in Command
    BY <1>2 DEF IInv, Typed, oper
  <2>4. (Typed /\ Alone /\ Knows)'
    BY <1>2, <2>1, <2>2, <2>3, EnterSteps
  <2>5. \A q \in Proc : pc'[q] = IF q = p THEN s ELSE pc[q]
    BY <2>1 DEF IInv, Typed, Goto
  <2>6. Stages'
    BY <1>1, <1>2, <2>1, <2>2, <2>5 DEF IInv, Stages, oper, LunStep
  <2>7. Truth' /\ Exports'
    BY <1>1, <1>2, <2>2, <2>5 DEF IInv, Truth, Exports, ExportedByGadget, oper, tree, dirs, image
  <2>8. QED
    BY <2>4, <2>6, <2>7 DEF IInv
<1>5. QED
  BY <1>3, <1>4 DEF Connect, Configured, Disconnect

LEMMA NextIInv == IInv /\ [Next]_vars => IInv'
<1> SUFFICES ASSUME IInv, [Next]_vars PROVE IInv'
  OBVIOUS
<1>1. CASE \E c \in Command : Give(c)
  BY <1>1, GiveStep
<1>2. CASE Mount \/ Build \/ Bind \/ Config \/ Find \/ Unlink \/ Unmount \/ Remove
  BY <1>2, OperatorSteps, OperatorTruth DEF IInv
<1>3. CASE Register
  <2>1. Op \in Proc /\ ~Working(Op) /\ Goto(Op, "read") /\ Starts(Op)
    BY <1>3 DEF Register, Working, LunStep, Proc
  <2>2. UNCHANGED image /\ cmd' \in Command
    BY <1>3 DEF Register, IInv, Typed
  <2>3. (Typed /\ Alone /\ Knows)'
    BY <2>1, <2>2, EnterSteps
  <2>4. QED
    BY <1>3, <2>3, OperatorTruth DEF IInv
<1>4. CASE Read
  <2>1. PICK s \in {"enable.test", "disable.clear", "idle"} : Goto(Op, s)
    BY <1>4 DEF Read
  <2>2. Working(Op) /\ UNCHANGED <<overlap, cmd, lun, local>> /\ Op \in Proc
    BY <1>4 DEF Read, Working, LunStep, oper, image, Proc
  <2>3. s \in Stage
    BY DEF Stage, LunStep
  <2>4. /\ pc' \in [Proc -> Stage]
        /\ \A q \in Proc : pc'[q] = IF q = Op THEN s ELSE pc[q]
        /\ Alone'
    BY <2>1, <2>2, <2>3, WorkingSteps
  <2>5. Typed'
    BY <2>2, <2>4 DEF IInv, Typed
  <2>6. Knows'
    BY <2>1, <2>2, <2>4 DEF IInv, Knows
  <2>7. QED
    BY <1>4, <2>4, <2>5, <2>6, OperatorTruth DEF IInv
<1>5. CASE \E p \in Proc : ImageStep(p)
  BY <1>5, ImageSteps, ImageTruth DEF IInv
<1>6. CASE Connect \/ Configured \/ Disconnect
  BY <1>6, UsbStep
<1>7. CASE UNCHANGED vars
  BY <1>7 DEF vars, IInv, Typed, Alone, Knows, Stages, Truth, Exports, ExportedByGadget, Working,
     tree, dirs, image, oper
<1>8. QED
  BY <1>1, <1>2, <1>3, <1>4, <1>5, <1>6, <1>7 DEF Next, OpStep
-----------------------------------------------------------------------------
(* The strengthened invariant holds in every reachable state: the ground   *)
(* of the theorems below.                                                  *)
THEOREM Inductive == Spec => []IInv
BY InitIInv, NextIInv, PTL DEF Spec

(* Whatever helpers, commands and events there are, the image is exported  *)
(* and mounted at a time only after two processes worked on it at a time.  *)
THEOREM TwiceByOverlap == Spec => []NeverTwiceInUse
<1>1. IInv => NeverTwiceInUse
  BY DEF IInv, Typed, Knows, NeverTwiceInUse
<1>2. QED
  BY <1>1, Inductive, PTL

(* stop never leaves the image exported by a gadget that has gone. *)
THEOREM Exported == Spec => []ExportedByGadget
<1>1. IInv => ExportedByGadget
  BY DEF IInv, Exports
<1>2. QED
  BY <1>1, Inductive, PTL

(* Between commands .usb_config names a gadget that is not bound only when *)
(* a stop of that gadget has failed part way since the file was written.   *)
THEOREM ConfigTruth == Spec => []ConfigIsBound
<1>1. IInv => ConfigIsBound
  BY DEF IInv, Truth, ConfigIsBound
<1>2. QED
  BY <1>1, Inductive, PTL
-----------------------------------------------------------------------------
(* The gadget with the image is bound only after its helper was named, or  *)
(* just before; and stop has unbound it before it closes the image.        *)
Heard ==
  /\ udc = "rockchip" /\ pc[Op] # "register" => hotplug
  /\ pc[Op] = "read" => hotplug
  /\ pc[Op] = "remove" /\ cmd = "ums_stop" => udc # "rockchip"

(* What ImageFollowsUsb says at rest, at every other moment: while nothing *)
(* overlaps and nothing has failed, whoever works on the image is bringing *)
(* it to where the present state of USB wants it, and when nobody works it *)
(* is there.  Between registering the helper and reading the state, update *)
(* has not caught up yet.                                                  *)
Smooth == ~overlap /\ ~excused /\ udc = "rockchip" /\ pc[Op] \notin {"register", "read"}

EnableStep == {"enable.test", "enable.umount", "enable.set"}
DisableStep == {"disable.clear", "disable.test", "disable.mount"}
Towards == IF usb = "CONFIGURED" THEN EnableStep ELSE DisableStep

There ==
  IF usb = "CONFIGURED" THEN lun /\ local = 0 ELSE ~lun /\ local = 1

Follows ==
  Smooth => /\ \A p \in Proc : Working(p) => pc[p] \in Towards
            /\ (\A p \in Proc : ~Working(p)) => There

OperatorRest == Mount \/ Build \/ Bind \/ Config \/ Find \/ Unlink \/ Unmount \/ Remove

LEMMA InitFollows == Init => Heard /\ Follows
BY DEF Init, Heard, Follows, Smooth, Proc

LEMMA HeardStep == ASSUME IInv, Heard, [Next]_vars PROVE Heard'
<1>1. Op \in Proc /\ Op \notin Helper
  BY ProcAssumption DEF Proc
<1>2. pc \in [Proc -> Stage] /\ cmd \in Command
  BY DEF IInv, Typed
<1> USE <1>1, <1>2 DEF Heard, Goto, Fail, StopFails, tree, dirs, oper
<1>3. CASE \E c \in Command : Give(c)
  <2>1. pc[Op] = "idle" /\ pc'[Op] \notin {"register", "read", "remove"} /\ UNCHANGED <<udc, hotplug>>
    BY <1>3 DEF Give, Command
  <2>2. QED
    BY <2>1
<1>4. CASE Mount \/ Build \/ Find \/ Config \/ Unmount
  <2>1. /\ pc[Op] # "register" /\ pc'[Op] \notin {"register", "read", "remove"}
        /\ UNCHANGED <<udc, hotplug>>
    BY <1>4 DEF Mount, Build, Find, Config, Unmount
  <2>2. QED
    BY <2>1
<1>5. CASE Bind
  <2>1. /\ pc[Op] = "bind" /\ pc'[Op] \notin {"read", "remove"} /\ UNCHANGED hotplug
        /\ udc' = udc \/ udc' = Own
    BY <1>5 DEF Bind
  <2>2. udc' # udc /\ udc' = "rockchip" => pc'[Op] = "register"
    BY <1>5 DEF Bind, Own
  <2>3. QED
    BY <2>1, <2>2
<1>6. CASE Unlink
  <2>1. pc'[Op] \in {"remove", "idle"} /\ cmd' = cmd /\ hotplug' = hotplug
    BY <1>6 DEF Unlink
  <2>2. udc' = "rockchip" => /\ udc = "rockchip" /\ pc[Op] # "register"
                             /\ pc'[Op] = "remove" => cmd # "ums_stop"
    BY <1>6 DEF Unlink, Own
  <2>3. QED
    BY <2>1, <2>2
<1>7. CASE Remove
  <2>1. pc[Op] = "remove" /\ pc'[Op] \in {"umount", "idle"} /\ UNCHANGED <<udc, hotplug>>
    BY <1>7 DEF Remove
  <2>2. QED
    BY <2>1
<1>8. CASE Register
  <2>1. hotplug' /\ pc'[Op] = "read"
    BY <1>8 DEF Register
  <2>2. QED
    BY <2>1
<1>9. CASE Read
  <2>1. pc[Op] = "read" /\ pc'[Op] \in {"enable.test", "disable.clear", "idle"} /\ UNCHANGED <<udc, hotplug>>
    BY <1>9 DEF Read
  <2>2. QED
    BY <2>1
<1>10. CASE \E p \in Proc : ImageStep(p)
  <2>1. PICK p \in Proc : ImageStep(p)
    BY <1>10
  <2>2. PICK s \in (LunStep \ {"read"}) \cup {"idle", "config"} : Goto(p, s)
    BY <2>1 DEF ImageStep, EnableTest, EnableUmount, EnableSet, DisableClear, DisableTest,
       DisableMount, Done, LunStep
  <2>3. UNCHANGED <<udc, hotplug, cmd>> /\ pc[p] \in LunStep
    BY <2>1 DEF ImageStep, EnableTest, EnableUmount, EnableSet, DisableClear, DisableTest,
       DisableMount, LunStep
  <2>4. \/ pc'[Op] = pc[Op]
        \/ pc[Op] # "register" /\ pc'[Op] \notin {"register", "read", "remove"}
    BY <2>2, <2>3 DEF LunStep
  <2>5. QED
    BY <2>3, <2>4
<1>11. CASE Connect \/ Configured \/ Disconnect
  <2>1. UNCHANGED <<udc, hotplug, cmd>> /\ pc'[Op] = pc[Op]
    BY <1>11 DEF Connect, Configured, Disconnect, Spawn
  <2>2. QED
    BY <2>1
<1>12. CASE UNCHANGED vars
  BY <1>12 DEF vars
<1>13. QED
  BY <1>3, <1>4, <1>5, <1>6, <1>7, <1>8, <1>9, <1>10, <1>11, <1>12 DEF Next, OpStep

(* Steps of the operator that do not work on the image: what the others    *)
(* are doing, and where the image is, stay as they are.                    *)
LEMMA OperatorFollows ==
  ASSUME IInv, Heard, Follows, OperatorRest \/ \E c \in Command : Give(c)
  PROVE  Follows'
<1> SUFFICES ASSUME Smooth' PROVE Follows'
  BY DEF Follows
<1>1. Op \in Proc /\ pc \in [Proc -> Stage] /\ cmd \in Command
  BY DEF Proc, IInv, Typed
<1> USE <1>1 DEF OperatorRest, Goto, Fail, StopFails
<1>2. ~overlap' /\ ~excused' /\ udc' = "rockchip" /\ pc'[Op] # "register"
  BY DEF Smooth
<1>3. /\ pc[Op] \notin LunStep \cup {"register"} /\ pc'[Op] \notin LunStep
      /\ \A q \in Proc \ {Op} : pc'[q] = pc[q]
  <2>1. CASE \E c \in Command : Give(c)
    <3>1. PICK c \in Command : Give(c)
      BY <2>1
    <3>2. c \notin {"ums_enable", "ums_disable"}
      BY <1>2, <3>1 DEF Give
    <3>3. QED
      BY <3>1, <3>2 DEF Give, Command, LunStep
  <2>2. CASE Mount \/ Build \/ Bind
    BY <2>2 DEF Mount, Build, Bind, LunStep
  <2>3. CASE Config \/ Find \/ Unlink \/ Unmount \/ Remove
    BY <2>3 DEF Config, Find, Unlink, Unmount, Remove, LunStep
  <2>4. QED
    BY <2>1, <2>2, <2>3
<1>4. UNCHANGED <<overlap, excused, usb, local>>
  <2>1. CASE \E c \in Command : Give(c)
    <3>1. PICK c \in Command : Give(c)
      BY <2>1
    <3>2. c \notin {"ums_enable", "ums_disable"}
      BY <1>2, <3>1 DEF Give
    <3>3. QED
      BY <3>1, <3>2 DEF Give, host, image
  <2>2. CASE Mount \/ Build \/ Bind
    BY <2>2 DEF Mount, Build, Bind, host, image
  <2>3. CASE Config \/ Find \/ Unlink \/ Unmount \/ Remove
    BY <2>3 DEF Config, Find, Unlink, Unmount, Remove, host, image
  <2>4. QED
    BY <2>1, <2>2, <2>3
<1>5. udc = "rockchip"
  <2>1. CASE Bind
    BY <1>2, <2>1 DEF Bind, Own
  <2>2. CASE Unlink
    BY <1>2, <2>2 DEF Unlink
  <2>3. CASE (\E c \in Command : Give(c)) \/ Mount \/ Build \/ Config \/ Find \/ Unmount \/ Remove
    BY <1>2, <2>3 DEF Give, Mount, Build, Config, Find, Unmount, Remove, tree
  <2>4. QED
    BY <2>1, <2>2, <2>3
<1>6. lun' = lun
  <2>1. CASE Remove
    <3>1. cmd \in {"ums_stop", "acm_stop"} /\ cmd # "ums_stop"
      BY <1>5, <2>1 DEF Remove, Heard, IInv, Stages
    <3>2. Own # "rockchip"
      BY <3>1 DEF Own
    <3>3. lun \in BOOLEAN /\ (lun => "rockchip" \in functions)
      BY DEF IInv, Typed, Exports, ExportedByGadget
    <3>4. QED
      BY <2>1, <3>2, <3>3 DEF Remove
  <2>2. CASE (\E c \in Command : Give(c)) \/ Mount \/ Build \/ Bind \/ Config \/ Find \/ Unlink \/ Unmount
    BY <2>2 DEF Give, Mount, Build, Bind, Config, Find, Unlink, Unmount, image
  <2>3. QED
    BY <2>1, <2>2
<1>7. Smooth
  BY <1>2, <1>3, <1>4, <1>5 DEF Smooth, LunStep
<1>8. \A q \in Proc : Working(q)' <=> Working(q)
  BY <1>3 DEF Working
<1>9. \A q \in Proc : Working(q) => pc'[q] = pc[q]
  BY <1>3 DEF Working
<1>10. Towards' = Towards /\ (There' <=> There)
  BY <1>4, <1>6 DEF Towards, There
<1>11. QED
  BY <1>7, <1>8, <1>9, <1>10 DEF Follows

(* update reads the state and sets out for it. *)
LEMMA ReadFollows == ASSUME IInv, Read PROVE Follows'
<1> SUFFICES ASSUME Smooth' PROVE Follows'
  BY DEF Follows
<1>1. Op \in Proc /\ pc \in [Proc -> Stage]
  BY DEF Proc, IInv, Typed
<1>2. /\ pc[Op] = "read" /\ UNCHANGED <<usb, overlap>>
      /\ pc' = [pc EXCEPT ![Op] = IF usb = "CONFIGURED" THEN "enable.test" ELSE "disable.clear"]
  BY DEF Read, Goto, host, Smooth
<1>3. pc'[Op] \in Towards' /\ Working(Op)'
  BY <1>1, <1>2 DEF Towards, EnableStep, DisableStep, Working, LunStep
<1>4. ~overlap' => \A q \in Proc : Working(q)' => q = Op
  <2>1. ~overlap => \A q \in Proc : Working(q) => q = Op
    BY <1>1, <1>2 DEF IInv, Alone, Working, LunStep
  <2>2. QED
    BY <1>1, <1>2, <2>1 DEF Working
<1>5. QED
  BY <1>1, <1>3, <1>4 DEF Follows, Smooth

(* Whoever works on the image goes on towards the state it set out for,    *)
(* and has reached it when it ends without a failure.                      *)
LEMMA ImageFollows == ASSUME IInv, Follows, NEW p \in Proc, ImageStep(p) PROVE Follows'
<1> SUFFICES ASSUME Smooth' PROVE Follows'
  BY DEF Follows
<1> USE DEF Goto, Done
<1>1. Op \in Proc /\ pc \in [Proc -> Stage]
  BY DEF Proc, IInv, Typed
<1>2. PICK s \in Stage : pc' = [pc EXCEPT ![p] = s] /\ s # "read"
  BY DEF ImageStep, EnableTest, EnableUmount, EnableSet, DisableClear, DisableTest,
     DisableMount, Stage, LunStep
<1>3. UNCHANGED <<usb, overlap, udc>> /\ pc[p] \in EnableStep \cup DisableStep
  BY DEF ImageStep, EnableTest, EnableUmount, EnableSet, DisableClear, DisableTest,
     DisableMount, EnableStep, DisableStep, host, tree
<1>4. Working(p)
  BY <1>3 DEF Working, LunStep, EnableStep, DisableStep
<1>5. ~overlap /\ ~excused'
  BY <1>3 DEF Smooth
<1>6. ~excused
  <2>1. excused' = excused \/ excused' = TRUE
    BY DEF ImageStep, EnableTest, EnableUmount, EnableSet, DisableClear, DisableTest, DisableMount
  <2>2. QED
    BY <1>5, <2>1
<1>7. Smooth
  <2>1. udc = "rockchip" /\ pc'[Op] \notin {"register", "read"}
    BY <1>3 DEF Smooth
  <2>2. pc[Op] \notin {"register", "read"}
    BY <1>1, <1>2, <1>3, <2>1 DEF EnableStep, DisableStep
  <2>3. QED
    BY <1>5, <1>6, <2>1, <2>2 DEF Smooth
<1>8. pc[p] \in Towards
  BY <1>4, <1>7 DEF Follows
<1>9. /\ \A q \in Proc \ {p} : ~Working(q)'
      /\ pc'[p] = s
  BY <1>1, <1>2, <1>4, <1>5 DEF IInv, Alone, Working
<1>10. local \in Nat /\ local <= 1 /\ (pc[p] = "enable.set" => local = 0)
       /\ (pc[p] = "disable.test" => ~lun)
       /\ (pc[p] = "disable.mount" => ~lun)
       /\ (pc[p] = "disable.mount" => local = 0)
  BY <1>5 DEF IInv, Typed, Knows
<1>11. CASE usb = "CONFIGURED"
  <2>1. pc[p] \in EnableStep
    BY <1>8, <1>11 DEF Towards
  <2>2. s \in EnableStep \/ (s \notin LunStep /\ EnableSet(p))
    <3>1. CASE EnableTest(p)
      BY <1>1, <1>9, <3>1 DEF EnableTest, EnableStep
    <3>2. CASE EnableUmount(p)
      <4>1. pc' = [pc EXCEPT ![p] = "enable.set"] \/ excused' = TRUE
        BY <3>2 DEF EnableUmount
      <4>2. pc' = [pc EXCEPT ![p] = "enable.set"]
        BY <1>5, <4>1
      <4>3. QED
        BY <1>1, <1>9, <4>2 DEF EnableStep
    <3>3. CASE EnableSet(p)
      BY <1>1, <1>9, <3>3 DEF EnableSet, LunStep
    <3>4. ~DisableClear(p) /\ ~DisableTest(p) /\ ~DisableMount(p)
      BY <2>1 DEF DisableClear, DisableTest, DisableMount, EnableStep
    <3>5. QED
      BY <3>1, <3>2, <3>3, <3>4 DEF ImageStep
  <2>3. CASE s \in EnableStep
    BY <1>3, <1>9, <1>11, <2>3 DEF Follows, Towards, Working, EnableStep, LunStep
  <2>4. CASE s \notin LunStep /\ EnableSet(p)
    <3>1. lun' = TRUE
      BY <1>5, <2>4 DEF EnableSet
    <3>2. local' = 0
      BY <1>10, <2>4 DEF EnableSet
    <3>3. There'
      BY <1>3, <1>11, <3>1, <3>2 DEF There
    <3>4. QED
      BY <1>9, <2>4, <3>3 DEF Follows, Working
  <2>5. QED
    BY <2>2, <2>3, <2>4
<1>12. CASE usb # "CONFIGURED"
  <2>1. pc[p] \in DisableStep
    BY <1>8, <1>12 DEF Towards
  <2>2. \/ s \in DisableStep
        \/ s \notin LunStep /\ DisableTest(p) /\ local > 0
        \/ s \notin LunStep /\ DisableMount(p)
    <3>1. CASE DisableClear(p)
      <4>1. pc' = [pc EXCEPT ![p] = "disable.test"] \/ excused' = TRUE
        BY <3>1 DEF DisableClear
      <4>2. pc' = [pc EXCEPT ![p] = "disable.test"]
        BY <1>5, <4>1
      <4>3. QED
        BY <1>1, <1>9, <4>2 DEF DisableStep
    <3>2. CASE DisableTest(p)
      BY <1>1, <1>9, <3>2 DEF DisableTest, DisableStep, LunStep
    <3>3. CASE DisableMount(p)
      BY <1>1, <1>9, <3>3 DEF DisableMount, LunStep
    <3>4. ~EnableTest(p) /\ ~EnableUmount(p) /\ ~EnableSet(p)
      BY <2>1 DEF EnableTest, EnableUmount, EnableSet, DisableStep
    <3>5. QED
      BY <3>1, <3>2, <3>3, <3>4 DEF ImageStep
  <2>3. CASE s \in DisableStep
    BY <1>3, <1>9, <1>12, <2>3 DEF Follows, Towards, Working, DisableStep, LunStep
  <2>4. CASE s \notin LunStep /\ DisableTest(p) /\ local > 0
    <3>1. lun' = lun /\ local' = local /\ pc[p] = "disable.test"
      BY <2>4 DEF DisableTest, image
    <3>2. ~lun'
      BY <1>10, <3>1
    <3>3. local' = 1
      BY <1>10, <2>4, <3>1
    <3>4. There'
      BY <1>3, <1>12, <3>2, <3>3 DEF There
    <3>5. QED
      BY <1>9, <2>4, <3>4 DEF Follows, Working
  <2>5. CASE s \notin LunStep /\ DisableMount(p)
    <3>1. lun' = lun /\ pc[p] = "disable.mount"
      BY <2>5 DEF DisableMount
    <3>2. ~lun'
      BY <1>10, <3>1
    <3>3. local' = local + 1
      BY <1>5, <2>5 DEF DisableMount
    <3>4. local' = 1
      BY <1>10, <3>1, <3>3
    <3>5. There'
      BY <1>3, <1>12, <3>2, <3>4 DEF There
    <3>6. QED
      BY <1>9, <2>5, <3>5 DEF Follows, Working
  <2>6. QED
    BY <2>2, <2>3, <2>4, <2>5
<1>13. QED
  BY <1>11, <1>12

(* An event sets a helper on its way; only CONNECTED needs none. *)
LEMMA UsbFollows ==
  ASSUME IInv, Heard, Follows, Connect \/ Configured \/ Disconnect
  PROVE  Follows'
<1> SUFFICES ASSUME Smooth' PROVE Follows'
  BY DEF Follows
<1>1. Op \in Proc /\ Op \notin Helper /\ pc \in [Proc -> Stage] /\ Helper \subseteq Proc
  BY ProcAssumption DEF Proc, IInv, Typed
<1>2. /\ udc = "rockchip" /\ UNCHANGED <<lun, local, hotplug>>
      /\ pc'[Op] \notin {"register", "read"}
      /\ ~overlap' /\ ~excused'
  BY DEF Smooth, Connect, Configured, Disconnect, tree, image, oper
<1>3. pc'[Op] = pc[Op]
  BY <1>1 DEF Connect, Configured, Disconnect, Spawn, Goto
<1>4. hotplug
  BY <1>2, <1>3 DEF Heard
<1>5. CASE Connect
  <2>1. usb # "CONFIGURED" /\ usb' # "CONFIGURED" /\ UNCHANGED <<pc, overlap, excused>>
    BY <1>5 DEF Connect
  <2>2. Smooth
    BY <1>2, <1>3, <2>1 DEF Smooth
  <2>3. Towards' = Towards /\ (There' <=> There)
    BY <1>2, <2>1 DEF Towards, There
  <2>4. \A q \in Proc : Working(q)' <=> Working(q)
    BY <2>1 DEF Working
  <2>5. QED
    BY <2>1, <2>2, <2>3, <2>4 DEF Follows
<1>6. ASSUME NEW q \in Helper, NEW state \in {"CONFIGURED", "DISCONNECTED"},
             usb' = state, Spawn(q, state)
      PROVE  Follows'
  <2>1. /\ pc' = [pc EXCEPT ![q] = IF state = "CONFIGURED" THEN "enable.test" ELSE "disable.clear"]
        /\ Starts(q)
    BY <1>6 DEF Spawn, Goto
  <2>2. pc'[q] \in Towards' /\ Working(q)' /\ q \in Proc
    BY <1>1, <1>6, <2>1 DEF Towards, EnableStep, DisableStep, Working, LunStep
  <2>3. \A r \in Proc \ {q} : ~Working(r)
    BY <1>2, <2>1 DEF Starts
  <2>4. \A r \in Proc \ {q} : ~Working(r)'
    BY <1>1, <2>1, <2>3 DEF Working
  <2>5. QED
    BY <2>2, <2>4 DEF Follows
<1>7. CASE Configured
  BY <1>4, <1>6, <1>7 DEF Configured
<1>8. CASE Disconnect
  BY <1>4, <1>6, <1>8 DEF Disconnect
<1>9. QED
  BY <1>5, <1>7, <1>8

LEMMA FollowsStep == ASSUME IInv, Heard, Follows, [Next]_vars PROVE Follows'
<1>1. CASE OperatorRest \/ \E c \in Command : Give(c)
  BY <1>1, OperatorFollows
<1>2. CASE Register
  <2>1. pc'[Op] = "read"
    BY <1>2 DEF Register, Goto, IInv, Typed, Proc
  <2>2. QED
    BY <2>1 DEF Follows, Smooth
<1>3. CASE Read
  BY <1>3, ReadFollows
<1>4. CASE \E p \in Proc : ImageStep(p)
  BY <1>4, ImageFollows
<1>5. CASE Connect \/ Configured \/ Disconnect
  BY <1>5, UsbFollows
<1>6. CASE UNCHANGED vars
  BY <1>6 DEF vars, Follows, Smooth, Working, Towards, There
<1>7. QED
  BY <1>1, <1>2, <1>3, <1>4, <1>5, <1>6 DEF Next, OpStep, OperatorRest

(* No event is lost: whenever everything has come to rest, the image is    *)
(* where the state of USB wants it.  ums.sh names the helper before it     *)
(* reads the state, so that an event before the reading is seen by it and  *)
(* one after it is answered by a helper.                                   *)
THEOREM Followed == Spec => []ImageFollowsUsb
<1>1. Heard /\ Follows => ImageFollowsUsb
  <2> SUFFICES ASSUME Follows, Settled, udc = "rockchip", ~overlap, ~excused
               PROVE  /\ lun <=> (usb = "CONFIGURED")
                      /\ local = IF usb = "CONFIGURED" THEN 0 ELSE 1
    BY DEF ImageFollowsUsb
  <2>1. \A p \in Proc : pc[p] = "idle"
    BY DEF Settled
  <2>2. Smooth /\ \A p \in Proc : ~Working(p)
    BY <2>1 DEF Smooth, Proc, Working, LunStep
  <2>3. There
    BY <2>2 DEF Follows
  <2>4. QED
    BY <2>3 DEF There
<1>2. QED
  BY <1>1, InitFollows, HeardStep, FollowsStep, Inductive, PTL DEF Spec
-----------------------------------------------------------------------------
(* The variables that IInv does not speak of: Booleans, names and counters. *)
Switches == configfs \in BOOLEAN /\ hotplug \in BOOLEAN /\ excused \in BOOLEAN

Names ==
  /\ gadgets \subseteq Gadget /\ functions \subseteq Gadget /\ linked \subseteq Gadget
  /\ broken \subseteq Gadget /\ udc \in Gadget \cup {"none"}
  /\ usb \in {"DISCONNECTED", "CONNECTED", "CONFIGURED"} /\ config \in {"", "ums", "acm"}

Counters == cmds \in 0 .. MaxCmds /\ events \in 0 .. MaxEvents

LEMMA SwitchesStep == ASSUME Switches, [Next]_vars PROVE Switches'
<1> USE DEF Switches, tree, dirs, host, oper
<1>1. CASE OpStep
  BY <1>1 DEF OpStep, Give, Starts, Mount, Build, Bind, Register, Read, Config, Find, Unlink, Remove, Unmount
<1>2. CASE \E p \in Proc : ImageStep(p)
  BY <1>2 DEF ImageStep, EnableTest, EnableUmount, EnableSet, DisableClear, DisableTest, DisableMount
<1>3. CASE Connect \/ Configured \/ Disconnect
  BY <1>3 DEF Connect, Configured, Disconnect, Spawn
<1>4. QED
  BY <1>1, <1>2, <1>3 DEF Next, vars

LEMMA NamesStep == ASSUME Names, [Next]_vars PROVE Names'
<1> USE DEF Names, tree, dirs, host, oper, StopFails, Own, Gadget
<1>1. CASE (\E c \in Command : Give(c)) \/ Mount \/ Build \/ Bind \/ Register
  BY <1>1 DEF Give, Mount, Build, Bind, Register, Own, Gadget
<1>2. CASE Read \/ Config \/ Find \/ Unlink \/ Remove \/ Unmount
  BY <1>2 DEF Read, Config, Find, Unlink, Remove, Unmount
<1>3. CASE \E p \in Proc : ImageStep(p)
  BY <1>3 DEF ImageStep, EnableTest, EnableUmount, EnableSet, DisableClear, DisableTest, DisableMount
<1>4. CASE Connect \/ Configured \/ Disconnect
  BY <1>4 DEF Connect, Configured, Disconnect
<1>5. QED
  BY <1>1, <1>2, <1>3, <1>4 DEF Next, OpStep, vars

LEMMA CountersStep == ASSUME Counters, [Next]_vars PROVE Counters'
<1>1. \/ UNCHANGED <<cmds, events>>
      \/ events' = events /\ cmds < MaxCmds /\ cmds' = cmds + 1
      \/ cmds' = cmds /\ events < MaxEvents /\ events' = events + 1
  <2> USE DEF host, oper
  <2>1. CASE OpStep
    BY <2>1 DEF OpStep, Give, Mount, Build, Bind, Register, Read, Config, Find, Unlink, Remove, Unmount
  <2>2. CASE \E p \in Proc : ImageStep(p)
    BY <2>2 DEF ImageStep, EnableTest, EnableUmount, EnableSet, DisableClear, DisableTest, DisableMount
  <2>3. CASE Connect \/ Configured \/ Disconnect
    BY <2>3 DEF Connect, Configured, Disconnect
  <2>4. QED
    BY <2>1, <2>2, <2>3 DEF Next, vars
<1>2. QED
  BY <1>1, BoundAssumption DEF Counters

(* The variables have their types, for any helpers, commands and events. *)
THEOREM TypeCorrect == Spec => []TypeOK
<1>1. Init => Switches
  BY Zenon DEF Init, Switches
<1>2. Init => Names
  BY DEF Init, Names
<1>3. Init => Counters
  <2>1. Init => cmds = 0 /\ events = 0
    BY DEF Init
  <2>2. QED
    BY <2>1, BoundAssumption DEF Counters
<1>4. IInv /\ Switches /\ Names /\ Counters => TypeOK
  BY Zenon DEF IInv, Typed, Switches, Names, Counters, TypeOK
<1>5. QED
  BY <1>1, <1>2, <1>3, <1>4, SwitchesStep, NamesStep, CountersStep, Inductive, PTL DEF Spec
============================================================================
