---------------------------- MODULE UpgradeProofs ----------------------------
(***************************************************************************)
(* For any packages and files: a run in which no command failed has        *)
(* installed its package for good, and nothing but a listed kernel is      *)
(* written.  The inductive invariant follows one run through its commands, *)
(* saying after each what a run without a failure has achieved, and that   *)
(* what it wrote to the root file system is synced before it goes on.      *)
(***************************************************************************)
EXTENDS Upgrade, TLAPS

Image == [v : Version, ok : BOOLEAN] \cup {Absent}

Typed ==
  /\ tarball \in [kernel : Image, fs : Image]
  /\ sums \in {Whole(v) : v \in Version} \cup {Absent}
  /\ kernel \in Image /\ fs \in Image
  /\ overlay \in [File -> Content] /\ root \in [File -> Content]
  /\ done \in [fs : Version \cup {None}, kernel : Version \cup {None}]
  /\ mode \in {"kernel", "fs", "all"} /\ failed \in BOOLEAN

Order ==
  /\ pc \in {"checkFs", "copy", "syncFs"} => DoFs
  /\ pc \in {"checkKernel", "dd", "syncKernel"} => DoKernel
  /\ pc = "end" /\ DoKernel => dirty = {}
  /\ "root" \in dirty => pc = "syncFs" /\ done.fs = None

Checked ==
  /\ pc = "copy" => fs = sums
  /\ pc = "dd" => kernel = sums /\ kernel # Absent

Unpacked ==
  pc \in {"checkFs", "copy"} /\ ~failed /\ fs.ok
    => \A f \in Ships[fs.v] : overlay[f] = Whole(fs.v)

Copied ==
  pc \in {"syncFs", "checkKernel", "dd", "syncKernel", "end"} /\ ~failed /\ DoFs /\ fs.v # None
    => \A f \in Ships[fs.v] : root[f] = Whole(fs.v)

Written ==
  pc \in {"syncKernel", "end"} /\ ~failed /\ DoKernel
    => kernel.v \in Version /\ part = Whole(kernel.v)

IInv == Typed /\ Order /\ Checked /\ Unpacked /\ Copied /\ Written /\ InstalledLasts
-----------------------------------------------------------------------------
LEMMA ImageFacts ==
  /\ \A x \in Image : x \in Content /\ Torn(x) \in Image /\ x.ok \in BOOLEAN
  /\ \A x \in Image : x.v = None <=> x = Absent
  /\ \A x \in Image : x.v # None => x.v \in Version
  /\ \A v \in Version : Whole(v) \in Content /\ Whole(v) # Absent
  /\ \A x \in Content : Torn(x) \in Content
<1>0. Absent \in Content /\ Absent.ok = FALSE /\ Torn(Absent) = Absent
  <2>1. Absent \in Content /\ Absent.v = None /\ Absent.ok = FALSE
    BY DEF Content, Absent
  <2>2. \A x \in Content : Torn(x) \in Content /\ Torn(x).v = x.v /\ Torn(x).ok = FALSE
    BY DEF Torn, Content
  <2>3. \A x, y \in Content : x.v = y.v /\ x.ok = y.ok => x = y
    BY DEF Content
  <2>4. QED
    BY <2>1, <2>2, <2>3
<1>1. \A x \in Image : x \in Content /\ x.ok \in BOOLEAN
  BY <1>0 DEF Image, Content
<1>2. \A x \in Image : Torn(x) \in Image
  <2> TAKE x \in Image
  <2>1. CASE x = Absent
    <3>1. Torn(x) = Absent
      BY <1>0, <2>1
    <3>2. QED
      BY <3>1 DEF Image
  <2>2. CASE x \in [v : Version, ok : BOOLEAN]
    BY <2>2 DEF Torn, Image
  <2>3. QED
    BY <2>1, <2>2 DEF Image
<1>3. \A x \in Image : (x.v = None <=> x = Absent) /\ (x.v # None => x.v \in Version)
  BY UpgradeAssumption DEF Image, Absent
<1>4. \A v \in Version : Whole(v) \in Content /\ Whole(v) # Absent
  BY DEF Content, Absent, Whole
<1>5. \A x \in Content : Torn(x) \in Content
  BY DEF Content, Torn
<1>6. QED
  BY <1>1, <1>2, <1>3, <1>4, <1>5

(* The list of sums names whole images: what equals it is whole.           *)
LEMMA ListedIsWhole ==
  ASSUME Typed, NEW x \in Image, x = sums, x # Absent
  PROVE  x.v \in Version /\ x = Whole(x.v) /\ x.ok
  BY DEF Typed, Whole

LEMMA InitIInv == Init => IInv
<1> SUFFICES ASSUME Init PROVE IInv
  OBVIOUS
<1>1. Absent \in Image /\ Absent \in Content /\ Whole(Factory) \in Content
  BY DEF Image, Content, Absent, Whole
<1>2. Typed
  BY <1>1 DEF Init, Typed, Nothing
<1>3. Order /\ Checked /\ Unpacked /\ Copied /\ Written /\ InstalledLasts
  BY DEF Init, Order, Checked, Unpacked, Copied, Written, InstalledLasts, Nothing
<1>4. QED
  BY <1>2, <1>3 DEF IInv

(* Outside a run nothing that is installed changes. *)
LEMMA OperatorStep ==
  ASSUME IInv, (\E v \in Version : CopyTar(v) \/ CopySums(v))
                 \/ \E argument \in {"kernel", "fs", "all"} : Start(argument)
  PROVE  IInv'
<1>1. /\ UNCHANGED <<extracted, installed, dirty, history>>
      /\ pc = "idle" /\ pc' \in {"idle", "tar"} /\ failed' \in BOOLEAN
      /\ mode' \in {"kernel", "fs", "all"}
  BY DEF CopyTar, CopySums, Start, IInv, Typed
<1>2. tarball' \in [kernel : Image, fs : Image]
  BY DEF CopyTar, CopySums, Start, package, IInv, Typed, Image
<1>3. sums' \in {Whole(v) : v \in Version} \cup {Absent}
  BY DEF CopyTar, CopySums, Start, package, IInv, Typed
<1>4. Typed'
  BY <1>1, <1>2, <1>3 DEF IInv, Typed, extracted, installed, history
<1>5. QED
  BY <1>1, <1>4 DEF IInv, Order, Checked, Unpacked, Copied, Written, InstalledLasts, installed,
     history

LEMMA ExtractStep == ASSUME IInv, ExtractPackage \/ ExtractOverlay PROVE IInv'
<1>1. Typed /\ Order /\ InstalledLasts
  BY DEF IInv
<1>2. CASE ExtractPackage
  <2>1. /\ pc = "tar" /\ pc' = "overlay" /\ dirty' = dirty \cup {"extracted"}
        /\ UNCHANGED <<package, overlay, installed, mode, history>>
        /\ failed' \in BOOLEAN
    BY <1>1, <1>2 DEF ExtractPackage, Fails, Works, Typed
  <2>2. kernel' \in Image /\ fs' \in Image
    <3>1. \A old, new \in Image : Partly(old, new) \subseteq Image
      BY ImageFacts DEF Partly
    <3>2. tarball.kernel \in Image /\ tarball.fs \in Image /\ kernel \in Image /\ fs \in Image
      BY <1>1 DEF Typed
    <3>3. QED
      BY <1>2, <3>1, <3>2 DEF ExtractPackage
  <2>3. Typed'
    BY <1>1, <2>1, <2>2 DEF Typed, package, installed, history
  <2>4. Order' /\ InstalledLasts'
    BY <1>1, <2>1 DEF Order, InstalledLasts, installed, history
  <2>5. QED
    BY <2>1, <2>3, <2>4 DEF IInv, Checked, Unpacked, Copied, Written
<1>3. CASE ExtractOverlay
  <2>1. /\ pc = "overlay" /\ dirty' = dirty \cup {"extracted"}
        /\ pc' = IF DoFs THEN "checkFs" ELSE "checkKernel"
        /\ UNCHANGED <<package, kernel, fs, installed, mode, history>>
        /\ failed' \in BOOLEAN
    BY <1>1, <1>3 DEF ExtractOverlay, Fails, Works, Typed
  <2>2. overlay' \in [File -> Content] /\ (~failed' /\ fs.ok => \A f \in Ships[fs.v] : overlay'[f] = Whole(fs.v))
    <3>1. CASE fs.ok /\ overlay' = [f \in File |-> IF f \in InArchive THEN Whole(fs.v) ELSE overlay[f]]
      <4>1. fs # Absent /\ fs.v \in Version /\ Ships[fs.v] \subseteq File
        BY <1>1, <3>1, ImageFacts, UpgradeAssumption DEF Typed, Absent
      <4>2. InArchive = Ships[fs.v] /\ Whole(fs.v) \in Content
        BY <4>1, ImageFacts DEF InArchive
      <4>3. QED
        BY <1>1, <3>1, <4>1, <4>2 DEF Typed
    <3>2. CASE overlay' \in [File -> Content] /\ (Fails \/ (~fs.ok /\ Works))
      BY <3>2 DEF Fails
    <3>3. QED
      BY <1>3, <3>1, <3>2 DEF ExtractOverlay
  <2>3. Typed'
    BY <1>1, <2>1, <2>2 DEF Typed, package, installed, history
  <2>4. Order' /\ InstalledLasts'
    BY <1>1, <2>1 DEF Order, InstalledLasts, installed, history, DoFs, DoKernel, Typed
  <2>5. Checked' /\ Unpacked' /\ Copied' /\ Written'
    BY <2>1, <2>2 DEF Checked, Unpacked, Copied, Written, DoFs
  <2>6. QED
    BY <2>3, <2>4, <2>5 DEF IInv
<1>4. QED
  BY <1>2, <1>3

(* The archive has passed its check when its files are copied, and then    *)
(* the whole package is on the root file system, if nothing has failed.    *)
LEMMA CheckFsStep == ASSUME IInv, CheckFs PROVE IInv'
<1>1. /\ pc = "checkFs" /\ pc' \in {"copy", "idle"} /\ (pc' = "copy" => fs = sums)
      /\ UNCHANGED <<package, extracted, installed, dirty, mode, runs, failed, done>>
  BY DEF CheckFs
<1>2. QED
  BY <1>1 DEF IInv, Typed, Order, Checked, Unpacked, Copied, Written, InstalledLasts, package,
     extracted, installed, DoFs, DoKernel

LEMMA CopyFsStep == ASSUME IInv, CopyFs PROVE IInv'
<1>1. Typed /\ Order /\ Checked /\ Unpacked /\ InstalledLasts
  BY DEF IInv
<1>2. /\ pc = "copy" /\ pc' = "syncFs" /\ DoFs /\ fs = sums
      /\ dirty' = dirty \cup {"root"} /\ done' = [done EXCEPT !.fs = None]
      /\ UNCHANGED <<package, extracted, part, mode>> /\ failed' \in BOOLEAN
      /\ root' \in [File -> Content]
  BY <1>1 DEF CopyFs, Order, Checked, Typed, Fails, Works
<1>3. /\ done' \in [fs : Version \cup {None}, kernel : Version \cup {None}]
      /\ done'.fs = None /\ done'.kernel = done.kernel
  BY <1>1, <1>2 DEF Typed
<1>4. Typed'
  BY <1>1, <1>2, <1>3 DEF Typed, package, extracted
<1>5. Order' /\ Checked' /\ Unpacked' /\ Written'
  BY <1>1, <1>2, <1>3 DEF Order, Checked, Unpacked, Written, DoFs, DoKernel
<1>6. InstalledLasts'
  BY <1>1, <1>2, <1>3 DEF InstalledLasts
<1>7. Copied'
  <2>1. SUFFICES ASSUME ~failed', fs.v # None, NEW f \in Ships[fs.v]
                 PROVE  root'[f] = Whole(fs.v)
    BY <1>2 DEF Copied, extracted
  <2>2. /\ ~failed
        /\ root' = [g \in File |-> IF overlay[g] # Absent THEN overlay[g] ELSE root[g]]
    BY <2>1 DEF CopyFs, Fails, Works
  <2>3. fs \in Image /\ fs # Absent
    BY <1>1, <2>1, ImageFacts DEF Typed
  <2>4. fs.v \in Version /\ fs.ok
    BY <1>1, <1>2, <2>3, ListedIsWhole
  <2>5. overlay[f] = Whole(fs.v) /\ Whole(fs.v) # Absent /\ f \in File
    BY <1>1, <1>2, <2>1, <2>2, <2>4, ImageFacts, UpgradeAssumption DEF Unpacked
  <2>6. QED
    BY <2>2, <2>5
<1>8. QED
  BY <1>4, <1>5, <1>6, <1>7 DEF IInv

LEMMA SyncStep == ASSUME IInv, Sync PROVE IInv'
<1>1. /\ \/ pc = "syncFs" /\ pc' = IF DoKernel THEN "checkKernel" ELSE "end"
         \/ pc = "syncKernel" /\ pc' = "end"
      /\ dirty' = {}
      /\ UNCHANGED <<package, extracted, installed, mode, runs, failed, history>>
  BY DEF Sync
<1>2. Typed' /\ Order' /\ Checked' /\ Unpacked' /\ InstalledLasts'
  BY <1>1 DEF IInv, Typed, Order, Checked, Unpacked, InstalledLasts, package, extracted, installed,
     history, DoFs, DoKernel
<1>3. Copied'
  BY <1>1 DEF IInv, Copied, extracted, installed, DoFs
<1>4. Written'
  BY <1>1 DEF IInv, Written, extracted, installed, DoKernel
<1>5. QED
  BY <1>2, <1>3, <1>4 DEF IInv

(* dd writes what was checked: the whole image that the list names. *)
LEMMA KernelStep == ASSUME IInv, CheckKernel \/ Dd PROVE IInv'
<1>1. Typed /\ Order /\ Checked /\ Copied /\ InstalledLasts
  BY DEF IInv
<1>2. CASE CheckKernel
  <2>1. /\ pc = "checkKernel" /\ pc' \in {"dd", "idle"}
        /\ pc' = "dd" => kernel = sums /\ kernel # Absent
        /\ UNCHANGED <<package, extracted, installed, dirty, mode, runs, failed, history>>
    BY <1>2 DEF CheckKernel
  <2>2. QED
    BY <2>1 DEF IInv, Typed, Order, Checked, Unpacked, Copied, Written, InstalledLasts, package,
       extracted, installed, history, DoFs, DoKernel
<1>3. CASE Dd
  <2>1. /\ pc = "dd" /\ pc' = "syncKernel" /\ DoKernel /\ kernel = sums /\ kernel # Absent
        /\ done' = [done EXCEPT !.kernel = None]
        /\ UNCHANGED <<package, extracted, root, dirty, mode>>
        /\ (failed' = TRUE \/ (failed' = failed /\ part' = kernel))
    BY <1>1, <1>3 DEF Dd, Order, Checked, Fails, Works
  <2>2. /\ done' \in [fs : Version \cup {None}, kernel : Version \cup {None}]
        /\ done'.kernel = None /\ done'.fs = done.fs
    BY <1>1, <2>1 DEF Typed
  <2>3. kernel.v \in Version /\ kernel = Whole(kernel.v)
    BY <1>1, <2>1, ListedIsWhole DEF Typed
  <2>4. Typed'
    BY <1>1, <2>1, <2>2 DEF Typed, package, extracted
  <2>5. Order' /\ Checked' /\ Unpacked' /\ InstalledLasts'
    BY <1>1, <2>1, <2>2 DEF Order, Checked, Unpacked, InstalledLasts, DoFs, DoKernel
  <2>6. Copied'
    BY <1>1, <2>1 DEF Copied, extracted, DoFs
  <2>7. Written'
    BY <2>1, <2>3 DEF Written, extracted
  <2>8. QED
    BY <2>4, <2>5, <2>6, <2>7 DEF IInv
<1>4. QED
  BY <1>2, <1>3

(* A loss of what was not synced takes nothing that counts as installed:   *)
(* while files of the root file system are dirty, done.fs is None.         *)
LEMMA LoseTyped ==
  ASSUME Typed, Order, Lose
  PROVE  /\ dirty' = {}
         /\ kernel' \in Image /\ fs' \in Image
         /\ overlay' \in [File -> Content] /\ root' \in [File -> Content]
         /\ done.fs # None => root' = root
         /\ dirty = {} => UNCHANGED <<kernel, fs, overlay, root>>
<1>1. dirty' = {} /\ (dirty = {} => UNCHANGED <<kernel, fs, overlay, root>>)
  BY DEF Lose, extracted
<1>2. kernel' \in Image /\ fs' \in Image
  BY ImageFacts DEF Lose, extracted, Typed
<1>3. overlay' \in [File -> Content]
  <2>1. [f \in File |-> IF f \in InArchive THEN Torn(overlay[f]) ELSE overlay[f]] \in [File -> Content]
    BY ImageFacts DEF Typed
  <2>2. QED
    BY <2>1 DEF Lose, extracted, Typed
<1>4. root' \in [File -> Content]
  <2>1. [f \in File |-> IF overlay[f] # Absent THEN Torn(root[f]) ELSE root[f]] \in [File -> Content]
    BY ImageFacts DEF Typed
  <2>2. QED
    BY <2>1 DEF Lose, Typed
<1>5. done.fs # None => root' = root
  BY DEF Lose, Order
<1>6. QED
  BY <1>1, <1>2, <1>3, <1>4, <1>5

LEMMA PowerStep == ASSUME IInv, PowerFails PROVE IInv'
<1>1. Typed /\ Order /\ InstalledLasts
  BY DEF IInv
<1>2. /\ pc' = "idle" /\ Lose
      /\ UNCHANGED <<package, part, mode, failed, history>>
  BY DEF PowerFails
<1>3. Typed'
  BY <1>1, <1>2, LoseTyped DEF Typed, package, history
<1>4. InstalledLasts'
  BY <1>1, <1>2, LoseTyped DEF InstalledLasts, history
<1>5. Order' /\ Checked' /\ Unpacked' /\ Copied' /\ Written'
  BY <1>1, <1>2, LoseTyped DEF Order, Checked, Unpacked, Copied, Written
<1>6. QED
  BY <1>3, <1>4, <1>5 DEF IInv

(* The run ends: what it has achieved without a failure is now installed.  *)
LEMMA EndStep == ASSUME IInv, End PROVE IInv'
<1>1. Typed /\ Order /\ Copied /\ Written /\ InstalledLasts
  BY DEF IInv
<1>2. /\ pc = "end" /\ pc' = "idle"
      /\ UNCHANGED <<package, part, mode, failed>>
      /\ done' = IF failed THEN done
                 ELSE [fs |-> IF DoFs THEN fs.v ELSE done.fs,
                       kernel |-> IF DoKernel THEN kernel.v ELSE done.kernel]
  BY DEF End
<1>3. UNCHANGED <<kernel, fs, overlay, root>> /\ "root" \notin dirty'
  <2>1. CASE DoKernel
    BY <1>1, <1>2, <2>1, LoseTyped DEF End, Order
  <2>2. CASE ~DoKernel
    BY <1>1, <1>2, <2>2 DEF End, Order, extracted
  <2>3. QED
    BY <2>1, <2>2
<1>4. fs.v \in Version \cup {None} /\ kernel.v \in Version \cup {None}
  BY <1>1, ImageFacts DEF Typed
<1>5. done' \in [fs : Version \cup {None}, kernel : Version \cup {None}]
  BY <1>1, <1>2, <1>4 DEF Typed
<1>6. Typed'
  BY <1>1, <1>2, <1>3, <1>5 DEF Typed, package
<1>7. InstalledLasts'
  <2>1. CASE failed
    BY <1>1, <1>2, <1>3, <2>1 DEF InstalledLasts
  <2>2. CASE ~failed
    <3>1. /\ done'.fs = IF DoFs THEN fs.v ELSE done.fs
          /\ done'.kernel = IF DoKernel THEN kernel.v ELSE done.kernel
      BY <1>2, <2>2
    <3>2. done'.fs # None => \A f \in Ships[done'.fs] : root'[f] = Whole(done'.fs)
      BY <1>1, <1>2, <1>3, <2>2, <3>1 DEF InstalledLasts, Copied
    <3>3. done'.kernel # None => part' = Whole(done'.kernel)
      BY <1>1, <1>2, <2>2, <3>1 DEF InstalledLasts, Written
    <3>4. QED
      BY <3>2, <3>3 DEF InstalledLasts
  <2>3. QED
    BY <2>1, <2>2
<1>8. Order' /\ Checked' /\ Unpacked' /\ Copied' /\ Written'
  BY <1>2, <1>3 DEF Order, Checked, Unpacked, Copied, Written
<1>9. QED
  BY <1>6, <1>7, <1>8 DEF IInv

THEOREM Inductive == Spec => []IInv
<1>1. IInv /\ [Next]_vars => IInv'
  <2> SUFFICES ASSUME IInv, [Next]_vars PROVE IInv'
    OBVIOUS
  <2>1. CASE UNCHANGED vars
    BY <2>1 DEF vars, IInv, Typed, Order, Checked, Unpacked, Copied, Written, InstalledLasts, DoFs,
       DoKernel
  <2>2. CASE Next
    BY <2>2, OperatorStep, ExtractStep, CheckFsStep, CopyFsStep, SyncStep, KernelStep, EndStep,
       PowerStep DEF Next
  <2>3. QED
    BY <2>1, <2>2
<1>2. QED
  BY <1>1, InitIInv, PTL DEF Spec

(* A run without a failed command installs its package, and it stays.      *)
THEOREM Installs == Spec => []InstalledLasts
<1>1. IInv => InstalledLasts
  BY DEF IInv
<1>2. QED
  BY <1>1, Inductive, PTL

(* Only an image that the list names is written to the kernel partition.   *)
THEOREM KernelListed == Spec => KernelWasChecked
<1>1. IInv /\ [Next]_vars => [part' # part => kernel = sums]_vars
  <2> SUFFICES ASSUME IInv, Next, part' # part PROVE kernel = sums
    BY DEF vars
  <2>1. Dd
    BY DEF Next, CopyTar, CopySums, Start, ExtractPackage, ExtractOverlay, CheckFs, CopyFs, Sync,
       CheckKernel, End, PowerFails, installed
  <2>2. QED
    BY <2>1 DEF IInv, Checked, Dd
<1>2. QED
  BY <1>1, Inductive, PTL DEF Spec, KernelWasChecked

(* What TypeOK asks and IInv does not say: each command keeps it by itself. *)
Rest ==
  /\ part \in Content
  /\ dirty \subseteq {"extracted", "root"}
  /\ pc \in {"idle", "tar", "overlay", "checkFs", "copy", "syncFs", "checkKernel", "dd", "syncKernel", "end"}
  /\ runs \in 0 .. MaxRuns
  /\ verified \subseteq Version

LEMMA RestStep == ASSUME IInv, Rest, [Next]_vars PROVE Rest'
<1>1. /\ kernel \in Content /\ fs.v \in Version \cup {None}
      /\ \A x, y \in Content : Partly(x, y) \subseteq Content
  BY ImageFacts DEF IInv, Typed, Partly
<1>2. CASE (\E v \in Version : CopyTar(v) \/ CopySums(v))
            \/ \E argument \in {"kernel", "fs", "all"} : Start(argument)
  <2>1. /\ UNCHANGED <<part, verified, dirty>> /\ pc' \in {"idle", "tar"}
        /\ runs' = runs \/ (runs < MaxRuns /\ runs' = runs + 1)
    BY <1>2 DEF CopyTar, CopySums, Start, installed, history
  <2>2. QED
    BY <2>1, UpgradeAssumption DEF Rest
<1>3. CASE ExtractPackage \/ ExtractOverlay \/ CheckKernel \/ Sync
  BY <1>3 DEF Rest, ExtractPackage, ExtractOverlay, CheckKernel, Sync, installed, history
<1>4. CASE CheckFs
  BY <1>1, <1>4 DEF Rest, CheckFs, installed
<1>5. CASE CopyFs
  BY <1>5 DEF Rest, CopyFs
<1>6. CASE Dd
  BY <1>1, <1>6 DEF Rest, Dd
<1>7. CASE End \/ PowerFails
  BY <1>7 DEF Rest, End, PowerFails, Lose, history
<1>8. CASE UNCHANGED vars
  BY <1>8 DEF Rest, vars
<1>9. QED
  BY <1>2, <1>3, <1>4, <1>5, <1>6, <1>7, <1>8 DEF Next

(* Whatever fails, the images and files keep their types. *)
THEOREM TypeCorrect == Spec => []TypeOK
<1>1. Init => Rest
  BY UpgradeAssumption DEF Init, Rest, Whole, Content
<1>2. IInv /\ Rest => TypeOK
  <2> SUFFICES ASSUME IInv, Rest PROVE TypeOK
    OBVIOUS
  <2>1. \A x \in Image : x \in Content
    BY ImageFacts
  <2>2. tarball \in [kernel : Content, fs : Content] /\ kernel \in Content /\ fs \in Content
    BY <2>1 DEF IInv, Typed
  <2>3. sums \in Content
    <3>1. Absent \in Content /\ \A v \in Version : Whole(v) \in Content
      BY DEF Absent, Whole, Content
    <3>2. QED
      BY <3>1 DEF IInv, Typed
  <2>4. QED
    BY <2>2, <2>3 DEF IInv, Typed, Rest, TypeOK
<1>3. IInv /\ Rest /\ [Next]_vars => Rest'
  BY RestStep
<1>4. QED
  BY <1>1, <1>2, <1>3, Inductive, PTL DEF Spec
=============================================================================
