------------------------------- MODULE Upgrade -------------------------------
(***************************************************************************)
(* fs-overlay/sbin/upgrade.sh: installs the package /app/rk3562.tar, which *)
(* holds a kernel image and the archive of a file-system overlay, checking *)
(* both against /app/md5sum.  One action is one command of the script.     *)
(* Most commands are not checked: one that fails leaves part of its work   *)
(* behind and the script goes on.  The power may fail between two          *)
(* commands, or within one (which is the failed command and the power      *)
(* failure after it); then what was not synced may be lost.                *)
(*                                                                         *)
(* A file or image is [v |-> the package it is from, ok |-> whether it is  *)
(* whole].  A checksum identifies its image, so the entry of the md5sum    *)
(* file is the whole image it was made of, and Absent if there is none.    *)
(***************************************************************************)
EXTENDS Naturals

CONSTANTS Version,  \* the packages
          File,     \* the files of the root file system
          Ships,    \* Ships[v]: the files in the overlay of package v
          Factory,  \* what the device was delivered with
          None,     \* no package
          MaxRuns   \* bound: runs of the script

ASSUME UpgradeAssumption ==
  /\ Ships \in [Version -> SUBSET File]
  /\ Factory \notin Version /\ None \notin Version \cup {Factory}
  /\ MaxRuns \in Nat

Whole(v) == [v |-> v, ok |-> TRUE]
Absent == [v |-> None, ok |-> FALSE]
Torn(x) == [x EXCEPT !.ok = FALSE]
Content == [v : Version \cup {Factory, None}, ok : BOOLEAN]

VARIABLES tarball,  \* RK3562_TAR: its kernel image and its overlay archive
          sums,     \* RK3562_MD5
          kernel,   \* KERNEL_IMAGE, as extracted
          fs,       \* FS_IMAGE, as extracted
          overlay,  \* FS_OVERLAY_DIR, file by file
          root,     \* the root file system
          part,     \* KERNEL_PART
          dirty,    \* what was written and not synced
          pc,       \* the next command of the script
          mode,     \* its argument
          runs,
          failed,   \* history: a command of this run failed
          verified, \* history: the packages whose archive passed its check
          done      \* history: what the last run installed, if no command
                    \* failed and nothing was installed since
vars == <<tarball, sums, kernel, fs, overlay, root, part, dirty, pc, mode, runs, failed, verified, done>>

package == <<tarball, sums>>
extracted == <<kernel, fs, overlay>>
installed == <<root, part>>
history == <<verified, done>>

Nothing == [fs |-> None, kernel |-> None]

Init ==
  /\ tarball = [kernel |-> Absent, fs |-> Absent] /\ sums = Absent
  /\ kernel = Absent /\ fs = Absent /\ overlay = [f \in File |-> Absent]
  /\ root = [f \in File |-> Whole(Factory)] /\ part = Whole(Factory)
  /\ dirty = {}
  /\ pc = "idle" /\ mode = "all" /\ runs = 0
  /\ failed = FALSE /\ verified = {} /\ done = Nothing

-----------------------------------------------------------------------------
\* The operator copies the two files of a package to the device; either image
\* in the archive may have been damaged on its way.
CopyTar(v) ==
  /\ pc = "idle"
  /\ \E kernelOk, fsOk \in BOOLEAN :
       tarball' = [kernel |-> [v |-> v, ok |-> kernelOk], fs |-> [v |-> v, ok |-> fsOk]]
  /\ UNCHANGED <<sums, extracted, installed, dirty, pc, mode, runs, failed, history>>

CopySums(v) ==
  /\ pc = "idle"
  /\ sums' = Whole(v)
  /\ UNCHANGED <<tarball, extracted, installed, dirty, pc, mode, runs, failed, history>>

\* An argument that is not one of these ends the script at once.
Start(argument) ==
  /\ pc = "idle" /\ runs < MaxRuns
  /\ pc' = "tar" /\ mode' = argument
  /\ runs' = runs + 1 /\ failed' = FALSE
  /\ UNCHANGED <<package, extracted, installed, dirty, history>>

DoFs == mode \in {"fs", "all"}
DoKernel == mode \in {"kernel", "all"}

\* A command writes new over old, or fails and leaves any part of its work.
Partly(old, new) == {old, new, Torn(new)}
Fails == failed' = TRUE
Works == UNCHANGED failed

ExtractPackage ==
  /\ pc = "tar" /\ pc' = "overlay" /\ dirty' = dirty \cup {"extracted"}
  /\ \/ /\ tarball.kernel # Absent /\ Works
        /\ kernel' = tarball.kernel /\ fs' = tarball.fs
     \/ /\ tarball.kernel # Absent /\ Fails
        /\ kernel' \in Partly(kernel, tarball.kernel) /\ fs' \in Partly(fs, tarball.fs)
     \/ tarball.kernel = Absent /\ Fails /\ UNCHANGED <<kernel, fs>>
  /\ UNCHANGED <<package, overlay, installed, mode, runs, history>>

\* tar adds to the directory: files of earlier packages stay in it.
InArchive == IF fs = Absent THEN {} ELSE Ships[fs.v]

ExtractOverlay ==
  /\ pc = "overlay" /\ dirty' = dirty \cup {"extracted"}
  /\ pc' = IF DoFs THEN "checkFs" ELSE "checkKernel"
  /\ \/ /\ fs.ok /\ Works
        /\ overlay' = [f \in File |-> IF f \in InArchive THEN Whole(fs.v) ELSE overlay[f]]
     \/ /\ Fails \/ (~fs.ok /\ Works)  \* tar does not see every damage
        /\ overlay' \in [File -> Content]
        /\ \A f \in File :
             overlay'[f] \in IF f \in InArchive THEN Partly(overlay[f], Whole(fs.v)) ELSE {overlay[f]}
  /\ UNCHANGED <<package, kernel, fs, installed, mode, runs, history>>
-----------------------------------------------------------------------------
\* Both sums are read with grep and compared as words: an archive that is not
\* there has no sum, which equals the sum of a package without a list.
CheckFs ==
  /\ pc = "checkFs"
  /\ IF fs = sums
       THEN /\ pc' = "copy"
            /\ verified' = verified \cup ({fs.v} \ {None})
       ELSE pc' = "idle" /\ UNCHANGED verified
  /\ UNCHANGED <<package, extracted, installed, dirty, mode, runs, failed, done>>

CopyFs ==
  /\ pc = "copy" /\ pc' = "syncFs"
  /\ dirty' = dirty \cup {"root"}
  /\ done' = [done EXCEPT !.fs = None]
  /\ \/ /\ \E f \in File : overlay[f] # Absent
        /\ root' = [f \in File |-> IF overlay[f] # Absent THEN overlay[f] ELSE root[f]]
        /\ Works
     \/ /\ Fails
        /\ root' \in [File -> Content]
        /\ \A f \in File :
             root'[f] \in IF overlay[f] # Absent THEN Partly(root[f], overlay[f]) ELSE {root[f]}
  /\ UNCHANGED <<package, extracted, part, mode, runs, verified>>

Sync_missing ==
  /\ pc = "syncFs" /\ pc' = IF DoKernel THEN "checkKernel" ELSE "end"
  /\ UNCHANGED <<package, extracted, installed, dirty, mode, runs, failed, history>>

Sync ==
  /\ \/ pc = "syncFs" /\ pc' = IF DoKernel THEN "checkKernel" ELSE "end"
     \/ pc = "syncKernel" /\ pc' = "end"
  /\ dirty' = {}
  /\ UNCHANGED <<package, extracted, installed, mode, runs, failed, history>>

CheckKernel_exists ==
  /\ pc = "checkKernel"
  /\ pc' = IF kernel # Absent THEN "dd" ELSE "idle"
  /\ UNCHANGED <<package, extracted, installed, dirty, mode, runs, failed, history>>

CheckKernel ==
  /\ pc = "checkKernel"
  /\ pc' = IF kernel # Absent /\ kernel = sums THEN "dd" ELSE "idle"
  /\ UNCHANGED <<package, extracted, installed, dirty, mode, runs, failed, history>>

\* conv=fsync: the image is on the partition when dd has worked.
Dd ==
  /\ pc = "dd" /\ pc' = "syncKernel"
  /\ done' = [done EXCEPT !.kernel = None]
  /\ \/ Works /\ part' = kernel
     \/ Fails /\ part' \in Partly(part, kernel)
  /\ UNCHANGED <<package, extracted, root, dirty, mode, runs, verified>>

-----------------------------------------------------------------------------
\* What the kernel still had to write may be lost.
Lose ==
  /\ IF "extracted" \in dirty
       THEN /\ kernel' \in {kernel, Torn(kernel)} /\ fs' \in {fs, Torn(fs)}
            /\ overlay' \in {overlay, [f \in File |-> IF f \in InArchive THEN Torn(overlay[f]) ELSE overlay[f]]}
       ELSE UNCHANGED extracted
  /\ IF "root" \in dirty
       THEN root' \in {root, [f \in File |-> IF overlay[f] # Absent THEN Torn(root[f]) ELSE root[f]]}
       ELSE UNCHANGED root
  /\ dirty' = {}

\* The script reboots with -f after a kernel, and else returns.
End ==
  /\ pc = "end" /\ pc' = "idle"
  /\ IF DoKernel THEN Lose ELSE UNCHANGED <<extracted, root, dirty>>
  /\ done' = IF failed THEN done
             ELSE [fs |-> IF DoFs THEN fs.v ELSE done.fs,
                   kernel |-> IF DoKernel THEN kernel.v ELSE done.kernel]
  /\ UNCHANGED <<package, part, mode, runs, failed, verified>>

PowerFails ==
  /\ pc # "idle" \/ dirty # {}
  /\ pc' = "idle"
  /\ Lose
  /\ UNCHANGED <<package, part, mode, runs, failed, history>>

Next ==
  \/ \E v \in Version : CopyTar(v) \/ CopySums(v)
  \/ \E argument \in {"kernel", "fs", "all"} : Start(argument)
  \/ ExtractPackage \/ ExtractOverlay
  \/ CheckFs \/ CopyFs \/ Sync \/ CheckKernel \/ Dd
  \/ End \/ PowerFails

Spec == Init /\ [][Next]_vars

-----------------------------------------------------------------------------
TypeOK ==
  /\ tarball \in [kernel : Content, fs : Content] /\ sums \in Content
  /\ kernel \in Content /\ fs \in Content
  /\ overlay \in [File -> Content] /\ root \in [File -> Content]
  /\ part \in Content
  /\ dirty \subseteq {"extracted", "root"}
  /\ pc \in {"idle", "tar", "overlay", "checkFs", "copy", "syncFs", "checkKernel", "dd", "syncKernel", "end"}
  /\ mode \in {"kernel", "fs", "all"}
  /\ runs \in 0 .. MaxRuns
  /\ failed \in BOOLEAN
  /\ verified \subseteq Version
  /\ done \in [fs : Version \cup {None}, kernel : Version \cup {None}]

\* A run in which no command failed has installed its package, whatever
\* earlier runs left on the disk, and no later power failure or rejected run
\* takes it away.
InstalledLasts ==
  /\ done.fs # None => \A f \in Ships[done.fs] : root[f] = Whole(done.fs)
  /\ done.kernel # None => part = Whole(done.kernel)

\* Only an image that the list of sums names is written to the kernel
\* partition: what dd reads is what md5sum has read.
KernelWasChecked == [][part' # part => kernel = sums]_vars

\* upgrade.sh:61 announces before the files are installed that the archive was
\* verified: every file of the root file system is from such an archive.
InstalledWasVerified == \A f \in File : root[f].v \in verified \cup {Factory}
=============================================================================
