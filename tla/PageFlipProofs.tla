--------------------------- MODULE PageFlipProofs ---------------------------
(***************************************************************************)
(* For any number of pages and any length of the run: the screen shows the *)
(* picture that was brought to it last, pictures are drawn where the       *)
(* display is not scanning unless a pan failed, and the program leaves     *)
(* what C++ defines only outside its limits, or at the first page there    *)
(* was no memory for.  The inductive invariant computes the page on the    *)
(* screen from the one that is drawn next: the page before it, or the      *)
(* display's last one if that is a heap page.                              *)
(***************************************************************************)
EXTENDS PageFlip, TLAPS

Clearing == {"clear", "cleared", "copyingClear"}
Playing == {"ready", "drawing", "drawn", "copyingFrame"}

Typed ==
  /\ open \in BOOLEAN /\ panFailed \in BOOLEAN
  /\ arg \in 0 .. 10 /\ phys \in 1 .. 10 /\ have \in phys .. 10
  /\ page \in Page /\ taken \in Nat
  /\ content \in [Page -> Int]
  /\ pc \in Clearing \cup Playing \cup {"camera", "undefined", "ended"}
  /\ scan = disp /\ disp \in 0 .. phys - 1

\* The page the program works on is one it has, or the first one it has not.
Places ==
  /\ pc \in Clearing => open /\ page < arg
  /\ pc \in {"cleared", "copyingClear"} => page < 4
  /\ pc = "camera" => page = 0
  /\ pc = "ready" => page = 0 \/ (page < arg /\ page <= have)
  /\ pc \in {"drawing", "drawn", "copyingFrame"} => HasPage

\* The pages brought to the screen before this one, and the last of them
\* that the display could be panned to.
Before == IF page > 0 THEN page
          ELSE IF pc \notin Clearing /\ open /\ arg > 0 THEN arg ELSE phys
LastShown == (IF Before < phys THEN Before ELSE phys) - 1

Follows ==
  pc \in Clearing \cup Playing \cup {"camera"} /\ ~panFailed => disp = LastShown

Latest ==
  /\ pc \in Clearing \cup {"camera"} =>
       /\ taken = Black
       /\ \A n \in Page : content[n] = Black \/ (pc = "copyingClear" /\ n = disp)
  /\ pc = "ready" => content[disp] = taken
  /\ pc = "drawn" => content[page] = taken
  /\ pc = "copyingFrame" => content[page] = taken
  /\ pc \in {"copyingClear", "copyingFrame"} => page # disp /\ (~panFailed => page >= phys)

IInv == Typed /\ Places /\ Follows /\ Latest /\ UndefinedOnlyOutsideLimits

USE DEF Clearing, Playing, Page, Black, Torn
-----------------------------------------------------------------------------
LEMMA CapRange == \A n \in Nat : Cap(n) \in 0 .. 10
  BY DEF Cap

\* The next page is the one after, and the first after the last.
LEMMA Wraps ==
  ASSUME NEW a \in 1 .. 10, NEW n \in Page, n < a
  PROVE  (n + 1) % a = IF n + 1 < a THEN n + 1 ELSE 0
<1>1. CASE a = 1
  BY <1>1
<1>2. CASE a = 2
  BY <1>2
<1>3. CASE a = 3
  BY <1>3
<1>4. CASE a = 4
  BY <1>4
<1>5. CASE a = 5
  BY <1>5
<1>6. CASE a = 6
  BY <1>6
<1>7. CASE a = 7
  BY <1>7
<1>8. CASE a = 8
  BY <1>8
<1>9. CASE a = 9
  BY <1>9
<1>10. CASE a = 10
  BY <1>10
<1>11. QED
  BY <1>1, <1>2, <1>3, <1>4, <1>5, <1>6, <1>7, <1>8, <1>9, <1>10

LEMMA InitIInv == Init => IInv
<1> SUFFICES ASSUME Init PROVE IInv
  OBVIOUS
<1>1. arg \in 0 .. 10
  BY CapRange, PageAssumption DEF Init
<1>2. phys \in 1 .. 10 /\ have \in phys .. 10
  BY <1>1, PageAssumption DEF Init, Extended
<1>3. Typed
  <2>1. content \in [Page -> Int] /\ taken \in Nat /\ page \in Page
    BY DEF Init
  <2>2. pc \in {"clear", "camera"}
    BY DEF Init
  <2>3. scan = disp /\ disp \in 0 .. phys - 1
    BY <1>2 DEF Init
  <2>4. open \in BOOLEAN /\ panFailed \in BOOLEAN
    BY Zenon DEF Init
  <2>5. pc \in Clearing \cup Playing \cup {"camera", "undefined", "ended"}
    BY <2>2
  <2>6. QED
    BY <1>1, <1>2, <2>1, <2>3, <2>4, <2>5, Zenon DEF Typed
<1>4. Places /\ Latest
  BY <1>1, <1>2 DEF Init, Places, Latest
<1>5. Follows
  BY <1>1, <1>2 DEF Init, Follows, LastShown, Before
<1>6. QED
  BY <1>3, <1>4, <1>5 DEF IInv, Init, UndefinedOnlyOutsideLimits

LEMMA ClearStep == IInv /\ Clear => IInv'
<1> SUFFICES ASSUME IInv, Clear PROVE IInv'
  OBVIOUS
<1>1. Typed'
  BY DEF IInv, Typed, Clear, display, memory
<1>2. Places'
  BY DEF IInv, Typed, Places, Clear, display, memory
<1>3. Follows'
  BY DEF IInv, Typed, Follows, LastShown, Before, Clear, display, memory
<1>4. Latest'
  BY DEF IInv, Typed, Latest, Clear, display, memory
<1>5. UndefinedOnlyOutsideLimits'
  BY DEF IInv, Typed, Places, UndefinedOnlyOutsideLimits, Clear
<1>6. QED
  BY <1>1, <1>2, <1>3, <1>4, <1>5 DEF IInv

LEMMA CameraStep == IInv /\ (VideoOpen \/ Capture \/ Drawn) => IInv'
<1>1. ASSUME IInv, VideoOpen PROVE IInv'
  BY <1>1 DEF IInv, Typed, Places, Follows, LastShown, Before, Latest, UndefinedOnlyOutsideLimits, VideoOpen, display, memory
<1>2. ASSUME IInv, Capture PROVE IInv'
  <2> USE <1>2 DEF Capture, display, memory
  <2>1. Typed'
    BY DEF IInv, Typed
  <2>2. Places'
    BY DEF IInv, Typed, Places, HasPage
  <2>3. Follows'
    BY DEF IInv, Typed, Follows, LastShown, Before
  <2>4. Latest'
    BY DEF IInv, Typed, Latest
  <2>5. UndefinedOnlyOutsideLimits'
    BY DEF IInv, Typed, Places, HasPage, UndefinedOnlyOutsideLimits
  <2>6. QED
    BY <2>1, <2>2, <2>3, <2>4, <2>5 DEF IInv
<1>3. ASSUME IInv, Drawn PROVE IInv'
  <2> USE <1>3 DEF Drawn, display, memory
  <2>1. Typed'
    BY DEF IInv, Typed
  <2>2. Places' /\ UndefinedOnlyOutsideLimits'
    BY DEF IInv, Typed, Places, HasPage, UndefinedOnlyOutsideLimits
  <2>3. Follows'
    BY DEF IInv, Typed, Follows, LastShown, Before
  <2>4. Latest'
    BY DEF IInv, Typed, Places, HasPage, Latest
  <2>5. QED
    BY <2>1, <2>2, <2>3, <2>4 DEF IInv
<1>4. QED
  BY <1>1, <1>2, <1>3

\* The step to the next page, once the screen shows this one.
LEMMA AdvanceStep ==
  ASSUME IInv, Typed', Advance, pc \in {"cleared", "drawn", "copyingClear", "copyingFrame"},
         UNCHANGED <<open, arg, phys, have, taken>>,
         content'[disp'] = taken,
         taken = Black /\ pc \in Clearing => \A n \in Page : content'[n] = Black,
         ~panFailed' => ~panFailed /\ disp' = (IF page < phys THEN page ELSE disp)
  PROVE  IInv'
<1>1. page < arg /\ page < 4 /\ open /\ arg \in 1 .. 10
  BY DEF IInv, Typed, Places, HasPage
<1>2. NextPage(page) = IF page + 1 < arg THEN page + 1 ELSE 0
  BY <1>1, Wraps DEF NextPage, IInv, Typed
<1>3. Places'
  BY <1>1, <1>2 DEF IInv, Typed, Places, HasPage, Advance
<1>4. Follows'
  <2> SUFFICES ASSUME ~panFailed' PROVE disp' = LastShown'
    BY DEF Follows
  <2>1. disp = LastShown /\ disp' = (IF page < phys THEN page ELSE disp)
    BY DEF IInv, Follows
  <2>2. disp' = (IF page + 1 < phys THEN page + 1 ELSE phys) - 1
    BY <1>1, <2>1 DEF IInv, Typed, LastShown, Before
  <2>3. Before' = page + 1
    BY <1>1, <1>2 DEF IInv, Typed, Before, Advance
  <2>4. QED
    BY <2>2, <2>3 DEF LastShown
<1>5. Latest'
  BY <1>1 DEF IInv, Typed, Latest, Advance
<1>6. UndefinedOnlyOutsideLimits'
  BY DEF Advance, UndefinedOnlyOutsideLimits
<1>7. QED
  BY <1>3, <1>4, <1>5, <1>6 DEF IInv

LEMMA AdvanceTyped ==
  ASSUME IInv, Advance, pc \in {"cleared", "drawn", "copyingClear", "copyingFrame"}
  PROVE  page' \in Page /\ pc' \in {"clear", "camera", "ready"}
<1>1. page < arg /\ page \in Page /\ arg \in 1 .. 10
  BY DEF IInv, Typed, Places, HasPage
<1>2. NextPage(page) \in Page
  BY <1>1, Wraps DEF NextPage
<1>3. QED
  BY <1>1, <1>2 DEF Advance

LEMMA ShowStep == IInv /\ (AlreadyShown \/ Pan \/ NoPage) => IInv'
<1>1. ASSUME IInv, AlreadyShown PROVE IInv'
  <2> USE <1>1 DEF AlreadyShown, Showing, display, memory
  <2>1. Typed'
    BY AdvanceTyped DEF IInv, Typed
  <2>2. content'[disp'] = taken
    BY DEF IInv, Typed, Latest
  <2>3. taken = Black /\ pc \in Clearing => \A n \in Page : content'[n] = Black
    BY DEF IInv, Latest
  <2>4. ~panFailed' => ~panFailed /\ disp' = (IF page < phys THEN page ELSE disp)
    BY DEF IInv, Typed
  <2>5. QED
    BY <2>1, <2>2, <2>3, <2>4, AdvanceStep
<1>2. ASSUME IInv, Pan PROVE IInv'
  <2> USE <1>2 DEF Pan, Showing, memory
  <2>1. Typed'
    BY AdvanceTyped DEF IInv, Typed
  <2>2. content'[disp'] = taken
    BY DEF IInv, Typed, Latest
  <2>3. taken = Black /\ pc \in Clearing => \A n \in Page : content'[n] = Black
    BY DEF IInv, Latest
  <2>4. ~panFailed' => ~panFailed /\ disp' = (IF page < phys THEN page ELSE disp)
    BY DEF IInv, Typed
  <2>5. QED
    BY <2>1, <2>2, <2>3, <2>4, AdvanceStep
<1>3. ASSUME IInv, NoPage PROVE IInv'
  <2> USE <1>3 DEF NoPage, Showing, display, memory
  <2>1. Typed'
    BY AdvanceTyped DEF IInv, Typed
  <2>2. pc = "cleared"
    BY DEF IInv, Typed, Places, HasPage
  <2>3. taken = Black /\ \A n \in Page : content'[n] = Black
    BY <2>2 DEF IInv, Latest
  <2>4. content'[disp'] = taken
    BY <2>3 DEF IInv, Typed
  <2>5. ~panFailed' => ~panFailed /\ disp' = (IF page < phys THEN page ELSE disp)
    BY DEF IInv, Typed
  <2>6. QED
    BY <2>1, <2>3, <2>4, <2>5, AdvanceStep
<1>4. QED
  BY <1>1, <1>2, <1>3

LEMMA CopyStep == IInv /\ (Copy \/ Copied) => IInv'
<1>1. ASSUME IInv, Copy PROVE IInv'
  <2> USE <1>1 DEF Copy, Showing, display, memory
  <2>1. Typed'
    BY DEF IInv, Typed
  <2>2. Places' /\ UndefinedOnlyOutsideLimits'
    BY DEF IInv, Typed, Places, HasPage, UndefinedOnlyOutsideLimits
  <2>3. Follows'
    BY DEF IInv, Typed, Follows, LastShown, Before
  <2>4. page # disp /\ (~panFailed' => page >= phys) /\ page \in Page
    <3>1. ~panFailed' => ~(page < phys)
      BY Zenon
    <3>2. QED
      BY <3>1 DEF IInv, Typed
  <2>5. Latest'
    <3>1. CASE pc = "cleared"
      BY <2>4, <3>1 DEF IInv, Typed, Latest
    <3>2. CASE pc = "drawn"
      BY <2>4, <3>2 DEF IInv, Typed, Latest
    <3>3. QED
      BY <3>1, <3>2
  <2>6. QED
    BY <2>1, <2>2, <2>3, <2>5 DEF IInv
<1>2. ASSUME IInv, Copied PROVE IInv'
  <2> USE <1>2 DEF Copied, Copying, display, memory
  <2>1. Typed'
    BY AdvanceTyped DEF IInv, Typed
  <2>2. content[page] = taken
    BY DEF IInv, Typed, Latest
  <2>3. content'[disp'] = taken
    BY <2>2 DEF IInv, Typed
  <2>4. taken = Black /\ pc \in Clearing => \A n \in Page : content'[n] = Black
    BY <2>2 DEF IInv, Typed, Latest
  <2>5. ~panFailed' => ~panFailed /\ disp' = (IF page < phys THEN page ELSE disp)
    BY DEF IInv, Typed, Latest
  <2>6. QED
    BY <2>1, <2>3, <2>4, <2>5, AdvanceStep
<1>3. QED
  BY <1>1, <1>2
-----------------------------------------------------------------------------
\* The inductive invariant holds in every reachable state.
THEOREM Inductive == Spec => []IInv
<1>1. IInv /\ [Next]_vars => IInv'
  <2>1. IInv /\ UNCHANGED vars => IInv'
    BY DEF vars, IInv, Typed, Places, HasPage, Follows, LastShown, Before, Latest, UndefinedOnlyOutsideLimits
  <2>2. QED
    BY <2>1, ClearStep, CameraStep, ShowStep, CopyStep DEF Next
<1>2. QED
  BY InitIInv, <1>1, PTL DEF Spec

\* For every number of pages, the screen shows the picture that
\* InvalidateScreen was called for last, by a pan or by a copy.
THEOREM ShowsLast == Spec => []ShowsLatest
<1>1. IInv => ShowsLatest
  BY DEF IInv, Typed, Latest, ShowsLatest
<1>2. QED
  BY Inductive, <1>1, PTL

\* For every number of pages, VideoGetSifRgbFrame draws behind the screen
\* unless a pan failed.
THEOREM Behind == Spec => []DrawsBehindScreen
<1>1. IInv => DrawsBehindScreen
  BY DEF IInv, Typed, Places, HasPage, Follows, LastShown, Before, DrawsBehindScreen
<1>2. QED
  BY Inductive, <1>1, PTL

\* With an open framebuffer, one to four pages and the memory for them the
\* main loop always has a page to draw into; without, it comes to the first
\* page that is missing.
THEOREM Limits == Spec => []UndefinedOnlyOutsideLimits
<1>1. QED
  BY Inductive, PTL DEF IInv

(* The two bounds, which IInv holds without. *)
Bounded ==
  /\ phys \in 1 .. MaxPages
  /\ taken \in 0 .. MaxFrame
  /\ content \in [Page -> -1 .. MaxFrame]

(* The variables have their types, the bounds on pages and pictures included. *)
THEOREM TypeCorrect == Spec => []TypeOK
<1>1. Init => Bounded
  BY PageAssumption DEF Init, Bounded
<1>2. IInv /\ Bounded => TypeOK
  BY PageAssumption DEF IInv, Typed, Bounded, TypeOK
<1>3. IInv /\ Bounded /\ [Next]_vars => Bounded'
  <2> SUFFICES ASSUME IInv, Bounded, [Next]_vars PROVE Bounded'
    OBVIOUS
  <2>1. page \in Page /\ disp \in Page
    BY DEF IInv, Typed
  <2>2. CASE Clear \/ VideoOpen \/ Drawn
    BY <2>2, PageAssumption DEF Bounded, Clear, VideoOpen, Drawn, memory
  <2>3. CASE Capture
    <3>1. phys' = phys /\ taken' = taken + 1 /\ taken < MaxFrame
      BY <2>3 DEF Capture, memory
    <3>2. content' = content \/ content' = [content EXCEPT ![page] = Torn]
      BY <2>3 DEF Capture
    <3>3. content' \in [Page -> -1 .. MaxFrame]
      BY <3>2, PageAssumption DEF Bounded
    <3>4. QED
      BY <3>1, <3>3, PageAssumption DEF Bounded
  <2>4. CASE AlreadyShown \/ Pan \/ NoPage \/ Copy \/ Copied
    <3>1. UNCHANGED <<phys, taken>>
      BY <2>4 DEF AlreadyShown, Pan, NoPage, Copy, Copied, memory
    <3>2. content' \in [Page -> -1 .. MaxFrame]
      BY <2>1, <2>4, PageAssumption DEF Bounded, AlreadyShown, Pan, NoPage, Copy, Copied
    <3>3. QED
      BY <3>1, <3>2 DEF Bounded
  <2>5. CASE UNCHANGED vars
    BY <2>5 DEF Bounded, vars
  <2>6. QED
    BY <2>2, <2>3, <2>4, <2>5 DEF Next
<1>4. QED
  BY <1>1, <1>2, <1>3, Inductive, PTL DEF Spec
=============================================================================
