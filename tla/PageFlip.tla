------------------------------ MODULE PageFlip ------------------------------
(***************************************************************************)
(* driver/drm/testcamera: main.cxx shows the pictures of a camera through  *)
(* CFramebuffer (Framebuffer.cxx), which has a few pages in the memory of  *)
(* the display and further ones in the heap.  A picture is drawn into a    *)
(* page, then InvalidateScreen brings it to the screen: it pans the        *)
(* display to a page of its own, and copies the page over the one on the   *)
(* screen if it is a heap page or the pan fails.  Drawing and copying take *)
(* time, and the display scans a page all the while.  The screen is larger *)
(* than the 320x240 of a picture, so that what is drawn goes to an offset  *)
(* into the page.                                                          *)
(***************************************************************************)
EXTENDS Integers

CONSTANTS Args,      \* the numbers of pages the program may be asked for
          MaxPages,  \* bound: pages in the memory of the display
          MaxFrame   \* bound: pictures the camera takes

ASSUME PageAssumption ==
  Args \subseteq Nat /\ MaxPages \in 1 .. 10 /\ MaxFrame \in Nat

VARIABLES open,      \* fb.IsOpen()
          arg,       \* nFrameNum
          phys,      \* m_nPhysicalMemNum
          have,      \* how many entries of m_pVirtualMem are not NULL, from the first on
          disp,      \* m_nDispMemNo
          scan,      \* the page the display shows
          page,      \* nFrameNo
          content,   \* the picture in each page
          taken,     \* the last picture the camera took
          pc,        \* where the program is
          panFailed  \* history: a pan failed
vars == <<open, arg, phys, have, disp, scan, page, content, taken, pc, panFailed>>

Page == 0 .. 10      \* m_pVirtualMem but its reserve
Black == 0
Torn == -1           \* a page that is written to

Cap(number) == IF number > 10 THEN 10 ELSE number

\* Open asks for each of its pages in turn, which leaves the last one shown,
\* and takes as many as the display can pan to.  ExtendVirtualMem adds heap
\* pages, for Open up to three and then up to what the program asks for, and
\* stops, telling nobody, at the first one there is no memory for.
Extended ==
  LET wanted == IF arg > 3 THEN arg ELSE 3
  IN  phys .. (IF wanted > phys THEN wanted ELSE phys)

Init ==
  /\ open \in BOOLEAN
  /\ \E number \in Args : arg = Cap(number)
  /\ phys \in 1 .. MaxPages /\ have \in Extended
  /\ disp = phys - 1 /\ scan = phys - 1
  /\ page = 0
  /\ content = [n \in Page |-> Black]
  /\ taken = 0
  /\ pc = IF open /\ arg > 0 THEN "clear" ELSE "camera"
  /\ panFailed = FALSE

display == <<disp, scan>>
memory == <<phys, have>>

\* The array pScreen has room for four pages; "undefined" is where the program
\* first does something C++ gives no meaning to, and the model follows it no further.
\* ClearDevice does nothing about a page that is missing.
Clear ==
  /\ pc = "clear"
  /\ pc' = IF page < 4 THEN "cleared" ELSE "undefined"
  /\ content' = IF page < 4 /\ page < have THEN [content EXCEPT ![page] = Black] ELSE content
  /\ UNCHANGED <<open, arg, memory, display, page, taken, panFailed>>

VideoOpen ==
  /\ pc = "camera"
  /\ pc' \in {"ready", "ended"}
  /\ UNCHANGED <<open, arg, memory, display, page, content, taken, panFailed>>

\* VideoGetSifRgbFrame; a call that times out returns NULL and changes nothing.
\* Without a page to draw into it writes through a wild pointer: main looks
\* neither at the pointer of a page nor at how many pages there are.
HasPage == open /\ page < arg /\ page < 4 /\ page < have

Capture ==
  /\ pc = "ready" /\ taken < MaxFrame
  /\ taken' = taken + 1
  /\ pc' = IF HasPage THEN "drawing" ELSE "undefined"
  /\ content' = IF HasPage THEN [content EXCEPT ![page] = Torn] ELSE content
  /\ UNCHANGED <<open, arg, memory, display, page, panFailed>>

Drawn ==
  /\ pc = "drawing" /\ pc' = "drawn"
  /\ content' = [content EXCEPT ![page] = taken]
  /\ UNCHANGED <<open, arg, memory, display, page, taken, panFailed>>

-----------------------------------------------------------------------------
\* InvalidateScreen(NULL, page), and then the next page.
Showing == pc \in {"cleared", "drawn"}
Copying == pc \in {"copyingClear", "copyingFrame"}

NextPage_noWrap(n) == n + 1
NextPage(n) == (n + 1) % arg

Advance ==
  IF pc \in {"cleared", "copyingClear"}
    THEN IF page + 1 < arg THEN pc' = "clear" /\ page' = page + 1
                           ELSE pc' = "camera" /\ page' = 0
    ELSE pc' = "ready" /\ page' = NextPage(page)

AlreadyShown ==
  /\ Showing /\ page = disp
  /\ Advance
  /\ UNCHANGED <<open, arg, memory, display, content, taken, panFailed>>

Pan_forgets ==
  /\ Showing /\ page < phys /\ page # disp
  /\ scan' = page
  /\ Advance
  /\ UNCHANGED <<open, arg, memory, disp, content, taken, panFailed>>

Pan ==
  /\ Showing /\ page < phys /\ page # disp
  /\ scan' = page /\ disp' = page
  /\ Advance
  /\ UNCHANGED <<open, arg, memory, content, taken, panFailed>>

\* There is nothing to copy from.
NoPage ==
  /\ Showing /\ page >= have
  /\ Advance
  /\ UNCHANGED <<open, arg, memory, display, content, taken, panFailed>>

Copy ==
  /\ Showing /\ page # disp /\ page < have
  /\ panFailed' = (panFailed \/ page < phys)
  /\ pc' = IF pc = "cleared" THEN "copyingClear" ELSE "copyingFrame"
  /\ content' = [content EXCEPT ![disp] = Torn]
  /\ UNCHANGED <<open, arg, memory, display, page, taken>>

Copied_first ==
  /\ Copying
  /\ content' = [content EXCEPT ![0] = content[page]]
  /\ Advance
  /\ UNCHANGED <<open, arg, memory, display, taken, panFailed>>

Copied ==
  /\ Copying
  /\ content' = [content EXCEPT ![disp] = content[page]]
  /\ Advance
  /\ UNCHANGED <<open, arg, memory, display, taken, panFailed>>

Next ==
  \/ Clear \/ VideoOpen \/ Capture \/ Drawn
  \/ AlreadyShown \/ Pan \/ NoPage \/ Copy \/ Copied

Spec == Init /\ [][Next]_vars

-----------------------------------------------------------------------------
TypeOK ==
  /\ open \in BOOLEAN
  /\ arg \in 0 .. 10 /\ phys \in 1 .. MaxPages /\ have \in phys .. 10
  /\ disp \in Page /\ scan \in Page /\ page \in Page
  /\ taken \in 0 .. MaxFrame
  /\ content \in [Page -> -1 .. MaxFrame]
  /\ pc \in {"clear", "cleared", "copyingClear", "camera", "ready", "drawing", "drawn", "copyingFrame",
             "undefined", "ended"}
  /\ panFailed \in BOOLEAN

\* Whether a page could be panned to, had to be copied or its pan failed: once
\* a picture was brought to the screen, the screen shows it.
ShowsLatest == pc = "ready" => content[scan] = taken

\* With two pages in the display's memory and two in use, a picture is never
\* drawn where the display is scanning, however many pages are in the heap;
\* only the copy that replaces a failed pan breaks this.
DrawsBehindScreen ==
  pc = "drawing" /\ arg > 1 /\ phys > 1 /\ ~panFailed => page # scan

\* The program has a page to draw into for as long as it runs, provided that
\* the framebuffer was opened, one to four pages were asked for and there was
\* memory for them; if there was not, it goes wrong at the first missing page.
UndefinedOnlyOutsideLimits ==
  pc = "undefined" => ~open \/ arg \notin 1 .. 4 \/ (have < arg /\ page = have)
=============================================================================
