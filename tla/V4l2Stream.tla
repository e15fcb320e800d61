----------------------------- MODULE V4l2Stream -----------------------------
(***************************************************************************)
(* driver/v4l2/video2lcd: video/v4l2.c and the loop of main.c.  The        *)
(* program takes frames from a V4L2 device through buffers the driver      *)
(* fills on its own, converts and zooms them and merges them into the      *)
(* screen.  A buffer is queued for the driver, filled, or held by the      *)
(* program; the frame it contains is abstracted to its number.             *)
(* The V4L2 driver is modelled from the ioctls the program makes: buffers  *)
(* are filled and given back in the order they were queued, and poll       *)
(* returns when one is filled.  Every call may fail, and ends the program. *)
(***************************************************************************)
EXTENDS Naturals, Sequences, SequencesExt

CONSTANTS
  NB_BUFFER,    \* the buffers asked for; the driver may grant fewer
  MaxFrame,     \* bound: the frames the camera takes
  DispFormat    \* the pixel format of the screen

ASSUME BufferAssumption == NB_BUFFER \in Nat \ {0}
ASSUME FrameAssumption == MaxFrame \in Nat
ASSUME FormatAssumption == DispFormat \in {"RGB565", "RGB32"}

Format == {"YUYV", "MJPEG", "RGB565"}       \* g_aiSupportedFormats
Buffer == 0 .. NB_BUFFER - 1

VARIABLES
  caps,       \* what the device can do: "streaming" and "readwrite"
  pc,         \* the program's next step
  format,     \* iPixelFormat; "garbage" is the uninitialised value of main's stack
  count,      \* iVideoBufCnt
  next,       \* the index of the map and queue loops
  inq, done,  \* the driver: buffers to fill, buffers filled
  on,         \* the driver is streaming
  content,    \* the frame in each buffer
  cur,        \* iVideoBufCurIndex
  conv, zoom, \* the frames in tConvertBuf and tZoomBuf
  src,        \* what ptVideoBufCur points to
  taken, screen,
  got         \* history: the frame that was in the buffer when it was taken out

driver == <<inq, done, on>>
setup == <<caps, format, count, next>>
pixels == <<conv, zoom, src>>
vars == <<caps, pc, format, count, next, inq, done, on, content, cur, conv, zoom, src,
          taken, screen, got>>

Frame == 0 .. MaxFrame

TypeOK ==
  /\ caps \subseteq {"streaming", "readwrite"}
  /\ pc \in {"open", "format", "reqbufs", "map", "queue", "select", "start",
             "get", "convert", "zoom", "merge", "put", "exit"}
  /\ format \in Format \cup {"none", "garbage"}
  /\ count \in 0 .. NB_BUFFER /\ next \in 0 .. NB_BUFFER
  /\ inq \in Seq(Buffer) /\ done \in Seq(Buffer) /\ on \in BOOLEAN
  /\ content \in [Buffer -> Frame] /\ cur \in Buffer
  /\ conv \in Frame /\ zoom \in Frame /\ src \in {"video", "convert", "zoom"}
  /\ taken \in Frame /\ screen \in Frame /\ got \in Frame

Init ==
  /\ caps \in SUBSET {"streaming", "readwrite"}
  /\ pc = "open" /\ format \in {"none", "garbage"}
  /\ count = 0 /\ next = 0
  /\ inq = <<>> /\ done = <<>> /\ on = FALSE
  /\ content = [b \in Buffer |-> 0] /\ cur = 0
  /\ conv = 0 /\ zoom = 0 /\ src = "video"
  /\ taken = 0 /\ screen = 0 /\ got = 0

Goto(from, to) == pc = from /\ pc' = to
-----------------------------------------------------------------------------
(* V4l2InitDevice: open the device and ask for its capabilities. *)
Open ==
  /\ Goto("open", "format")
  /\ UNCHANGED <<setup, driver, content, cur, pixels, taken, screen, got>>

(* The first supported format the device enumerates.  Without one the      *)
(* uninitialised iPixelFormat is tested, and it may pass.                  *)
SetFormat ==
  /\ Goto("format", "reqbufs")
  /\ \/ format' \in Format
     \/ format = "garbage" /\ UNCHANGED format
  /\ UNCHANGED <<caps, count, next, driver, content, cur, pixels, taken, screen, got>>

(* VIDIOC_REQBUFS; a device that only reads gets one buffer of its own. *)
ReqBufs ==
  /\ pc = "reqbufs" /\ next' = 0
  /\ \/ "streaming" \in caps /\ count' \in 1 .. NB_BUFFER /\ pc' = "map"
     \/ "streaming" \notin caps /\ "readwrite" \in caps /\ count' = 1 /\ pc' = "select"
     \/ caps = {} /\ count' \in 1 .. NB_BUFFER /\ pc' = "select"
  /\ UNCHANGED <<caps, format, driver, content, cur, pixels, taken, screen, got>>

(* The first loop maps every buffer, the second queues every buffer. *)
Map ==
  /\ pc = "map"
  /\ IF next + 1 < count THEN next' = next + 1 /\ pc' = pc
                         ELSE next' = 0 /\ pc' = "queue"
  /\ UNCHANGED <<caps, format, count, driver, content, cur, pixels, taken, screen, got>>

Queue ==
  /\ pc = "queue"
  /\ inq' = Append(inq, next)
  /\ IF next + 1 < count THEN next' = next + 1 /\ pc' = pc
                         ELSE next' = 0 /\ pc' = "select"
  /\ UNCHANGED <<caps, format, count, done, on, content, cur, pixels, taken, screen, got>>

(* main: a converter for the two formats is found for every supported one. *)
Select ==
  /\ Goto("select", IF format \in Format THEN "start" ELSE "exit")
  /\ UNCHANGED <<setup, driver, content, cur, pixels, taken, screen, got>>

(* V4l2StartDevice. *)
Start ==
  /\ Goto("start", "get")
  /\ on' = TRUE
  /\ UNCHANGED <<setup, inq, done, content, cur, pixels, taken, screen, got>>
-----------------------------------------------------------------------------
(* Mutant: the buffer is queued again as soon as it is taken out. *)
GetFrameForStreaming_requeues ==
  /\ "streaming" \in caps /\ Goto("get", "convert")
  /\ done # <<>>
  /\ cur' = Head(done) /\ done' = Tail(done) /\ inq' = Append(inq, Head(done))
  /\ got' = content[Head(done)] /\ src' = "video"
  /\ UNCHANGED <<setup, on, content, conv, zoom, taken, screen>>

(* V4l2GetFrameForStreaming: poll, then VIDIOC_DQBUF. *)
GetFrameForStreaming ==
  /\ "streaming" \in caps /\ Goto("get", "convert")
  /\ done # <<>>
  /\ cur' = Head(done) /\ done' = Tail(done)
  /\ got' = content[Head(done)] /\ src' = "video"
  /\ UNCHANGED <<setup, inq, on, content, conv, zoom, taken, screen>>

(* V4l2GetFrameForReadWrite: read() waits for a frame and copies it. *)
GetFrameForReadWrite ==
  /\ "streaming" \notin caps /\ "readwrite" \in caps /\ Goto("get", "convert")
  /\ taken < MaxFrame
  /\ taken' = taken + 1
  /\ content' = [content EXCEPT ![0] = taken']
  /\ got' = taken' /\ src' = "video"
  /\ UNCHANGED <<setup, driver, cur, conv, zoom, screen>>

(* Mutant: the converted frame is not the one that is used. *)
Convert_keepsSource ==
  /\ Goto("convert", "zoom")
  /\ conv' = IF format = DispFormat THEN conv ELSE content[cur]
  /\ src' = IF format = DispFormat THEN src ELSE "zoom"
  /\ UNCHANGED <<setup, driver, content, cur, zoom, taken, screen, got>>

(* main: a frame in the format of the screen is used where it lies. *)
Convert ==
  /\ Goto("convert", "zoom")
  /\ conv' = IF format = DispFormat THEN conv ELSE content[cur]
  /\ src' = IF format = DispFormat THEN src ELSE "convert"
  /\ UNCHANGED <<setup, driver, content, cur, zoom, taken, screen, got>>

Pixels == CASE src = "video" -> content[cur] [] src = "convert" -> conv [] src = "zoom" -> zoom

(* main: PicZoom of a frame that is larger than the screen. *)
Zoom ==
  /\ Goto("zoom", "merge")
  /\ \/ zoom' = Pixels /\ src' = "zoom"
     \/ UNCHANGED <<zoom, src>>
  /\ UNCHANGED <<setup, driver, content, cur, conv, taken, screen, got>>

(* PicMerge and FlushPixelDatasToDev. *)
Merge ==
  /\ Goto("merge", "put")
  /\ screen' = Pixels
  /\ UNCHANGED <<setup, driver, content, cur, pixels, taken, got>>

(* Mutant: the first buffer is queued, whichever was taken out. *)
PutFrame_first ==
  /\ Goto("put", "get")
  /\ inq' = IF "streaming" \in caps THEN Append(inq, 0) ELSE inq
  /\ UNCHANGED <<setup, done, on, content, cur, pixels, taken, screen, got>>

(* Mutant: the buffer is not given back. *)
PutFrame_missing ==
  /\ Goto("put", "get")
  /\ UNCHANGED <<setup, driver, content, cur, pixels, taken, screen, got>>

(* V4l2PutFrameForStreaming, V4l2PutFrameForReadWrite. *)
PutFrame ==
  /\ Goto("put", "get")
  /\ inq' = IF "streaming" \in caps THEN Append(inq, cur) ELSE inq
  /\ UNCHANGED <<setup, done, on, content, cur, pixels, taken, screen, got>>

(* Every call of the program can fail, and then main returns. *)
Fail ==
  /\ pc \notin {"exit", "zoom", "merge"}
  /\ pc' = "exit" /\ on' = FALSE
  /\ UNCHANGED <<setup, inq, done, content, cur, pixels, taken, screen, got>>

(* The camera and its driver. *)
Capture ==
  /\ on /\ inq # <<>> /\ taken < MaxFrame
  /\ taken' = taken + 1
  /\ content' = [content EXCEPT ![Head(inq)] = taken']
  /\ inq' = Tail(inq) /\ done' = Append(done, Head(inq))
  /\ UNCHANGED <<setup, pc, on, cur, pixels, screen, got>>
-----------------------------------------------------------------------------
GetFrame == GetFrameForStreaming \/ GetFrameForReadWrite

Program ==
  \/ Open \/ SetFormat \/ ReqBufs \/ Map \/ Queue \/ Select \/ Start
  \/ GetFrame \/ Convert \/ Zoom \/ Merge \/ PutFrame

Next == Program \/ Fail \/ Capture

Spec == Init /\ [][Next]_vars

(* The program runs and the camera goes on taking frames. *)
FairSpec == Spec /\ WF_vars(Program) /\ WF_vars(Capture)
-----------------------------------------------------------------------------
Holding == pc \in {"convert", "zoom", "merge", "put"}

(* Every buffer is in one place: queued, filled, or held by the program.   *)
(* None is lost and none is queued twice.                                  *)
EachBufferOnce ==
  "streaming" \in caps /\ pc \in {"select", "start", "get", "convert", "zoom", "merge", "put"} =>
    LET places == inq \o done \o (IF Holding THEN <<cur>> ELSE <<>>)
    IN IsInjective(places) /\ ToSet(places) = 0 .. count - 1

(* The frame on the screen is, to the last step of the loop, the frame     *)
(* that was taken out: the driver does not fill a buffer under the         *)
(* program's hands, whichever of the three buffers is shown.               *)
ShowsWhatItGot == pc = "put" => screen = got /\ content[cur] = got

(* The program never waits for a frame while no buffer is with the driver. *)
NeverStarved ==
  "streaming" \in caps /\ pc = "get" => inq # <<>> \/ done # <<>>

(* The program implements the viewer: frames are shown in order. *)
Viewer == INSTANCE FrameViewer
ShowsInOrder == Viewer!ViewerSpec

(* When the camera has stopped, the last frame is shown and every buffer   *)
(* is back with the driver, unless the program has ended.                  *)
Drains ==
  <>[](pc = "exit" \/ (caps = {} /\ pc = "get")
       \/ (taken = MaxFrame /\ screen = taken /\ done = <<>> /\ pc = "get"))
=============================================================================
