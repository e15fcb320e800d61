-------------------------- MODULE V4l2StreamProofs --------------------------
(***************************************************************************)
(* The camera viewer, for any number of buffers and frames and any pixel   *)
(* format of the screen: no buffer is lost or in two places, the frame     *)
(* that was taken out reaches the screen whole, the driver always has a    *)
(* buffer, and the frames are shown in order.                              *)
(***************************************************************************)
EXTENDS V4l2Stream, SequenceTheorems, TLAPS

-----------------------------------------------------------------------------
(* Appending an element, taking the first one away, and concatenation, on  *)
(* the set of the elements of a sequence and on sequences that repeat none. *)
LEMMA SetOfAppend ==
  ASSUME NEW S, NEW s \in Seq(S), NEW e \in S
  PROVE  ToSet(Append(s, e)) = ToSet(s) \cup {e}
<1> DEFINE t == Append(s, e)
<1>1. /\ Len(s) \in Nat /\ DOMAIN s = 1 .. Len(s) /\ DOMAIN t = 1 .. Len(s) + 1
      /\ \A i \in 1 .. Len(s) : t[i] = s[i]
      /\ t[Len(s) + 1] = e
  BY AppendProperties, LenProperties
<1>2. \A i \in 1 .. Len(s) + 1 : i \in 1 .. Len(s) \/ i = Len(s) + 1
  BY <1>1
<1>3. 1 .. Len(s) \subseteq 1 .. Len(s) + 1 /\ Len(s) + 1 \in 1 .. Len(s) + 1
  BY <1>1
<1> HIDE DEF t
<1>4. QED
  BY <1>1, <1>2, <1>3 DEF ToSet, t

LEMMA InjectiveAppend ==
  ASSUME NEW S, NEW s \in Seq(S), NEW e \in S, IsInjective(s), e \notin ToSet(s)
  PROVE  IsInjective(Append(s, e))
<1> DEFINE t == Append(s, e)
<1>1. /\ Len(s) \in Nat /\ DOMAIN s = 1 .. Len(s) /\ DOMAIN t = 1 .. Len(s) + 1
      /\ \A i \in 1 .. Len(s) : t[i] = s[i]
      /\ t[Len(s) + 1] = e
  BY AppendProperties, LenProperties
<1>2. \A i \in 1 .. Len(s) + 1 : i \in 1 .. Len(s) \/ i = Len(s) + 1
  BY <1>1
<1>3. \A i \in 1 .. Len(s) : t[i] # e
  BY <1>1 DEF ToSet
<1> HIDE DEF t
<1>4. \A i, j \in DOMAIN t : t[i] = t[j] => i = j
  BY <1>1, <1>2, <1>3 DEF IsInjective
<1>5. QED
  BY <1>4 DEF IsInjective, t

LEMMA SetOfTail ==
  ASSUME NEW S, NEW s \in Seq(S), s # <<>>, IsInjective(s)
  PROVE  /\ Head(s) \in ToSet(s) /\ ToSet(Tail(s)) = ToSet(s) \ {Head(s)}
         /\ IsInjective(Tail(s))
<1> DEFINE t == Tail(s)
           n == Len(s)
<1>1. /\ n \in Nat /\ n > 0 /\ DOMAIN s = 1 .. n /\ DOMAIN t = 1 .. n - 1
      /\ Head(s) = s[1]
      /\ \A i \in 1 .. n - 1 : t[i] = s[i + 1]
  BY HeadTailProperties, LenProperties, EmptySeq
<1>2. /\ 1 \in 1 .. n /\ \A i \in 1 .. n - 1 : i + 1 \in 1 .. n /\ i + 1 # 1
      /\ \A i \in 1 .. n : i = 1 \/ \E j \in 1 .. n - 1 : i = j + 1
  <2>1. 1 \in 1 .. n /\ \A i \in 1 .. n - 1 : i + 1 \in 1 .. n /\ i + 1 # 1
    BY <1>1
  <2>2. ASSUME NEW i \in 1 .. n, i # 1 PROVE \E j \in 1 .. n - 1 : i = j + 1
    <3>1. i - 1 \in 1 .. n - 1 /\ i = (i - 1) + 1
      BY <1>1, <2>2
    <3>2. QED
      BY <3>1
  <2>3. QED
    BY <2>1, <2>2
<1>3. \A i, j \in 1 .. n : s[i] = s[j] => i = j
  BY <1>1 DEF IsInjective
<1>4. \A i, j \in 1 .. n - 1 : i + 1 = j + 1 => i = j
  BY <1>1
<1> HIDE DEF t, n
<1>5. ToSet(s) = {s[i] : i \in 1 .. n} /\ ToSet(t) = {t[i] : i \in 1 .. n - 1}
  BY <1>1 DEF ToSet
<1>6. ToSet(t) = ToSet(s) \ {s[1]}
  <2>1. ASSUME NEW i \in 1 .. n - 1 PROVE t[i] \in ToSet(s) /\ t[i] # s[1]
    <3>1. t[i] = s[i + 1] /\ i + 1 \in 1 .. n /\ i + 1 # 1
      BY <1>1, <1>2
    <3>2. QED
      BY <1>2, <1>3, <1>5, <3>1
  <2>2. ASSUME NEW i \in 1 .. n, s[i] # s[1] PROVE s[i] \in ToSet(t)
    <3>1. PICK j \in 1 .. n - 1 : i = j + 1
      BY <1>2, <2>2
    <3>2. QED
      BY <1>1, <1>5, <3>1
  <2>3. QED
    BY <1>5, <2>1, <2>2
<1>7. \A i, j \in DOMAIN t : t[i] = t[j] => i = j
  BY <1>1, <1>2, <1>3, <1>4
<1>8. s[1] \in ToSet(s)
  BY <1>2, <1>5
<1>9. QED
  BY <1>1, <1>6, <1>7, <1>8 DEF t, IsInjective

LEMMA SetOfConcat ==
  ASSUME NEW S, NEW s \in Seq(S), NEW t \in Seq(S)
  PROVE  ToSet(s \o t) = ToSet(s) \cup ToSet(t)
<1>1. Range(s \o t) = Range(s) \cup Range(t)
  BY RangeConcatenation
<1>2. QED
  BY <1>1 DEF ToSet, Range

LEMMA InjectiveConcat ==
  ASSUME NEW S, NEW s \in Seq(S), NEW t \in Seq(S),
         IsInjective(s), IsInjective(t), ToSet(s) \cap ToSet(t) = {}
  PROVE  IsInjective(s \o t)
<1> DEFINE u == s \o t
           m == Len(s)
           n == Len(t)
<1>1. /\ m \in Nat /\ n \in Nat /\ DOMAIN s = 1 .. m /\ DOMAIN t = 1 .. n
      /\ DOMAIN u = 1 .. m + n
      /\ \A i \in 1 .. m + n : u[i] = IF i <= m THEN s[i] ELSE t[i - m]
  BY ConcatProperties, LenProperties
<1>2. \A i \in 1 .. m + n : (i <= m => i \in 1 .. m) /\ (~(i <= m) => i - m \in 1 .. n)
  BY <1>1
<1>3. \A i \in 1 .. m, j \in 1 .. n : s[i] # t[j]
  BY <1>1 DEF ToSet
<1>4. \A i, j \in 1 .. m + n : i - m = j - m => i = j
  BY <1>1
<1> HIDE DEF u, m, n
<1>5. \A i, j \in DOMAIN u : u[i] = u[j] => i = j
  BY <1>1, <1>2, <1>3, <1>4 DEF IsInjective
<1>6. QED
  BY <1>5 DEF IsInjective, u
-----------------------------------------------------------------------------
Streaming == "streaming" \in caps

Opening == {"open", "format", "reqbufs", "map"}
Ready == {"select", "start"}
Running == {"get", "convert", "zoom", "merge", "put"}

Held == IF Holding THEN {cur} ELSE {}

Typed ==
  /\ caps \subseteq {"streaming", "readwrite"}
  /\ count \in 0 .. NB_BUFFER /\ next \in 0 .. NB_BUFFER
  /\ inq \in Seq(Buffer) /\ done \in Seq(Buffer)
  /\ content \in [Buffer -> Frame] /\ cur \in Buffer
  /\ taken \in Frame /\ screen \in Frame /\ got \in Frame

(* The driver fills buffers only while the loop runs; it has none before   *)
(* the queue loop, and a device that does not stream never has one.        *)
Setup ==
  /\ on => pc \in Running
  /\ pc \in {"map", "queue"} => Streaming /\ next < count
  /\ pc \in Ready \cup Running => 0 < count
  /\ ~Streaming => inq = <<>> /\ done = <<>> /\ cur = 0
  /\ pc \in Opening => inq = <<>>
  /\ pc \in Opening \cup Ready \cup {"queue"} => done = <<>>

(* The buffers with the driver, those filled and the one in the program's  *)
(* hands: all of them, and each in one place.                              *)
Places ==
  /\ IsInjective(inq) /\ IsInjective(done)
  /\ pc = "queue" => ToSet(inq) = 0 .. next - 1
  /\ Streaming /\ pc \in Ready \cup Running =>
       /\ ToSet(inq) \cup ToSet(done) \cup Held = 0 .. count - 1
       /\ ToSet(inq) \cap ToSet(done) = {}
       /\ Held \cap (ToSet(inq) \cup ToSet(done)) = {}

(* The filled buffers hold ever later frames, all later than the screen.   *)
Filled ==
  /\ screen <= taken
  /\ \A i, j \in 1 .. Len(done) : i < j => content[done[i]] < content[done[j]]
  /\ \A i \in 1 .. Len(done) : screen < content[done[i]] /\ content[done[i]] <= taken

(* The frame in hand is earlier than those, and later than the screen      *)
(* until it is shown.                                                      *)
InHand ==
  /\ Holding => /\ content[cur] = got
                /\ got <= taken
                /\ \A i \in 1 .. Len(done) : got < content[done[i]]
  /\ pc \in {"convert", "zoom", "merge"} => screen < got /\ Pixels = got
  /\ pc = "convert" => src = "video"
  /\ pc = "put" => screen = got

IInv == Typed /\ Setup /\ Places /\ Filled /\ InHand

LEMMA InitIInv == Init => IInv
<1> SUFFICES ASSUME Init PROVE IInv
  OBVIOUS
<1> USE BufferAssumption, FrameAssumption
<1>1. 0 \in Buffer /\ 0 \in Frame
  BY DEF Buffer, Frame
<1>2. Typed
  BY <1>1 DEF Init, Typed
<1>3. Setup
  BY DEF Init, Setup, Opening, Ready, Running
<1>4. Places
  BY DEF Init, Places, Ready, Running, IsInjective
<1>5. Filled /\ InHand
  <2>1. Len(done) = 0 /\ screen <= taken
    BY DEF Init
  <2>2. pc = "open"
    BY DEF Init
  <2>3. QED
    BY <2>1, <2>2 DEF Filled, InHand, Holding
<1>6. QED
  BY <1>2, <1>3, <1>4, <1>5 DEF IInv

(* From opening the device to the start of the stream, and a call that     *)
(* fails: no buffer moves and no frame is touched.                         *)
LEMMA OpeningSteps ==
  ASSUME IInv, Open \/ SetFormat \/ ReqBufs \/ Map \/ Select \/ Start \/ Fail
  PROVE  IInv'
<1> USE BufferAssumption
<1>1. UNCHANGED <<caps, inq, done, content, cur, pixels, taken, screen, got>>
  BY DEF Open, SetFormat, ReqBufs, Map, Select, Start, Fail, setup, driver
<1>2. /\ pc' \notin {"convert", "zoom", "merge", "put"} /\ (on' => on \/ pc' = "get")
      /\ pc' = "get" => pc = "start"
      /\ pc' \in {"start", "queue"} => pc \in {"select", "map", "queue"}
  BY DEF Open, SetFormat, ReqBufs, Map, Select, Start, Fail, Goto, driver
<1>3. (Filled /\ InHand)'
  BY <1>1, <1>2 DEF IInv, Filled, InHand, Holding
<1>4. CASE Open \/ SetFormat
  <2>1. pc \in Opening /\ pc' \in Opening \ {"map"} /\ UNCHANGED <<count, next, on>>
    BY <1>4 DEF Open, SetFormat, setup, driver, Goto, Opening
  <2>2. (Typed /\ Setup /\ Places)'
    BY <1>1, <2>1 DEF IInv, Typed, Setup, Places, Streaming, Opening, Ready, Running
  <2>3. QED
    BY <1>3, <2>2 DEF IInv
<1>5. CASE ReqBufs
  <2>1. /\ pc \in Opening /\ pc' = (IF Streaming THEN "map" ELSE "select")
        /\ next' = 0 /\ count' \in 1 .. NB_BUFFER /\ on' = on
    BY <1>5 DEF ReqBufs, Opening, Streaming, driver
  <2>2. (Typed /\ Setup /\ Places)'
    BY <1>1, <2>1 DEF IInv, Typed, Setup, Places, Streaming, Opening, Ready, Running
  <2>3. QED
    BY <1>3, <2>2 DEF IInv
<1>6. CASE Map
  <2>1. /\ pc = "map" /\ UNCHANGED <<count, on>>
        /\ \/ pc' = "map" /\ next' = next + 1 /\ next' < count
           \/ pc' = "queue" /\ next' = 0
    BY <1>6 DEF Map, driver, IInv, Typed
  <2>2. Typed'
    BY <1>1, <2>1 DEF IInv, Typed
  <2>3. inq = <<>> /\ done = <<>> /\ Streaming /\ 0 < count
    BY <2>1 DEF IInv, Typed, Setup, Opening
  <2>4. Setup'
    BY <1>1, <2>1, <2>3 DEF IInv, Setup, Streaming, Opening, Ready, Running
  <2>5. ToSet(<<>>) = {} /\ 0 .. 0 - 1 = {}
    BY DEF ToSet
  <2>6. Places'
    BY <1>1, <2>1, <2>3, <2>5 DEF IInv, Places, Ready, Running
  <2>7. QED
    BY <1>3, <2>2, <2>4, <2>6 DEF IInv
<1>7. CASE Select \/ Start
  <2>1. /\ pc \in Ready /\ pc' \in {"start", "get", "exit"} /\ UNCHANGED <<count, next>>
        /\ on' = on \/ pc' = "get"
    BY <1>7 DEF Select, Start, setup, driver, Goto, Ready
  <2>2. Typed'
    BY <1>1, <2>1 DEF IInv, Typed
  <2>3. Setup'
    BY <1>1, <2>1 DEF IInv, Setup, Streaming, Opening, Ready, Running
  <2>4. Held = {} /\ Held' = {}
    BY <2>1 DEF Held, Holding, Ready
  <2>5. Places'
    BY <1>1, <2>1, <2>4 DEF IInv, Places, Streaming, Ready, Running
  <2>6. QED
    BY <1>3, <2>2, <2>3, <2>5 DEF IInv
<1>8. CASE Fail
  <2>1. pc' = "exit" /\ ~on' /\ UNCHANGED <<count, next>>
    BY <1>8 DEF Fail, setup
  <2>2. (Typed /\ Setup /\ Places)'
    BY <1>1, <2>1 DEF IInv, Typed, Setup, Places, Streaming, Opening, Ready, Running
  <2>3. QED
    BY <1>3, <2>2 DEF IInv
<1>9. QED
  BY <1>4, <1>5, <1>6, <1>7, <1>8

(* The queue loop: the buffers come one by one, each once. *)
LEMMA QueueStep == ASSUME IInv, Queue PROVE IInv'
<1> USE BufferAssumption
<1>1. /\ pc = "queue" /\ inq' = Append(inq, next)
      /\ UNCHANGED <<caps, count, done, on, content, cur, taken, screen, got>>
      /\ \/ pc' = "queue" /\ next' = next + 1 /\ next' < count
         \/ pc' = "select" /\ next' = 0 /\ next + 1 = count
  BY DEF Queue, IInv, Typed, Setup
<1>2. Streaming /\ next < count /\ done = <<>> /\ ~on
  BY <1>1 DEF IInv, Setup, Opening, Ready, Running
<1>3. next \in Buffer
  BY <1>2 DEF IInv, Typed, Buffer
<1>4. Typed'
  <2>1. inq' \in Seq(Buffer)
    BY <1>1, <1>3, AppendProperties DEF IInv, Typed
  <2>2. next' \in 0 .. NB_BUFFER
    BY <1>1 DEF IInv, Typed
  <2>3. QED
    BY <1>1, <2>1, <2>2 DEF IInv, Typed
<1>5. Setup'
  BY <1>1, <1>2 DEF Setup, IInv, Typed, Streaming, Opening, Ready, Running
<1>6. ToSet(inq) = 0 .. next - 1 /\ IsInjective(inq) /\ IsInjective(done)
  BY <1>1 DEF IInv, Places
<1>7. ToSet(inq') = 0 .. next /\ IsInjective(inq')
  <2>1. next \notin ToSet(inq) /\ (0 .. next - 1) \cup {next} = 0 .. next
    BY <1>6 DEF IInv, Typed
  <2>2. inq \in Seq(Buffer)
    BY DEF IInv, Typed
  <2>3. /\ ToSet(Append(inq, next)) = ToSet(inq) \cup {next}
        /\ IsInjective(Append(inq, next))
    BY <1>3, <1>6, <2>1, <2>2, SetOfAppend, InjectiveAppend
  <2>4. QED
    BY <1>1, <1>6, <2>1, <2>3
<1>8. Places'
  <2>1. CASE pc' = "queue"
    <3>1. next = next' - 1
      BY <1>1, <2>1 DEF IInv, Typed
    <3>2. QED
      BY <1>1, <1>6, <1>7, <2>1, <3>1 DEF Places, Ready, Running
  <2>2. CASE pc' = "select"
    <3>1. count' - 1 = next /\ ToSet(done') = {} /\ Held' = {}
      BY <1>1, <1>2, <2>2 DEF IInv, Typed, ToSet, Held, Holding
    <3>2. QED
      BY <1>1, <1>6, <1>7, <2>2, <3>1 DEF Places
  <2>3. QED
    BY <1>1, <2>1, <2>2
<1>9. (Filled /\ InHand)'
  BY <1>1 DEF IInv, Filled, InHand, Holding
<1>10. QED
  BY <1>4, <1>5, <1>8, <1>9 DEF IInv

(* Taking a filled buffer: the first, whose frame is the earliest. *)
LEMMA GetFrameStreaming == ASSUME IInv, GetFrameForStreaming PROVE IInv'
<1>1. /\ Streaming /\ pc = "get" /\ pc' = "convert" /\ done # <<>>
      /\ cur' = Head(done) /\ done' = Tail(done) /\ got' = content[Head(done)] /\ src' = "video"
      /\ UNCHANGED <<caps, count, next, inq, on, content, conv, zoom, taken, screen>>
  BY DEF GetFrameForStreaming, Goto, Streaming, setup
<1>2. done \in Seq(Buffer) /\ IsInjective(done)
  BY DEF IInv, Typed, Places
<1>3. /\ Len(done) \in Nat \ {0} /\ Head(done) = done[1] /\ done[1] \in Buffer
      /\ done' \in Seq(Buffer) /\ Len(done') = Len(done) - 1
      /\ \A i \in 1 .. Len(done') : done'[i] = done[i + 1]
  BY <1>1, <1>2, HeadTailProperties, EmptySeq
<1>4. /\ Head(done) \in ToSet(done) /\ ToSet(done') = ToSet(done) \ {Head(done)}
      /\ IsInjective(done')
  BY <1>1, <1>2, SetOfTail
<1>5. Typed'
  BY <1>1, <1>3 DEF IInv, Typed
<1>6. Setup'
  BY <1>1 DEF IInv, Setup, Streaming, Opening, Ready, Running
<1>7. Places'
  <2>1. Held = {} /\ Held' = {Head(done)}
    BY <1>1 DEF Held, Holding
  <2>2. /\ ToSet(inq) \cup ToSet(done) = 0 .. count - 1
        /\ ToSet(inq) \cap ToSet(done) = {}
        /\ IsInjective(inq)
    BY <1>1, <2>1 DEF IInv, Places, Running
  <2>3. QED
    BY <1>1, <1>4, <2>1, <2>2 DEF Places
<1>8. Filled'
  <2>1. \A i \in 1 .. Len(done') : i + 1 \in 1 .. Len(done)
    BY <1>3
  <2>2. \A i, j \in 1 .. Len(done') : i < j => i + 1 < j + 1
    BY <1>3
  <2>3. QED
    BY <1>1, <1>3, <2>1, <2>2 DEF IInv, Filled
<1>9. InHand'
  <2>1. 1 \in 1 .. Len(done) /\ \A i \in 1 .. Len(done') : i + 1 \in 1 .. Len(done) /\ 1 < i + 1
    BY <1>3
  <2>2. content[cur'] = got' /\ screen < got' /\ got' <= taken
    BY <1>1, <1>3, <2>1 DEF IInv, Filled
  <2>3. \A i \in 1 .. Len(done') : got' < content[done'[i]]
    BY <1>1, <1>3, <2>1 DEF IInv, Filled
  <2>4. Pixels' = got'
    BY <1>1, <2>2 DEF Pixels
  <2>5. QED
    BY <1>1, <2>2, <2>3, <2>4 DEF InHand
<1>10. QED
  BY <1>5, <1>6, <1>7, <1>8, <1>9 DEF IInv

(* A device that is only read gives the frame it has just taken. *)
LEMMA GetFrameReading == ASSUME IInv, GetFrameForReadWrite PROVE IInv'
<1> USE FrameAssumption
<1>1. /\ ~Streaming /\ pc = "get" /\ pc' = "convert"
      /\ taken < MaxFrame /\ taken' = taken + 1 /\ content' = [content EXCEPT ![0] = taken + 1]
      /\ got' = taken + 1 /\ src' = "video"
      /\ UNCHANGED <<caps, count, next, inq, done, on, cur, screen>>
  BY DEF GetFrameForReadWrite, Goto, Streaming, setup, driver
<1>2. inq = <<>> /\ done = <<>> /\ cur = 0
  BY <1>1 DEF IInv, Setup
<1>3. taken \in Nat /\ taken + 1 \in Frame /\ screen <= taken /\ screen \in Nat
  BY <1>1 DEF IInv, Typed, Filled, Frame
<1>4. content' \in [Buffer -> Frame] /\ content'[cur'] = taken + 1
  BY <1>1, <1>2, <1>3 DEF IInv, Typed
<1>5. Typed'
  BY <1>1, <1>3, <1>4 DEF IInv, Typed
<1>6. (Setup /\ Places)'
  BY <1>1 DEF IInv, Setup, Places, Streaming, Opening, Ready, Running
<1>7. Len(done') = 0
  BY <1>1, <1>2
<1>8. Filled'
  BY <1>1, <1>3, <1>7 DEF Filled
<1>9. InHand'
  BY <1>1, <1>3, <1>4, <1>7 DEF InHand, Pixels
<1>10. QED
  BY <1>5, <1>6, <1>8, <1>9 DEF IInv

(* The frame in hand passes through the pictures to the screen. *)
LEMMA ShowSteps == ASSUME IInv, Convert \/ Zoom \/ Merge PROVE IInv'
<1>1. /\ Holding /\ Holding' /\ UNCHANGED <<caps, count, next, inq, done, on, content, cur, taken, got>>
      /\ {pc, pc'} \subseteq Running
  BY DEF Convert, Zoom, Merge, Goto, Holding, setup, driver, Running
<1>2. /\ screen < got /\ Pixels = got /\ content[cur] = got /\ got <= taken
      /\ \A i \in 1 .. Len(done) : got < content[done[i]]
  BY <1>1 DEF IInv, InHand, Convert, Zoom, Merge, Goto
<1>3. /\ pc' \in {"zoom", "merge"} => screen' = screen /\ Pixels' = got
      /\ pc' = "put" => screen' = got
      /\ pc' # "convert" /\ screen' \in {screen, got}
  <2>1. CASE Convert
    BY <1>1, <1>2, <2>1 DEF IInv, InHand, Convert, Goto, Pixels
  <2>2. CASE Zoom
    BY <1>1, <1>2, <2>2 DEF Zoom, Goto, Pixels
  <2>3. CASE Merge
    BY <1>2, <2>3 DEF Merge, Goto
  <2>4. QED
    BY <2>1, <2>2, <2>3
<1>4. Typed'
  BY <1>1, <1>3 DEF IInv, Typed
<1>5. Setup'
  BY <1>1 DEF IInv, Setup, Streaming, Opening, Ready, Running
<1>6. Places'
  <2>1. Held' = Held /\ pc' # "queue"
    BY <1>1 DEF Held, Running
  <2>2. QED
    BY <1>1, <2>1 DEF IInv, Places, Streaming
<1>7. Filled'
  BY <1>1, <1>2, <1>3 DEF IInv, Filled
<1>8. InHand'
  BY <1>1, <1>2, <1>3 DEF InHand
<1>9. QED
  BY <1>4, <1>5, <1>6, <1>7, <1>8 DEF IInv

(* The buffer in hand goes back to the end of the queue. *)
LEMMA PutStep == ASSUME IInv, PutFrame PROVE IInv'
<1>1. /\ pc = "put" /\ pc' = "get"
      /\ inq' = IF Streaming THEN Append(inq, cur) ELSE inq
      /\ UNCHANGED <<caps, count, next, done, on, content, cur, taken, screen, got>>
  BY DEF PutFrame, Goto, Streaming, setup
<1>2. inq \in Seq(Buffer) /\ cur \in Buffer
  BY DEF IInv, Typed
<1>3. Typed'
  BY <1>1, <1>2, AppendProperties DEF IInv, Typed
<1>4. Setup'
  BY <1>1 DEF IInv, Setup, Streaming, Opening, Ready, Running
<1>5. Places'
  <2>1. Held = {cur} /\ Held' = {} /\ IsInjective(done) /\ IsInjective(inq)
    BY <1>1 DEF IInv, Places, Held, Holding
  <2>2. CASE Streaming
    <3>1. /\ ToSet(inq) \cup ToSet(done) \cup {cur} = 0 .. count - 1
          /\ ToSet(inq) \cap ToSet(done) = {}
          /\ cur \notin ToSet(inq) /\ cur \notin ToSet(done)
      BY <1>1, <2>1, <2>2 DEF IInv, Places, Running
    <3>2. ToSet(Append(inq, cur)) = ToSet(inq) \cup {cur} /\ IsInjective(Append(inq, cur))
      BY <1>2, <2>1, <3>1, SetOfAppend, InjectiveAppend
    <3>3. QED
      BY <1>1, <2>1, <2>2, <3>1, <3>2 DEF Places
  <2>3. CASE ~Streaming
    BY <1>1, <2>1, <2>3 DEF Places, Streaming
  <2>4. QED
    BY <2>2, <2>3
<1>6. (Filled /\ InHand)'
  BY <1>1 DEF IInv, Filled, InHand, Holding
<1>7. QED
  BY <1>3, <1>4, <1>5, <1>6 DEF IInv

(* The camera fills the first buffer of the queue, which is neither in     *)
(* hand nor filled already.                                                *)
LEMMA CaptureStep == ASSUME IInv, Capture PROVE IInv'
<1> USE FrameAssumption
<1> DEFINE b == Head(inq)
           n == Len(done)
<1>1. /\ inq # <<>> /\ on /\ taken < MaxFrame /\ taken' = taken + 1
      /\ content' = [content EXCEPT ![b] = taken + 1]
      /\ inq' = Tail(inq) /\ done' = Append(done, b)
      /\ UNCHANGED <<caps, count, next, pc, on, cur, conv, zoom, src, screen, got>>
  BY DEF Capture, setup, pixels
<1>2. pc \in Running /\ Streaming
  BY <1>1 DEF IInv, Setup
<1>3. /\ inq \in Seq(Buffer) /\ done \in Seq(Buffer) /\ content \in [Buffer -> Frame]
      /\ IsInjective(inq) /\ IsInjective(done)
      /\ taken \in Nat /\ taken + 1 \in Frame /\ screen \in Nat
  BY <1>1 DEF IInv, Typed, Places, Frame
<1>4. /\ b \in ToSet(inq) /\ ToSet(inq') = ToSet(inq) \ {b} /\ IsInjective(inq')
      /\ b \in Buffer /\ inq' \in Seq(Buffer)
  BY <1>1, <1>3, SetOfTail, HeadTailProperties
<1>5. /\ ToSet(inq) \cup ToSet(done) \cup Held = 0 .. count - 1
      /\ ToSet(inq) \cap ToSet(done) = {}
      /\ Held \cap (ToSet(inq) \cup ToSet(done)) = {}
  BY <1>2 DEF IInv, Places
<1>6. b \notin ToSet(done) /\ b \notin Held
  BY <1>4, <1>5
<1>7. /\ ToSet(done') = ToSet(done) \cup {b} /\ IsInjective(done') /\ done' \in Seq(Buffer)
      /\ n \in Nat /\ Len(done') = n + 1 /\ done'[n + 1] = b
      /\ \A i \in 1 .. n : done'[i] = done[i]
  BY <1>1, <1>3, <1>4, <1>6, SetOfAppend, InjectiveAppend, AppendProperties, LenProperties
<1>8. /\ content' \in [Buffer -> Frame] /\ content'[b] = taken + 1
      /\ \A c \in Buffer : c # b => content'[c] = content[c]
  BY <1>1, <1>3, <1>4
<1>9. \A i \in 1 .. n : done[i] \in Buffer /\ done[i] # b
  BY <1>3, <1>6, ElementOfSeq, LenProperties DEF ToSet
<1> HIDE DEF b, n
<1>10. Typed'
  BY <1>1, <1>3, <1>4, <1>7, <1>8 DEF IInv, Typed
<1>11. Setup'
  BY <1>1, <1>2 DEF IInv, Setup, Streaming, Opening, Ready, Running
<1>12. Places'
  <2>1. Held' = Held /\ pc' # "queue"
    BY <1>1, <1>2 DEF Held, Holding, Running
  <2>2. QED
    BY <1>1, <1>4, <1>5, <1>7, <2>1 DEF Places, Streaming
<1>13. /\ \A i \in 1 .. n : content'[done'[i]] = content[done[i]] /\ content[done[i]] \in Nat
       /\ content'[done'[n + 1]] = taken + 1
       /\ \A i \in 1 .. n + 1 : i \in 1 .. n \/ i = n + 1
       /\ 1 .. Len(done') = 1 .. n + 1
  <2>1. \A c \in Buffer : content[c] \in Nat
    BY <1>3 DEF Frame
  <2>2. QED
    BY <1>7, <1>8, <1>9, <2>1
<1>14. /\ screen <= taken
       /\ \A i, j \in 1 .. n : i < j => content[done[i]] < content[done[j]]
       /\ \A i \in 1 .. n : screen < content[done[i]] /\ content[done[i]] <= taken
  BY DEF IInv, Filled, n
<1>15. Filled'
  <2>1. ASSUME NEW i \in 1 .. n + 1, NEW j \in 1 .. n + 1, i < j
        PROVE  content'[done'[i]] < content'[done'[j]]
    <3>1. i \in 1 .. n
      BY <1>7, <2>1
    <3>2. QED
      BY <1>3, <1>13, <1>14, <2>1, <3>1
  <2>2. ASSUME NEW i \in 1 .. n + 1
        PROVE  screen < content'[done'[i]] /\ content'[done'[i]] <= taken + 1
    BY <1>3, <1>13, <1>14
  <2>3. screen <= taken + 1 /\ Len(done') = n + 1
    BY <1>3, <1>7, <1>14
  <2>4. QED
    BY <1>1, <2>1, <2>2, <2>3 DEF Filled
<1>16. InHand'
  <2>1. Holding => content'[cur] = content[cur]
    BY <1>6, <1>8 DEF Held, IInv, Typed
  <2>2. pc \in {"convert", "zoom", "merge"} => Holding
    BY DEF Holding
  <2>3. pc \in {"convert", "zoom", "merge"} => Pixels' = Pixels
    BY <1>1, <2>1, <2>2 DEF Pixels
  <2>4. got \in Nat /\ (Holding => got <= taken)
    BY DEF IInv, Typed, Frame, InHand
  <2>5. Holding => \A i \in 1 .. n + 1 : got < content'[done'[i]]
    BY <1>3, <1>13, <2>4 DEF IInv, InHand, n
  <2>6. Holding' <=> Holding
    BY <1>1 DEF Holding
  <2>7. (Holding => /\ content[cur] = got /\ got <= taken + 1
                    /\ \A i \in 1 .. Len(done') : got < content'[done'[i]])
    BY <1>3, <1>7, <2>4, <2>5 DEF IInv, InHand
  <2>8. QED
    BY <1>1, <2>1, <2>2, <2>3, <2>6, <2>7 DEF IInv, InHand
<1>17. QED
  BY <1>10, <1>11, <1>12, <1>15, <1>16 DEF IInv

LEMMA NextIInv == IInv /\ [Next]_vars => IInv'
<1> SUFFICES ASSUME IInv, [Next]_vars PROVE IInv'
  OBVIOUS
<1>1. CASE Open \/ SetFormat \/ ReqBufs \/ Map \/ Select \/ Start \/ Fail
  BY <1>1, OpeningSteps
<1>2. CASE Queue
  BY <1>2, QueueStep
<1>3. CASE GetFrame
  BY <1>3, GetFrameStreaming, GetFrameReading DEF GetFrame
<1>4. CASE Convert \/ Zoom \/ Merge
  BY <1>4, ShowSteps
<1>5. CASE PutFrame
  BY <1>5, PutStep
<1>6. CASE Capture
  BY <1>6, CaptureStep
<1>7. CASE UNCHANGED vars
  BY <1>7 DEF vars, IInv, Typed, Setup, Places, Filled, InHand, Held, Holding, Streaming, Pixels,
     Opening, Ready, Running
<1>8. QED
  BY <1>1, <1>2, <1>3, <1>4, <1>5, <1>6, <1>7 DEF Next, Program
-----------------------------------------------------------------------------
(* The strengthened invariant holds in every reachable state: the ground   *)
(* of the theorems below.                                                  *)
THEOREM Inductive == Spec => []IInv
BY InitIInv, NextIInv, PTL DEF Spec

(* However many buffers the driver grants, none is lost and none is queued *)
(* twice while the loop of main.c runs (v4l2.c: the queue loop, DQBUF and  *)
(* QBUF).                                                                  *)
THEOREM BuffersOnce == Spec => []EachBufferOnce
<1> DEFINE held == IF Holding THEN <<cur>> ELSE <<>>
           both == inq \o done
<1>1. ASSUME IInv, Streaming, pc \in Ready \cup Running
      PROVE  IsInjective(both \o held) /\ ToSet(both \o held) = 0 .. count - 1
  <2>1. /\ inq \in Seq(Buffer) /\ done \in Seq(Buffer) /\ cur \in Buffer
        /\ IsInjective(inq) /\ IsInjective(done)
    BY <1>1 DEF IInv, Typed, Places
  <2>2. /\ ToSet(inq) \cup ToSet(done) \cup Held = 0 .. count - 1
        /\ ToSet(inq) \cap ToSet(done) = {}
        /\ Held \cap (ToSet(inq) \cup ToSet(done)) = {}
    BY <1>1 DEF IInv, Places
  <2>3. both \in Seq(Buffer) /\ ToSet(both) = ToSet(inq) \cup ToSet(done) /\ IsInjective(both)
    BY <2>1, <2>2, ConcatProperties, SetOfConcat, InjectiveConcat
  <2>4. held \in Seq(Buffer) /\ ToSet(held) = Held /\ IsInjective(held)
    BY <2>1 DEF Held, ToSet, IsInjective
  <2> HIDE DEF both, held
  <2>5. ToSet(both \o held) = ToSet(both) \cup ToSet(held) /\ IsInjective(both \o held)
    BY <2>2, <2>3, <2>4, SetOfConcat, InjectiveConcat
  <2>6. QED
    BY <2>2, <2>3, <2>4, <2>5
<1>2. IInv => EachBufferOnce
  BY <1>1 DEF EachBufferOnce, Streaming, Ready, Running
<1>3. QED
  BY <1>2, Inductive, PTL

(* What is merged into the screen is the frame that was taken out of the   *)
(* driver, converted and zoomed or not: nothing fills it meanwhile.        *)
THEOREM WholeFrames == Spec => []ShowsWhatItGot
<1>1. IInv => ShowsWhatItGot
  BY DEF IInv, InHand, Holding, ShowsWhatItGot
<1>2. QED
  BY <1>1, Inductive, PTL

(* When the program waits for a frame, the driver has a buffer. *)
THEOREM Fed == Spec => []NeverStarved
<1>1. ASSUME IInv, Streaming, pc = "get" PROVE inq # <<>> \/ done # <<>>
  <2>1. 0 \in 0 .. count - 1
    BY <1>1 DEF IInv, Typed, Setup, Running
  <2>2. ToSet(inq) \cup ToSet(done) = 0 .. count - 1
    BY <1>1 DEF IInv, Places, Running, Held, Holding
  <2>3. ToSet(<<>>) = {}
    BY DEF ToSet
  <2>4. QED
    BY <2>1, <2>2, <2>3
<1>2. IInv => NeverStarved
  BY <1>1 DEF NeverStarved, Streaming
<1>3. QED
  BY <1>2, Inductive, PTL

(* The program implements the viewer: what is shown is always a frame that *)
(* has been taken, and a later one than before.  A step of the camera is a *)
(* Take, the merge into the screen a Show, every other step a stutter.     *)
THEOREM Implements == Spec => ShowsInOrder
<1>1. Init => Viewer!ViewerInit
  BY DEF Init, Viewer!ViewerInit
<1>2. ASSUME IInv, [Next]_vars PROVE [Viewer!ViewerNext]_(Viewer!viewer)
  <2> USE DEF Viewer!ViewerNext, Viewer!viewer, Viewer!Take, Viewer!Show
  <2>1. CASE Capture \/ GetFrameForReadWrite
    BY <2>1 DEF Capture, GetFrameForReadWrite
  <2>2. CASE Merge
    <3>1. screen' = got /\ UNCHANGED taken
      BY <1>2, <2>2 DEF IInv, InHand, Merge, Goto
    <3>2. screen < got /\ got <= taken /\ screen \in Nat /\ got \in Nat /\ taken \in Nat
      BY <1>2, <2>2 DEF IInv, Typed, InHand, Holding, Merge, Goto, Frame
    <3>3. QED
      BY <3>1, <3>2
  <2>3. CASE \/ Open \/ SetFormat \/ ReqBufs \/ Map \/ Queue \/ Select \/ Start
             \/ GetFrameForStreaming \/ Convert \/ Zoom \/ PutFrame \/ Fail
    <3>1. UNCHANGED <<taken, screen>>
      BY <2>3 DEF Open, SetFormat, ReqBufs, Map, Queue, Select, Start, GetFrameForStreaming,
         Convert, Zoom, PutFrame, Fail
    <3>2. QED
      BY <3>1
  <2>4. CASE UNCHANGED vars
    BY <2>4 DEF vars
  <2>5. QED
    BY <1>2, <2>1, <2>2, <2>3, <2>4 DEF Next, Program, GetFrame
<1>3. QED
  BY <1>1, <1>2, Inductive, PTL DEF Spec, ShowsInOrder, Viewer!ViewerSpec

(* The variables that IInv does not type. *)
Names ==
  /\ pc \in Opening \cup Ready \cup Running \cup {"queue", "exit"}
  /\ format \in Format \cup {"none", "garbage"} /\ src \in {"video", "convert", "zoom"}

Pictures == conv \in Frame /\ zoom \in Frame

Switch == on \in BOOLEAN

LEMMA NamesStep == ASSUME Names, [Next]_vars PROVE Names'
<1> USE DEF Names, Opening, Ready, Running, setup, pixels, Goto
<1>1. CASE Open \/ SetFormat \/ ReqBufs \/ Map \/ Queue
  BY <1>1 DEF Open, SetFormat, ReqBufs, Map, Queue
<1>2. CASE Select \/ Start \/ GetFrame \/ PutFrame
  BY <1>2 DEF Select, Start, GetFrame, GetFrameForStreaming, GetFrameForReadWrite, PutFrame
<1>3. CASE Convert \/ Zoom \/ Merge
  BY <1>3 DEF Convert, Zoom, Merge
<1>4. CASE Fail \/ Capture \/ UNCHANGED vars
  BY <1>4 DEF Fail, Capture, vars
<1>5. QED
  BY <1>1, <1>2, <1>3, <1>4 DEF Next, Program

LEMMA PicturesStep == ASSUME IInv, Pictures, [Next]_vars PROVE Pictures'
<1>1. CASE Convert
  <2>1. content[cur] \in Frame
    BY DEF IInv, Typed
  <2>2. QED
    BY <1>1, <2>1 DEF Pictures, Convert
<1>2. CASE Zoom
  <2>1. Pixels = got
    BY <1>2 DEF Zoom, Goto, IInv, InHand
  <2>2. QED
    BY <1>2, <2>1 DEF Pictures, Zoom, IInv, Typed
<1>3. CASE ~Convert /\ ~Zoom
  <2>1. UNCHANGED <<conv, zoom>>
    BY <1>3 DEF Next, Program, GetFrame, Open, SetFormat, ReqBufs, Map, Queue, Select, Start,
       GetFrameForStreaming, GetFrameForReadWrite, Merge, PutFrame, Fail, Capture, pixels, vars
  <2>2. QED
    BY <2>1 DEF Pictures
<1>4. QED
  BY <1>1, <1>2, <1>3

LEMMA SwitchStep == ASSUME Switch, [Next]_vars PROVE Switch'
BY Zenon DEF Switch, Next, Program, GetFrame, Open, SetFormat, ReqBufs, Map, Queue, Select, Start,
   GetFrameForStreaming, GetFrameForReadWrite, Convert, Zoom, Merge, PutFrame, Fail, Capture,
   driver, vars

(* The variables have their types, for any buffers, frames and format. *)
THEOREM TypeCorrect == Spec => []TypeOK
<1>1. Init => Names /\ Switch
  BY DEF Init, Names, Switch, Opening
<1>2. Init => Pictures
  BY FrameAssumption DEF Init, Pictures, Frame
<1>3. IInv /\ Names /\ Switch /\ Pictures => TypeOK
  <2>1. IInv /\ Names /\ Pictures =>
          /\ pc \in {"open", "format", "reqbufs", "map", "queue", "select", "start",
                     "get", "convert", "zoom", "merge", "put", "exit"}
    BY DEF Names, Opening, Ready, Running
  <2>2. QED
    BY <2>1, Zenon DEF IInv, Typed, Names, Switch, Pictures, TypeOK
<1>4. QED
  BY <1>1, <1>2, <1>3, NamesStep, PicturesStep, SwitchStep, Inductive, PTL DEF Spec
=============================================================================
