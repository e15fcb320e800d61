-------------------------- MODULE MediaBrowserProofs --------------------------
(***************************************************************************)
(* For any number of videos of any length: whatever the order in which the *)
(* loop delivers clicks, drags and timers, the program uses freed memory   *)
(* only after a video was closed before its end.  The inductive invariant  *)
(* adds who may still call back: a timer always has a live context, at     *)
(* most one player is on the screen, and the slider that is held belongs   *)
(* to it, so that its video cannot end under the finger.                   *)
(***************************************************************************)
EXTENDS MediaBrowser, TLAPS

Typed ==
  /\ thumb \in {"none", "shown", "hidden"}
  /\ viewer \in {"none", "picture", "video"}
  /\ player \in [Players -> Player]
  /\ opened \in 0 .. MaxPlayers
  /\ canvas \in {"null", "live", "gone"}
  /\ buffer \in {"none", "live", "freed"}
  /\ finger \in 0 .. MaxPlayers
  /\ undefined \in BOOLEAN

Timers ==
  \A p \in Players :
    player[p].timer => player[p].ctx = "live" /\ player[p].slider # "null"

OneOnScreen ==
  \A p, q \in Players :
    player[p].slider = "live" /\ player[q].slider = "live" => p = q

Held == finger # 0 => player[finger].slider = "live" /\ player[finger].seeking

Fresh == \A p \in Players : p > opened => player[p] = NoPlayer

IInv ==
  /\ Typed /\ Fresh /\ Timers /\ OneOnScreen /\ Held
  /\ PlayerOwnsScreen /\ SliderNotAhead
  /\ ThumbComesBack /\ SafeUnlessClosed

Constants == Frames \in Nat /\ MaxPlayers \in Nat

LEMMA Bounds == Constants
  BY MediaAssumption DEF Constants
-----------------------------------------------------------------------------
LEMMA InitIInv == Init => IInv
<1> SUFFICES ASSUME Init PROVE IInv
  OBVIOUS
<1> USE Bounds DEF Constants, Players
<1>1. NoPlayer \in Player
  BY DEF NoPlayer, Player
<1>2. \A p \in Players : player[p] = NoPlayer
  BY DEF Init
<1>3. Typed
  <2>1. player \in [Players -> Player]
    BY <1>1 DEF Init
  <2>2. opened \in 0 .. MaxPlayers /\ finger \in 0 .. MaxPlayers
    BY DEF Init
  <2>3. QED
    BY <2>1, <2>2 DEF Init, Typed
<1>4. Fresh /\ Timers /\ SliderNotAhead
  BY <1>2 DEF Fresh, Timers, SliderNotAhead, NoPlayer
<1>5. OneOnScreen /\ PlayerOwnsScreen
  BY <1>2 DEF OneOnScreen, PlayerOwnsScreen, NoPlayer
<1>6. Held /\ ThumbComesBack /\ SafeUnlessClosed
  BY DEF Init, Held, ThumbComesBack, SafeUnlessClosed
<1>7. QED
  BY <1>3, <1>4, <1>5, <1>6 DEF IInv

(* Clicks on the list and the thumbnails and the timer of "< Back" touch   *)
(* no player; the timer may delete the thumbnails under a viewer.          *)
LEMMA BrowserStep ==
  ASSUME IInv,
         ClickUp \/ ClickDate \/ ClickBack \/ BackTimer \/ ClickPicture
           \/ \E name \in Names : ClickDir(name)
  PROVE  IInv'
<1>1. UNCHANGED <<player, opened, screen, finger, undefined>>
  BY DEF ClickUp, ClickDate, ClickBack, BackTimer, ClickPicture, ClickDir
<1>2. /\ thumb' \in {"none", "shown", "hidden"}
      /\ viewer' \in {"none", "picture", "video"}
      /\ viewer = "video" => viewer' = "video"
      /\ thumb' = "hidden" => viewer' # "none"
  BY DEF IInv, Typed, ThumbComesBack, ClickUp, ClickDate, ClickBack, BackTimer, ClickPicture,
     ClickDir, OnList, OnThumbs
<1>3. QED
  BY <1>1, <1>2 DEF IInv, Typed, Fresh, Timers, OneOnScreen, Held, PlayerOwnsScreen, SliderNotAhead,
     ThumbComesBack, SafeUnlessClosed, screen

(* A new player finds no other on the screen: no viewer is open. *)
LEMMA OpenVideo == ASSUME IInv, ClickVideo PROVE IInv'
<1> USE Bounds DEF Constants, Players
<1>1. /\ viewer = "none" /\ viewer' = "video" /\ thumb' = "hidden" /\ finger = 0
      /\ UNCHANGED <<finger, undefined>> /\ undefined = FALSE
  BY DEF ClickVideo, OnThumbs, OpenFails, OpenWorks
<1>2. \A p \in Players : player[p].slider # "live"
  BY <1>1 DEF IInv, PlayerOwnsScreen
<1>3. Typed /\ Fresh /\ Timers /\ SliderNotAhead
  BY DEF IInv
<1>4. CASE OpenFails /\ UNCHANGED <<player, opened>>
  BY <1>1, <1>2, <1>3, <1>4 DEF IInv, Typed, Fresh, Timers, OneOnScreen, Held, PlayerOwnsScreen,
     SliderNotAhead, ThumbComesBack, SafeUnlessClosed, OpenFails, screen
<1>5. CASE OpenFails /\ opened' = opened + 1
  <2>1. /\ opened < MaxPlayers
        /\ player' = [player EXCEPT ![opened + 1].ctx = "leaked"]
        /\ UNCHANGED screen
    BY <1>3, <1>5 DEF OpenFails, Typed
  <2> DEFINE new == opened + 1
  <2>2. new \in Players /\ player[new] = NoPlayer
    BY <1>3, <2>1 DEF Typed, Fresh
  <2>3. player'[new] = [NoPlayer EXCEPT !.ctx = "leaked"]
    BY <1>3, <2>1, <2>2 DEF Typed
  <2>4. \A p \in Players : p # new => player'[p] = player[p]
    BY <1>3, <2>1 DEF Typed
  <2>5. player' \in [Players -> Player]
    <3>1. player'[new] \in Player
      BY <1>3, <2>2, <2>3 DEF Typed, Player, NoPlayer
    <3>2. QED
      BY <1>3, <2>1, <3>1 DEF Typed
  <2>6. Typed' /\ Fresh'
    BY <1>1, <1>3, <1>5, <2>1, <2>4, <2>5 DEF Typed, Fresh, screen
  <2>7. Timers' /\ SliderNotAhead'
    BY <1>3, <2>3, <2>4 DEF Timers, SliderNotAhead, NoPlayer
  <2>8. \A p \in Players : player'[p].slider # "live"
    BY <1>2, <2>3, <2>4 DEF NoPlayer
  <2> HIDE DEF new
  <2>9. QED
    BY <1>1, <2>6, <2>7, <2>8 DEF IInv, OneOnScreen, Held, PlayerOwnsScreen, ThumbComesBack,
       SafeUnlessClosed
<1>6. CASE OpenWorks
  <2> DEFINE new == opened + 1
  <2>1. /\ opened < MaxPlayers /\ opened' = new
        /\ player' = [player EXCEPT ![new] =
             [@ EXCEPT !.ctx = "live", !.timer = TRUE, !.slider = "live"]]
        /\ canvas' = "live" /\ buffer' = "live"
    BY <1>6 DEF OpenWorks
  <2>2. new \in Players /\ player[new] = NoPlayer
    BY <1>3, <2>1 DEF Typed, Fresh
  <2>3. player'[new] = [ctx |-> "live", timer |-> TRUE, slider |-> "live",
                        frame |-> 0, value |-> 0, seeking |-> FALSE]
    <3>1. player'[new] = [NoPlayer EXCEPT !.ctx = "live", !.timer = TRUE, !.slider = "live"]
      BY <1>3, <2>1, <2>2 DEF Typed
    <3>2. QED
      BY <3>1 DEF NoPlayer
  <2>4. \A p \in Players : p # new => player'[p] = player[p]
    BY <1>3, <2>1 DEF Typed
  <2>5. player' \in [Players -> Player]
    <3>1. 0 \in 0 .. Frames
      BY Bounds
    <3>2. player'[new] \in Player
      BY <2>3, <3>1 DEF Player
    <3>3. QED
      BY <1>3, <2>1, <3>2 DEF Typed
  <2>6. Typed' /\ Fresh'
    BY <1>1, <1>3, <2>1, <2>4, <2>5 DEF Typed, Fresh
  <2>7. Timers' /\ SliderNotAhead'
    BY <1>3, <2>3, <2>4 DEF Timers, SliderNotAhead
  <2>8. \A p \in Players : player'[p].slider = "live" => p = new
    BY <1>2, <2>4
  <2>9. OneOnScreen' /\ PlayerOwnsScreen'
    BY <1>1, <2>1, <2>3, <2>8 DEF OneOnScreen, PlayerOwnsScreen
  <2> HIDE DEF new
  <2>10. QED
    BY <1>1, <2>6, <2>7, <2>9 DEF IInv, Held, ThumbComesBack, SafeUnlessClosed
<1>7. QED
  BY <1>4, <1>5, <1>6 DEF ClickVideo, OpenFails

(* One packet of a player.  Drawing is undefined only without its slider.  *)
LEMMA FrameStep == ASSUME IInv, NEW p \in Players, Tick(p), Frame(p) PROVE IInv'
<1> USE Bounds DEF Constants, Players
<1>1. /\ UNCHANGED <<thumb, viewer, opened, finger, canvas, buffer>>
      /\ player[p].timer /\ ~player[p].seeking /\ undefined = FALSE
  BY DEF Tick, Frame, screen, IInv, Typed
<1>2. Typed /\ Fresh /\ Timers /\ SliderNotAhead /\ OneOnScreen /\ Held /\ PlayerOwnsScreen /\ ThumbComesBack
  BY DEF IInv
<1>3. PICK picture \in BOOLEAN :
        /\ undefined' = (picture /\ ~CanShow(p))
        /\ player' = [player EXCEPT ![p].frame = @ + 1,
                                    ![p].value = IF picture THEN player[p].frame + 1 ELSE @]
  BY DEF Frame
<1>4. player[p].frame < Frames /\ player[p] \in Player
  BY <1>2 DEF Frame, Typed
<1>5. /\ \A q \in Players : q # p => player'[q] = player[q]
      /\ player'[p] = [player[p] EXCEPT !.frame = @ + 1,
                         !.value = IF picture THEN player[p].frame + 1 ELSE @]
  BY <1>2, <1>3 DEF Typed
<1>6. /\ player'[p].ctx = player[p].ctx /\ player'[p].timer = player[p].timer
      /\ player'[p].slider = player[p].slider /\ player'[p].seeking = player[p].seeking
      /\ player'[p].frame = player[p].frame + 1
      /\ player'[p].value \in {player[p].value, player[p].frame + 1}
  BY <1>4, <1>5 DEF Player
<1>7. player'[p] \in Player
  <2>1. player[p].frame + 1 \in 0 .. Frames
    BY <1>4 DEF Player
  <2>2. (IF picture THEN player[p].frame + 1 ELSE player[p].value) \in 0 .. Frames
    BY <1>4, <2>1 DEF Player
  <2>3. QED
    BY <1>4, <1>5, <2>1, <2>2 DEF Player
<1>8. player' \in [Players -> Player]
  BY <1>2, <1>3, <1>5, <1>7 DEF Typed
<1>9. undefined' \in BOOLEAN
  BY <1>3 DEF CanShow, Use
<1>10. Typed'
  BY <1>1, <1>2, <1>8, <1>9 DEF Typed
<1>11. Fresh' /\ Timers' /\ OneOnScreen' /\ PlayerOwnsScreen' /\ ThumbComesBack'
  <2>1. player[p].timer # NoPlayer.timer
    BY <1>1 DEF NoPlayer
  <2>2. Fresh'
    BY <1>1, <1>2, <1>5, <2>1 DEF Fresh
  <2>3. \A q \in Players : /\ player'[q].slider = player[q].slider
                             /\ player'[q].timer = player[q].timer
                             /\ player'[q].ctx = player[q].ctx
    BY <1>5, <1>6
  <2>4. Timers' /\ OneOnScreen'
    BY <1>2, <2>3 DEF Timers, OneOnScreen
  <2>5. PlayerOwnsScreen' /\ ThumbComesBack'
    BY <1>1, <1>2, <2>3 DEF PlayerOwnsScreen, ThumbComesBack
  <2>6. QED
    BY <2>2, <2>4, <2>5
<1>12. Held'
  BY <1>1, <1>2, <1>5, <1>6 DEF Held, Typed
<1>13. SliderNotAhead'
  <2>1. player[p].value <= player[p].frame /\ player[p].value \in Nat /\ player[p].frame \in Nat
    BY <1>2, <1>4 DEF SliderNotAhead, Player
  <2>2. player'[p].value <= player'[p].frame
    BY <1>6, <2>1
  <2>3. QED
    BY <1>2, <1>5, <2>2 DEF SliderNotAhead
<1>14. SafeUnlessClosed'
  <2>1. CASE player[p].slider = "live"
    BY <1>2, <1>3, <2>1 DEF PlayerOwnsScreen, CanShow, Use, SafeUnlessClosed
  <2>2. CASE player[p].slider # "live"
    <3>1. player'[p].slider = "gone"
      BY <1>1, <1>2, <1>4, <1>6, <2>2 DEF Timers, Player
    <3>2. QED
      BY <3>1 DEF SafeUnlessClosed
  <2>3. QED
    BY <2>1, <2>2
<1>15. QED
  BY <1>10, <1>11, <1>12, <1>13, <1>14 DEF IInv

(* The end of a video that is on the screen, or whose container was closed. *)
LEMMA FinishStep == ASSUME IInv, NEW p \in Players, Tick(p), Finish(p) PROVE IInv'
<1> USE Bounds DEF Constants, Players
<1>1. /\ UNCHANGED <<thumb, viewer, opened, finger>>
      /\ player[p].timer /\ ~player[p].seeking /\ undefined = FALSE
  BY DEF Tick, IInv, Typed
<1>2. Typed /\ Fresh /\ Timers /\ SliderNotAhead /\ OneOnScreen /\ Held /\ PlayerOwnsScreen /\ ThumbComesBack
  BY DEF IInv
<1>3. player[p] \in Player /\ player[p].slider \in {"live", "gone"}
  BY <1>1, <1>2 DEF Typed, Timers, Player
<1>4. CASE ~CanFinish(p)
  <2>1. UNCHANGED <<player, canvas, buffer>> /\ undefined' = TRUE
    BY <1>4 DEF Finish, screen
  <2>2. player[p].slider = "gone"
    BY <1>2, <1>3, <1>4 DEF CanFinish, PlayerOwnsScreen
  <2>3. QED
    BY <1>1, <1>2, <2>1, <2>2 DEF IInv, Typed, Fresh, Timers, SliderNotAhead, OneOnScreen, Held,
       PlayerOwnsScreen, ThumbComesBack, SafeUnlessClosed
<1>5. CASE CanFinish(p)
  <2>1. /\ player' = [player EXCEPT ![p].timer = FALSE, ![p].slider = "null", ![p].ctx = "freed"]
        /\ canvas' = "null" /\ buffer' = "freed" /\ undefined' = FALSE
    BY <1>5 DEF Finish, CanFinish
  <2>2. player[p].slider = "live"
    BY <1>3, <1>5 DEF CanFinish
  <2>3. /\ \A q \in Players : q # p => player'[q] = player[q]
        /\ player'[p] = [player[p] EXCEPT !.timer = FALSE, !.slider = "null", !.ctx = "freed"]
    BY <1>2, <2>1 DEF Typed
  <2>4. \A q \in Players : player'[q].slider # "live"
    BY <1>2, <1>3, <2>2, <2>3 DEF OneOnScreen, Player
  <2>5. player' \in [Players -> Player]
    <3> DEFINE r == player[p]
               ended == [r EXCEPT !.timer = FALSE, !.slider = "null", !.ctx = "freed"]
    <3>1. r \in Player
      BY <1>3
    <3>2. ended \in Player
      <4> HIDE DEF r
      <4> QED
        BY <3>1 DEF Player
    <3>3. player' = [player EXCEPT ![p] = ended]
      BY <1>2, <2>1 DEF Typed
    <3> HIDE DEF ended
    <3>4. player \in [Players -> Player]
      BY <1>2 DEF Typed
    <3>5. QED
      BY <3>2, <3>3, <3>4
  <2>6. Typed'
    BY <1>1, <1>2, <2>1, <2>5 DEF Typed
  <2>7. Fresh'
    <3>1. player[p].timer # NoPlayer.timer
      BY <1>1 DEF NoPlayer
    <3>2. QED
      BY <1>1, <1>2, <2>3, <3>1 DEF Fresh
  <2>8. Timers' /\ SliderNotAhead'
    <3>1. /\ ~player'[p].timer
          /\ player'[p].value = player[p].value /\ player'[p].frame = player[p].frame
      BY <1>3, <2>3 DEF Player
    <3>2. QED
      BY <1>2, <2>3, <3>1 DEF Timers, SliderNotAhead
  <2>9. finger = 0
    BY <1>1, <1>2, <2>2 DEF Held, OneOnScreen, Typed
  <2>10. QED
    BY <1>1, <1>2, <2>1, <2>4, <2>6, <2>7, <2>8, <2>9 DEF IInv, OneOnScreen, Held, PlayerOwnsScreen,
       ThumbComesBack, SafeUnlessClosed
<1>6. QED
  BY <1>4, <1>5

(* Press, Drag and Release change one player that is on the screen, whose  *)
(* context is therefore live.                                              *)
LEMMA SliderStep ==
  ASSUME IInv, NEW p \in Players,
         Press(p) \/ Release(p) \/ (\E value \in 0 .. Frames : Drag(p, value))
  PROVE  IInv'
<1> USE Bounds DEF Constants, Players
<1>1. Typed /\ Fresh /\ Timers /\ SliderNotAhead /\ OneOnScreen /\ Held /\ PlayerOwnsScreen /\ ThumbComesBack
  BY DEF IInv
<1>2. /\ player[p].slider = "live" /\ undefined = FALSE
      /\ UNCHANGED <<thumb, viewer, opened, canvas, buffer>>
      /\ finger' \in {0, p}
  BY <1>1 DEF Press, Release, Drag, OnSlider, Callback, Use, screen, Typed
<1>3. player[p].ctx = "live" /\ player[p] \in Player /\ p <= opened
  <2>1. player[p].slider # NoPlayer.slider
    BY <1>2 DEF NoPlayer
  <2>2. QED
    BY <1>1, <1>2, <2>1 DEF PlayerOwnsScreen, Typed, Fresh
<1>4. PICK effect \in Player :
        /\ Callback(p, effect)
        /\ effect.ctx = player[p].ctx /\ effect.timer = player[p].timer
        /\ effect.slider = player[p].slider
        /\ effect.value <= effect.frame
        /\ finger' # 0 => effect.seeking
  <2>1. player[p].value <= player[p].frame
    BY <1>1 DEF SliderNotAhead
  <2>2. CASE Press(p)
    <3> DEFINE effect == [player[p] EXCEPT !.seeking = TRUE]
    <3>1. effect \in Player /\ effect.ctx = player[p].ctx /\ effect.timer = player[p].timer
          /\ effect.slider = player[p].slider /\ effect.value = player[p].value
          /\ effect.frame = player[p].frame /\ effect.seeking
      BY <1>3 DEF Player
    <3>2. QED
      BY <2>1, <2>2, <3>1 DEF Press
  <2>3. CASE Release(p)
    <3> DEFINE effect == [player[p] EXCEPT !.seeking = FALSE]
    <3>1. effect \in Player /\ effect.ctx = player[p].ctx /\ effect.timer = player[p].timer
          /\ effect.slider = player[p].slider /\ effect.value = player[p].value
          /\ effect.frame = player[p].frame
      BY <1>3 DEF Player
    <3>2. QED
      BY <2>1, <2>3, <3>1 DEF Release
  <2>4. ASSUME NEW value \in 0 .. Frames, Drag(p, value)
        PROVE  \E effect \in Player :
                 /\ Callback(p, effect)
                 /\ effect.ctx = player[p].ctx /\ effect.timer = player[p].timer
                 /\ effect.slider = player[p].slider
                 /\ effect.value <= effect.frame
                 /\ finger' # 0 => effect.seeking
    <3>1. PICK effect \in Seeked(p, value) : Callback(p, effect)
      BY <2>4 DEF Drag
    <3>2. Frames \in 0 .. Frames /\ value <= Frames
      BY <2>4, Bounds
    <3>3. /\ effect \in Player /\ effect.ctx = player[p].ctx /\ effect.timer = player[p].timer
          /\ effect.slider = player[p].slider /\ effect.value <= effect.frame
          /\ effect.seeking = player[p].seeking
      <4>1. CASE effect = [player[p] EXCEPT !.value = value, !.frame = Frames]
        BY <1>3, <2>4, <3>2, <4>1 DEF Player
      <4>2. ASSUME NEW frame \in 1 .. Frames, effect = [player[p] EXCEPT !.value = frame, !.frame = frame]
            PROVE  /\ effect \in Player /\ effect.ctx = player[p].ctx /\ effect.timer = player[p].timer
                   /\ effect.slider = player[p].slider /\ effect.value <= effect.frame
                   /\ effect.seeking = player[p].seeking
        <5>1. frame \in 0 .. Frames
          OBVIOUS
        <5>2. effect \in Player
          BY <1>3, <4>2, <5>1 DEF Player
        <5>3. effect.value = frame /\ effect.frame = frame
          BY <1>3, <4>2 DEF Player
        <5>4. effect.value <= effect.frame
          BY <5>1, <5>3
        <5>5. QED
          BY <1>3, <4>2, <5>2, <5>4 DEF Player
      <4>3. QED
        BY <3>1, <4>1, <4>2 DEF Seeked
    <3>4. finger' # 0 => player[p].seeking
      BY <1>1, <2>4 DEF Drag, Held
    <3>5. QED
      BY <3>1, <3>3, <3>4
  <2>5. QED
    BY <2>2, <2>3, <2>4
<1>5. player' = [player EXCEPT ![p] = effect] /\ undefined' = FALSE
  BY <1>2, <1>3, <1>4 DEF Callback, Use
<1>6. /\ player' \in [Players -> Player] /\ player'[p] = effect
      /\ \A q \in Players : q # p => player'[q] = player[q]
  BY <1>1, <1>4, <1>5 DEF Typed
<1>7. Typed' /\ Fresh'
  <2>1. finger' \in 0 .. MaxPlayers
    BY <1>2
  <2>2. Typed'
    BY <1>1, <1>2, <1>5, <1>6, <2>1 DEF Typed
  <2>3. Fresh'
    BY <1>1, <1>2, <1>3, <1>6 DEF Fresh, Typed
  <2>4. QED
    BY <2>2, <2>3
<1>8. \A q \in Players : /\ player'[q].slider = player[q].slider
                         /\ player'[q].timer = player[q].timer
                         /\ player'[q].ctx = player[q].ctx
  BY <1>4, <1>6
<1>9. Timers' /\ OneOnScreen'
  BY <1>1, <1>8 DEF Timers, OneOnScreen
<1>10. PlayerOwnsScreen' /\ ThumbComesBack'
  BY <1>1, <1>2, <1>8 DEF PlayerOwnsScreen, ThumbComesBack
<1>11. SliderNotAhead'
  BY <1>1, <1>4, <1>6 DEF SliderNotAhead
<1>12. Held' /\ SafeUnlessClosed'
  BY <1>2, <1>4, <1>5, <1>6 DEF Held, SafeUnlessClosed
<1>13. QED
  BY <1>7, <1>9, <1>10, <1>11, <1>12 DEF IInv

(* Closing the viewer takes every player off the screen. *)
LEMMA CloseStep == ASSUME IInv, ClickViewer PROVE IInv'
<1> USE Bounds DEF Constants, Players
<1>1. Typed /\ Fresh /\ Timers /\ SliderNotAhead /\ ThumbComesBack
  BY DEF IInv
<1>2. /\ finger = 0 /\ viewer' = "none"
      /\ UNCHANGED <<opened, buffer, finger>>
      /\ player' = [p \in Players |-> [player[p] EXCEPT !.slider = Delete(@)]]
      /\ canvas' = Delete(canvas)
      /\ thumb' \in {"none", "shown"} /\ undefined' = FALSE
  BY <1>1 DEF ClickViewer, Unhide, Typed
<1>3. \A p \in Players :
        /\ player'[p] \in Player /\ player'[p].slider # "live"
        /\ player[p].slider # "null" => player'[p].slider # "null"
        /\ player'[p].ctx = player[p].ctx /\ player'[p].timer = player[p].timer
        /\ player'[p].value = player[p].value /\ player'[p].frame = player[p].frame
        /\ player[p] = NoPlayer => player'[p] = NoPlayer
  <2> TAKE p \in Players
  <2>1. player[p] \in Player /\ player'[p] = [player[p] EXCEPT !.slider = Delete(player[p].slider)]
    BY <1>1, <1>2 DEF Typed
  <2>2. /\ Delete(player[p].slider) \in {"null", "gone"}
        /\ player[p].slider # "null" => Delete(player[p].slider) = "gone"
        /\ player[p].slider = "null" => Delete(player[p].slider) = "null"
    BY <2>1 DEF Delete, Player
  <2>3. QED
    BY <2>1, <2>2 DEF Player, NoPlayer
<1>4. player' \in [Players -> Player]
  BY <1>2, <1>3
<1>5. canvas' \in {"null", "live", "gone"}
  BY <1>1, <1>2 DEF Typed, Delete
<1>6. Typed'
  BY <1>1, <1>2, <1>4, <1>5 DEF Typed
<1>7. Fresh' /\ Timers' /\ SliderNotAhead'
  BY <1>1, <1>2, <1>3 DEF Fresh, Timers, SliderNotAhead
<1>8. OneOnScreen' /\ PlayerOwnsScreen' /\ Held' /\ ThumbComesBack' /\ SafeUnlessClosed'
  BY <1>2, <1>3 DEF OneOnScreen, PlayerOwnsScreen, Held, ThumbComesBack, SafeUnlessClosed
<1>9. QED
  BY <1>6, <1>7, <1>8 DEF IInv

(* No reachable state breaks the inductive invariant. *)
THEOREM Inductive == Spec => []IInv
<1>1. IInv /\ [Next]_vars => IInv'
  <2> SUFFICES ASSUME IInv, [Next]_vars PROVE IInv'
    OBVIOUS
  <2>1. CASE UNCHANGED vars
    BY <2>1 DEF vars, IInv, Typed, Fresh, Timers, OneOnScreen, Held, PlayerOwnsScreen, SliderNotAhead,
       ThumbComesBack, SafeUnlessClosed
  <2>2. ASSUME NEW p \in Players, Tick(p) PROVE IInv'
    <3>1. player[p].ctx = "live"
      BY <2>2 DEF IInv, Timers, Tick
    <3>2. Frame(p) \/ Finish(p)
      BY <2>2, <3>1 DEF Tick, Use
    <3>3. QED
      BY <2>2, <3>2, FrameStep, FinishStep
  <2>3. QED
    BY <2>1, <2>2, BrowserStep, OpenVideo, SliderStep, CloseStep DEF Next
<1>2. QED
  BY <1>1, InitIInv, PTL DEF Spec

(* Memory is misused only after a video was closed before its end. *)
THEOREM Safe == Spec => []SafeUnlessClosed
<1>1. IInv => SafeUnlessClosed
  BY DEF IInv
<1>2. QED
  BY <1>1, Inductive, PTL

(* The player on the screen owns its canvas, its slider and its context. *)
THEOREM Ownership == Spec => []PlayerOwnsScreen
<1>1. IInv => PlayerOwnsScreen
  BY DEF IInv
<1>2. QED
  BY <1>1, Inductive, PTL

(* The thumbnails are never left hidden without a viewer over them. *)
THEOREM ThumbsReturn == Spec => []ThumbComesBack
<1>1. IInv => ThumbComesBack
  BY DEF IInv
<1>2. QED
  BY <1>1, Inductive, PTL

(* What IInv leaves out: the path and the timers of "< Back". *)
PathName == Names \cup {Start[i] : i \in DOMAIN Start} \cup {"userdata", "ums"}
Rest == path \in Seq(PathName) /\ backs \in 0 .. MaxBacks

LEMMA UpTyped == ASSUME NEW dir \in Seq(PathName) PROVE Up(dir) \in Seq(PathName)
<1>1. Top \in Seq(PathName)
  BY DEF Top, PathName
<1>2. ASSUME Len(dir) > 1 PROVE Front(dir) \in Seq(PathName)
  BY <1>2 DEF Front
<1>3. QED
  BY <1>1, <1>2 DEF Up

(* The variables have their types, in any order of callbacks. *)
THEOREM TypeCorrect == Spec => []TypeOK
<1>1. Init => Rest
  <2>1. Start \in Seq(PathName) /\ MaxBacks \in Nat
    BY MediaAssumption DEF PathName
  <2>2. QED
    BY <2>1 DEF Init, Rest
<1>2. IInv /\ Rest => TypeOK
  BY DEF IInv, Typed, Rest, PathName, TypeOK
<1>3. IInv /\ Rest /\ [Next]_vars => Rest'
  <2> SUFFICES ASSUME Rest, [Next]_vars PROVE Rest'
    OBVIOUS
  <2>1. MaxBacks \in Nat
    BY MediaAssumption
  <2>2. CASE ClickUp
    BY <2>2, UpTyped DEF Rest, ClickUp
  <2>3. CASE \E name \in Names : ClickDir(name)
    BY <2>3 DEF Rest, ClickDir, PathName
  <2>4. CASE ClickBack \/ BackTimer
    BY <2>1, <2>4 DEF Rest, ClickBack, BackTimer
  <2>5. CASE ClickDate \/ ClickPicture \/ ClickVideo \/ ClickViewer
    BY <2>5 DEF Rest, ClickDate, ClickPicture, ClickVideo, ClickViewer
  <2>6. CASE \E p \in Players : \/ Tick(p) \/ Press(p) \/ Release(p)
                               \/ \E value \in 0 .. Frames : Drag(p, value)
    BY <2>6 DEF Rest, Tick, Press, Release, Drag, Callback
  <2>7. CASE UNCHANGED vars
    BY <2>7 DEF Rest, vars
  <2>8. QED
    BY <2>2, <2>3, <2>4, <2>5, <2>6, <2>7 DEF Next
<1>4. QED
  BY <1>1, <1>2, <1>3, Inductive, PTL DEF Spec
=============================================================================
