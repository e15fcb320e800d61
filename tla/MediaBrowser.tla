---------------------------- MODULE MediaBrowser ----------------------------
(***************************************************************************)
(* The file browser of package/lvgl/m_file.c with the video player of      *)
(* package/ffmpeg/video_save.c.  Both run in the one LVGL loop: a callback *)
(* is atomic, and the order in which clicks, drags and due timers are      *)
(* delivered is the loop's.  The browser is a list of directories, over it *)
(* at most one screen of thumbnails, and over that a viewer: a container   *)
(* that covers the screen with a picture or a video in it.                 *)
(*                                                                         *)
(* An object that LVGL has deleted while the program still points to it is *)
(* "gone"; using one, or a player's context after free(), is undefined     *)
(* behaviour, after which the model stops.                                 *)
(***************************************************************************)
EXTENDS Naturals, SequencesExt

CONSTANTS Names,       \* names of subdirectories
          Start,       \* the path file_browser_create is given
          MaxDepth,    \* bound: components of a path
          MaxPlayers,  \* bound: videos opened in one run
          MaxBacks,    \* bound: presses of "< Back" whose timers wait
          Frames       \* frames of a video

ASSUME MediaAssumption ==
  /\ Start \in Seq(STRING)
  /\ Start # <<>>
  /\ {MaxDepth, MaxPlayers, MaxBacks, Frames} \subseteq Nat \ {0}

VARIABLES path,     \* g_browser.current_path
          thumb,    \* g_browser.thumb_scr
          backs,    \* one-shot timers of back_btn_cb that wait
          viewer,   \* what covers the screen: nothing, a picture or a video
          player,   \* the video_context_t of each opened video
          opened,   \* videos opened so far
          canvas,   \* the static canvas of video_save.c
          buffer,   \* the static canvas_buf
          finger,   \* the player whose slider is held, or 0
          undefined
vars == <<path, thumb, backs, viewer, player, opened, canvas, buffer, finger, undefined>>

Players == 1 .. MaxPlayers
Top == <<"userdata", "ums">>
NoPlayer == [ctx |-> "none", timer |-> FALSE, slider |-> "null",
             frame |-> 0, value |-> 0, seeking |-> FALSE]

\* frame counts the frames read so far, value is what the slider shows.
Player == [ctx : {"none", "live", "freed", "leaked"}, timer : BOOLEAN,
           slider : {"null", "live", "gone"}, frame : 0 .. Frames,
           value : 0 .. Frames, seeking : BOOLEAN]

browser == <<path, thumb, backs>>
screen == <<canvas, buffer>>

Init ==
  /\ path = Start /\ thumb = "none" /\ backs = 0
  /\ viewer = "none"
  /\ player = [p \in Players |-> NoPlayer] /\ opened = 0
  /\ canvas = "null" /\ buffer = "none"
  /\ finger = 0 /\ undefined = FALSE

-----------------------------------------------------------------------------
\* The list of directories.  The screen of thumbnails has the size of the
\* display, so the list is clicked only when nothing is over it.
OnList == thumb \in {"none", "gone"} /\ viewer = "none" /\ finger = 0 /\ ~undefined

Up(dir) == IF dir # Top /\ Len(dir) > 1 THEN Front(dir) ELSE Top

ClickUp ==
  /\ OnList
  /\ path' = Up(path)
  /\ UNCHANGED <<thumb, backs, viewer, player, opened, screen, finger, undefined>>

ClickDir(name) ==
  /\ OnList
  /\ Len(path) < MaxDepth
  /\ path' = Append(path, name)
  /\ UNCHANGED <<thumb, backs, viewer, player, opened, screen, finger, undefined>>

\* A date directory keeps current_path and opens the thumbnails over the list.
ClickDate ==
  /\ OnList
  /\ thumb' = "shown"
  /\ UNCHANGED <<path, backs, viewer, player, opened, screen, finger, undefined>>

-----------------------------------------------------------------------------
\* The thumbnails.
OnThumbs == thumb = "shown" /\ viewer = "none" /\ finger = 0 /\ ~undefined

ClickBack ==
  /\ OnThumbs
  /\ backs < MaxBacks
  /\ backs' = backs + 1
  /\ UNCHANGED <<path, thumb, viewer, player, opened, screen, finger, undefined>>

\* lv_obj_is_valid keeps the timer from a screen that was deleted.
BackTimer_keepsPointer ==
  /\ backs > 0 /\ ~undefined
  /\ backs' = backs - 1
  /\ thumb' = IF thumb = "none" THEN "none" ELSE "gone"
  /\ UNCHANGED <<path, viewer, player, opened, screen, finger, undefined>>

BackTimer ==
  /\ backs > 0 /\ ~undefined
  /\ backs' = backs - 1
  /\ thumb' = IF thumb = "gone" THEN "gone" ELSE "none"
  /\ UNCHANGED <<path, viewer, player, opened, screen, finger, undefined>>

ClickPicture ==
  /\ OnThumbs
  /\ thumb' = "hidden"
  /\ viewer' = "picture"
  /\ UNCHANGED <<path, backs, player, opened, screen, finger, undefined>>

\* lv_example_open_video: only ".mp4" is opened, and every early return leaves
\* the container empty; a context it has already allocated stays allocated.
OpenFails ==
  /\ viewer' = "video"
  /\ \/ UNCHANGED <<player, opened>>
     \/ /\ opened < MaxPlayers
        /\ opened' = opened + 1
        /\ player' = [player EXCEPT ![opened + 1].ctx = "leaked"]
  /\ UNCHANGED screen

OpenWorks ==
  /\ opened < MaxPlayers
  /\ opened' = opened + 1
  /\ viewer' = "video"
  /\ player' = [player EXCEPT ![opened + 1] =
                  [@ EXCEPT !.ctx = "live", !.timer = TRUE, !.slider = "live"]]
  /\ canvas' = "live" /\ buffer' = "live"

ClickVideo ==
  /\ OnThumbs
  /\ thumb' = "hidden"
  /\ OpenFails \/ OpenWorks
  /\ UNCHANGED <<path, backs, finger, undefined>>
-----------------------------------------------------------------------------
\* The player.
Use(object) == object = "live"

\* video_canvas_show_frame and lv_slider_set_value
CanShow(p) == Use(buffer) /\ Use(canvas) /\ Use(player[p].slider)

\* A packet with or without a picture; a picture is shown at once.
Frame(p) ==
  /\ player[p].frame < Frames
  /\ \E picture \in BOOLEAN :
       /\ undefined' = (picture /\ ~CanShow(p))
       /\ player' = [player EXCEPT ![p].frame = @ + 1,
                                   ![p].value = IF picture THEN player[p].frame + 1 ELSE @]
  /\ UNCHANGED screen

\* The end of the file: the player removes itself from the screen.
CanFinish(p) == "gone" \notin {player[p].slider, canvas} /\ buffer # "freed"

Finish_keepsSlider(p) ==
  /\ player[p].frame = Frames /\ undefined' = ~CanFinish(p)
  /\ IF CanFinish(p)
       THEN /\ player' = [player EXCEPT ![p].timer = FALSE, ![p].ctx = "freed"]
            /\ canvas' = "null" /\ buffer' = "freed"
       ELSE UNCHANGED <<player, screen>>

Finish(p) ==
  /\ player[p].frame = Frames /\ undefined' = ~CanFinish(p)
  /\ IF CanFinish(p)
       THEN /\ player' = [player EXCEPT ![p].timer = FALSE, ![p].slider = "null", ![p].ctx = "freed"]
            /\ canvas' = "null" /\ buffer' = "freed"
       ELSE UNCHANGED <<player, screen>>

\* video_timer_cb; while the slider is held it returns at once.
Tick(p) ==
  /\ player[p].timer /\ ~undefined
  /\ ~player[p].seeking
  /\ IF Use(player[p].ctx)
       THEN Frame(p) \/ Finish(p)
       ELSE undefined' = TRUE /\ UNCHANGED <<player, screen>>
  /\ UNCHANGED <<path, thumb, backs, viewer, opened, finger>>

\* slider_event_cb is called with the context the slider was made for.
OnSlider(p) == viewer = "video" /\ Use(player[p].slider) /\ ~undefined

Callback(p, effect) ==
  /\ IF Use(player[p].ctx)
       THEN player' = [player EXCEPT ![p] = effect] /\ UNCHANGED undefined
       ELSE undefined' = TRUE /\ UNCHANGED player
  /\ UNCHANGED <<path, thumb, backs, viewer, opened, screen>>

Press(p) ==
  /\ OnSlider(p) /\ finger = 0
  /\ finger' = p
  /\ Callback(p, [player[p] EXCEPT !.seeking = TRUE])

\* From any frame not after the new value the player decodes until it has a
\* picture, which moves the slider again, or the file ends.
Seeked(p, value) ==
  {[player[p] EXCEPT !.value = frame, !.frame = frame] : frame \in 1 .. Frames}
    \cup {[player[p] EXCEPT !.value = value, !.frame = Frames]}

Drag(p, value) ==
  /\ OnSlider(p) /\ finger = p
  /\ \E effect \in Seeked(p, value) : Callback(p, effect)
  /\ UNCHANGED finger

Release_keepsSeeking(p) ==
  /\ OnSlider(p) /\ finger = p
  /\ finger' = 0
  /\ Callback(p, player[p])
Release(p) ==
  /\ OnSlider(p) /\ finger = p
  /\ finger' = 0
  /\ Callback(p, [player[p] EXCEPT !.seeking = FALSE])

-----------------------------------------------------------------------------
\* big_img_click_cb and, for the container of a video, video_close_cb, which
\* is registered without a context: it deletes the container with the canvas
\* and the slider in it, and nothing else.
Delete(object) == IF object = "live" THEN "gone" ELSE object

Unhide_forgets == UNCHANGED <<thumb, undefined>>
Unhide ==
  /\ thumb' = IF thumb = "hidden" THEN "shown" ELSE thumb
  /\ undefined' = (thumb = "gone")

ClickViewer ==
  /\ viewer # "none" /\ finger = 0 /\ ~undefined
  /\ viewer' = "none"
  /\ Unhide
  /\ player' = [p \in Players |-> [player[p] EXCEPT !.slider = Delete(@)]]
  /\ canvas' = Delete(canvas)
  /\ UNCHANGED <<path, backs, opened, buffer, finger>>

Next ==
  \/ ClickUp \/ ClickDate \/ ClickBack \/ BackTimer
  \/ ClickPicture \/ ClickVideo \/ ClickViewer
  \/ \E name \in Names : ClickDir(name)
  \/ \E p \in Players :
       \/ Tick(p) \/ Press(p) \/ Release(p)
       \/ \E value \in 0 .. Frames : Drag(p, value)

\* The loop runs every timer that is due.
Fairness == WF_vars(BackTimer) /\ \A p \in Players : WF_vars(Tick(p))

Spec == Init /\ [][Next]_vars
FairSpec == Spec /\ Fairness

-----------------------------------------------------------------------------
TypeOK ==
  /\ path \in Seq(Names \cup {Start[i] : i \in DOMAIN Start} \cup {"userdata", "ums"})
  /\ thumb \in {"none", "shown", "hidden", "gone"}
  /\ backs \in 0 .. MaxBacks
  /\ viewer \in {"none", "picture", "video"}
  /\ player \in [Players -> Player]
  /\ opened \in 0 .. MaxPlayers
  /\ canvas \in {"null", "live", "gone"}
  /\ buffer \in {"none", "live", "freed"}
  /\ finger \in 0 .. MaxPlayers
  /\ undefined \in BOOLEAN

\* The user is never left with a screen on which nothing can be clicked: the
\* thumbnails are hidden only while a viewer is over them.
ThumbComesBack == thumb = "hidden" => viewer # "none"

\* Whatever the order of clicks, drags, late "< Back" timers and the end of a
\* video, memory is misused only after a video was closed before its end.
SafeUnlessClosed == undefined => \E p \in Players : player[p].slider = "gone"

\* A player that is on the screen owns it: its timer runs only with a live
\* context, and then the canvas and the slider it draws on are live too.
PlayerOwnsScreen ==
  \A p \in Players :
    player[p].slider = "live" =>
      /\ player[p].timer /\ player[p].ctx = "live"
      /\ viewer = "video" /\ canvas = "live" /\ buffer = "live"

\* The slider never stands after the point up to which the file was read, so
\* that playing goes on where the drag left it.
SliderNotAhead == \A p \in Players : player[p].value <= player[p].frame

\* A video that is not held at its slider comes to its end and its player
\* removes itself.
EndsUnlessHeld ==
  \A p \in Players : player[p].timer ~> (~player[p].timer \/ finger # 0 \/ undefined)

\* m_file.c:338 says that closing the container stops the timer.
CloseStopsTimer == \A p \in Players : player[p].slider = "gone" => ~player[p].timer
=============================================================================
