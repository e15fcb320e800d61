------------------------------- MODULE Dialog -------------------------------
(***************************************************************************)
(* The dialogs as their callers see them: one is opened after the other,   *)
(* over whatever was shown before, and the user presses keys in it.  What  *)
(* may follow after a box, and what a box has to show.                     *)
(***************************************************************************)
EXTENDS Lxdialog

\* No dialog is on the screen.
Closed == [kind |-> "closed", res |-> "closed"]

---------------------------------------------------------------------------
\* What the callers give to each dialog.  A terminal with room for more than
\* the items shows no more of them.

CalledMenu(b) ==
    /\ b.items \in Seq(Range(b.items))
    /\ b.active \in -1..(Len(b.items) - 1)
    /\ b.saved \in Int
    /\ \E lines \in 1..(Len(b.items) + 1) :
          b = OpenMenu(b.items, b.active, b.saved, 14 + lines)

CalledList(b) ==
    /\ b.items \in Seq(Range(b.items))
    /\ b.height \in Nat \ {0}
    /\ \E choice \in 0..Larger(Len(b.items) - 1, 0) : b = OpenList(b.items, choice, b.height)

CalledInput(b) ==
    /\ b.instr \in Seq(Range(b.instr))
    /\ Len(b.instr) <= MaxLen
    /\ b.width \in Nat \ {0}
    /\ b = OpenInput(b.instr, b.width)

CalledText(b) ==
    /\ b.n \in Nat \ {0} /\ b.marked \in BOOLEAN
    /\ b.initial \in {0} \cup {i \in Nat : i > 4}
    /\ b.height \in Nat /\ b.height >= 4
    /\ \E vscroll \in 0..b.n :
          b = OpenText(b.n, b.initial, vscroll, b.marked, b.keys, b.height + 4)

Called(b) ==
    \/ b.kind = "menu" /\ CalledMenu(b)
    \/ b.kind = "list" /\ CalledList(b)
    \/ b.kind = "input" /\ CalledInput(b)
    \/ b = OpenYesno
    \/ b.kind = "text" /\ CalledText(b)

---------------------------------------------------------------------------
\* The box c may come after b: another dialog is opened, one of the keys is
\* pressed in a terminal of one of the heights, or the dialog is over.
Follows(b, c, keys, heights) ==
    \/ Called(c)
    \/ b.res = Waiting /\ \E key \in keys, height \in heights : c = BoxKey(b, key, height)
    \/ c = Closed

---------------------------------------------------------------------------
\* Each line of a menu or list shows the item the program acts on when the
\* cursor is there, after any scrolling and paging, and the cursor is on such a
\* line (menubox.c, checklist.c).  A menu whose terminal changed its size is left
\* out: dialog_menu keeps its first item from before.
MenuShows(b) ==
    /\ \A i \in DOMAIN b.rows : b.rows[i] = b.scroll + i /\ b.rows[i] \in 0..(Len(b.items) - 1)
    /\ b.items # <<>> => b.choice \in DOMAIN b.rows

\* The cursor of a field stands where its text is changed, inside the field, and
\* the text fits dialog_input_result (inputbox.c).
FieldShows(b) ==
    /\ b.pos \in 0..Len(b.instr) /\ Len(b.instr) <= MaxLen
    /\ b.pos = b.show + b.inx /\ b.show >= 0 /\ b.inx \in 0..(b.width - 1)

\* begin_reached is set at the first line of the text only, and end_reached
\* when the window shows its end, so that the keys they lock lead nowhere
\* (textbox.c).  In a window without lines, end_reached means nothing.
TextShows(b) ==
    /\ b.begin => b.top = 0
    /\ (b.end /\ BoxLines(b) > 0) => b.top + b.plen >= b.n - 1

Shown(b) ==
    b.res = Waiting =>
        /\ (b.kind = "menu" /\ ~b.resized) \/ b.kind = "list" => MenuShows(b)
        /\ b.kind = "input" => FieldShows(b)
        /\ b.kind = "text" => TextShows(b)
=============================================================================
