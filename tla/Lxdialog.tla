------------------------------ MODULE Lxdialog ------------------------------
(***************************************************************************)
(* The dialogs of menuconfig (host/kconfig/lxdialog).  A dialog is a       *)
(* function that draws a box and then handles keys until one ends it.  Here *)
(* a box is a record with the local variables of that function, Open...    *)
(* gives the box as it is when it waits for its first key, and Key(b, key) *)
(* the box after a key; b.res is what the function returned, or Waiting.   *)
(* Items and lines are counted from 0, as in the code; rows gives the item *)
(* that is drawn on each line of the window.  Widths, colours and borders  *)
(* are left out.                                                           *)
(***************************************************************************)
EXTENDS Integers, SequencesExt

CONSTANT MaxLen     \* MAX_LEN of dialog.h: the characters a field takes, and
                    \* the columns a text is scrolled sideways
ASSUME MaxLenAssumption == MaxLen \in Nat \ {0}

Waiting == "waiting"
Esc == "esc"
TooSmall == "too small"

Smaller(a, b) == IF a < b THEN a ELSE b
Larger(a, b) == IF a > b THEN a ELSE b

\* The order of the buttons is a ring of n, and the keys that walk along it.
NextButton(button, key, n) == (button + (IF key = "left" THEN n - 1 ELSE 1)) % n
ButtonKeys == {"left", "right", "tab"}

(* Mutant: the line that became free is not drawn. *)
ScrollBy_blank(b, d) ==
    [b EXCEPT !.scroll = @ + d,
              !.rows = [i \in DOMAIN @ |-> IF i + d \in DOMAIN @ THEN @[i + d] ELSE @[i]]]

\* The window after wscrl by d lines and the drawing of the line that became
\* free.
ScrollBy(b, d) ==
    [b EXCEPT !.scroll = @ + d,
              !.rows = [i \in DOMAIN @ |->
                  IF i + d \in DOMAIN @ THEN @[i + d] ELSE b.scroll + d + i]]

\* print_item for the line of the cursor.
Redraw(b) == [b EXCEPT !.rows[b.choice] = b.scroll + b.choice]

\* The lines of the window whose item begins with the letter of the key.
Hits(b, key) == {i \in 0..(b.max - 1) : b.scroll + i < Len(b.items)
                                       /\ b.items[b.scroll + i + 1].hot = key}

---------------------------------------------------------------------------
\* The loops of the dialogs, by their names, with what a round of each does.

\* A page up or down in dialog_menu.
PageUp(b) == IF b.scroll > 0 THEN ScrollBy(b, -1) ELSE [b EXCEPT !.choice = Larger(@ - 1, 0)]
PageDown(b) == IF b.scroll + b.max < Len(b.items) THEN ScrollBy(b, 1)
               ELSE [b EXCEPT !.choice = Smaller(@ + 1, b.max - 1)]

\* get_line and back_lines of dialog_textbox.  The text ends with a newline, so
\* that the last of its lines is empty and starts at the end of the text.  page
\* is the line the next get_line reads, and stop the early return of back_lines.
GetLine(b) == IF b.page = b.n - 1 THEN [b EXCEPT !.end = TRUE]
              ELSE [b EXCEPT !.page = @ + 1, !.end = FALSE]
BackLine(b) ==
    IF b.stop THEN b
    ELSE IF b.page = b.n - 1 /\ b.end THEN [b EXCEPT !.end = FALSE]
    ELSE IF b.page <= 1 THEN [b EXCEPT !.page = 0, !.begin = TRUE, !.stop = TRUE]
    ELSE [b EXCEPT !.page = @ - 1]

\* The loop of print_page: top is the first line of the window, plen is
\* page_length, and past is passed_end.
PrintLine(b) ==
    LET read == GetLine(b)
    IN [read EXCEPT !.plen = IF b.past THEN @ ELSE @ + 1, !.past = @ \/ read.end]

Round(loop, b) ==
    CASE loop = "page up" -> PageUp(b)
      [] loop = "page down" -> PageDown(b)
      [] loop = "get" -> GetLine(b)
      [] loop = "back" -> BackLine(b)
      [] loop = "print" -> PrintLine(b)

\* b after n rounds, or none if n is not positive.
Repeat(loop, n, b) ==
    LET after[i \in 0..n] == IF i = 0 THEN b ELSE Round(loop, after[i - 1])
    IN IF n <= 0 THEN b ELSE after[n]

---------------------------------------------------------------------------
\* dialog_menu.  Terminals of less than 15 lines are too small, and the window
\* of the items has 14 lines less than the terminal.

\* The code at do_resize: b.active is the item that is selected, or -1 for
\* none, and then choice is left as it was, a line of the window.
PlaceMenu(b, height) ==
    LET n == Len(b.items)
        max == Smaller(height - 14, n)
        target == IF b.active = -1 THEN b.choice ELSE b.active
        keep == b.saved >= 0 /\ b.saved <= target /\ target < b.saved + max /\ b.saved + max <= n
        choice == IF keep THEN target - b.saved ELSE target
        middle == IF choice >= n - max \div 2 THEN n - max ELSE choice - max \div 2
        far == choice >= max
        From(else) == IF far THEN middle ELSE IF keep THEN b.saved ELSE else
    IN IF height < 15 THEN [b EXCEPT !.res = TooSmall]
       ELSE [b EXCEPT !.max = max, !.first = From(@), !.scroll = From(0),
                      !.choice = IF far THEN choice - middle ELSE choice,
                      !.rows = [i \in 0..(max - 1) |-> From(b.first) + i]]

OpenMenu(items, active, saved, height) ==
    PlaceMenu([kind |-> "menu", items |-> items, active |-> active, saved |-> saved,
               choice |-> 0, scroll |-> 0, first |-> 0, max |-> 0, rows |-> <<>>,
               button |-> 0, resized |-> FALSE, res |-> Waiting], height)

MenuUp(b) == IF b.choice < 2 /\ b.scroll > 0 THEN ScrollBy(b, -1)
             ELSE [b EXCEPT !.choice = Larger(@ - 1, 0)]
MenuDown(b) == IF b.choice > b.max - 3 /\ b.scroll + b.max < Len(b.items)
               THEN ScrollBy(b, 1) ELSE [b EXCEPT !.choice = Smaller(@ + 1, b.max - 1)]
\* What a key that ends the menu returns; "enter" returns the button.
MenuResult(b, key) ==
    CASE key \in {"h", "?"} -> "help" [] key \in {"s", "y"} -> "yes" [] key = "n" -> "no"
      [] key = "m" -> "mod" [] key = " " -> "toggle" [] key = "/" -> "search"
      [] key = "z" -> "all" [] OTHER -> <<"select", "exit", "help", "save", "load">>[b.button + 1]

MoveKeys == {"up", "down", "pgup", "pgdn"}
MenuMove(b, key, hits) ==
    LET later == {i \in hits : i > b.choice}
    IN IF hits # {} THEN [b EXCEPT !.choice = Min(IF later # {} THEN later ELSE hits)]
       ELSE CASE key = "up" -> MenuUp(b)
              [] key = "down" -> MenuDown(b)
              [] key = "pgup" -> Repeat("page up", b.max, b)
              [] key = "pgdn" -> Repeat("page down", b.max, b)

MenuKey(b, key, height) ==
    LET hits == IF key \in {"y", "n", "m", "h"} THEN {} ELSE Hits(b, key)
    IN IF b.items # <<>> /\ (hits # {} \/ key \in MoveKeys) THEN Redraw(MenuMove(b, key, hits))
       ELSE CASE key \in ButtonKeys -> [b EXCEPT !.button = NextButton(@, key, 5)]
              [] key \in {" ", "s", "y", "n", "m", "/", "h", "?", "z", "enter"} ->
                    [b EXCEPT !.saved = b.scroll, !.res = MenuResult(b, key)]
              [] key \in {"e", "x", "esc"} -> [b EXCEPT !.res = Esc]
              [] key = "resize" -> PlaceMenu([b EXCEPT !.resized = TRUE], height)
              [] OTHER -> b

\* The item the menu acts on (item_set in dialog_menu), or -1 for none.
Picked(b) == IF b.scroll + b.choice < Len(b.items) THEN b.scroll + b.choice ELSE -1

---------------------------------------------------------------------------
\* dialog_checklist, with the height of its list.

PlaceList(b) ==
    LET max == Smaller(b.height, Len(b.items))
        beyond == b.choice >= b.height
        scroll == IF beyond THEN b.choice - b.height + 1 ELSE b.scroll
    IN [b EXCEPT !.max = max, !.scroll = scroll,
                 !.choice = IF beyond THEN b.height - 1 ELSE @,
                 !.rows = [i \in 0..(max - 1) |-> scroll + i]]

OpenList(items, choice, height) ==
    PlaceList([kind |-> "list", items |-> items, height |-> height, choice |-> choice,
               scroll |-> 0, max |-> 0, rows |-> <<>>, button |-> 0, res |-> Waiting])

ListUp(b) == IF b.choice > 0 THEN Redraw([b EXCEPT !.choice = @ - 1])
             ELSE IF b.scroll > 0 THEN ScrollBy(b, -1) ELSE b
ListDown(b) == IF b.choice # b.max - 1 THEN Redraw([b EXCEPT !.choice = @ + 1])
               ELSE IF b.scroll + b.choice < Len(b.items) - 1 THEN ScrollBy(b, 1) ELSE b

ListKey(b, key) ==
    LET hits == Hits(b, key)
    IN IF hits # {} THEN Redraw([b EXCEPT !.choice = Min(hits)])
       ELSE CASE key = "up" -> ListUp(b)
              [] key = "down" -> ListDown(b)
              [] key \in {"h", "?"} -> [b EXCEPT !.button = 1, !.res = "help"]
              [] key \in {"s", " ", "enter"} ->
                    [b EXCEPT !.res = <<"select", "help">>[b.button + 1]]
              [] key \in ButtonKeys -> [b EXCEPT !.button = NextButton(@, key, 2)]
              [] key \in {"x", "esc"} -> [b EXCEPT !.res = Esc]
              [] key = "resize" -> PlaceList(b)
              [] OTHER -> b

---------------------------------------------------------------------------
\* dialog_inputbox: instr is the sequence of the characters, pos the place of
\* the cursor in it, inx its column in a field of the given width, and show
\* the first character that is seen.  Button -1 is the field itself.

PlaceInput(b) ==
    LET len == Len(b.instr)
        full == len >= b.width
    IN [b EXCEPT !.pos = len, !.show = IF full THEN len - b.width + 1 ELSE 0,
                 !.inx = IF full THEN b.width - 1 ELSE len]

OpenInput(init, width) ==
    PlaceInput([kind |-> "input", instr |-> init, width |-> width, pos |-> 0, show |-> 0,
                inx |-> 0, button |-> -1, res |-> Waiting])

InputBack(b) ==
    IF b.inx = 0 THEN [b EXCEPT !.show = @ - 1, !.pos = @ - 1]
    ELSE [b EXCEPT !.inx = @ - 1, !.pos = @ - 1]
InputForth(b) ==
    IF b.inx = b.width - 1 THEN [b EXCEPT !.show = @ + 1, !.pos = @ + 1]
    ELSE [b EXCEPT !.inx = @ + 1, !.pos = @ + 1]

\* A key in the field: characters are whatever is not one of the named keys.
FieldKey(b, key) ==
    CASE key = "backspace" -> IF b.pos = 0 THEN b
                              ELSE InputBack([b EXCEPT !.instr = RemoveAt(@, b.pos)])
      [] key = "left" -> IF b.pos > 0 THEN InputBack(b) ELSE b
      [] key = "right" -> IF b.pos < Len(b.instr) THEN InputForth(b) ELSE b
      [] OTHER -> IF Len(b.instr) < MaxLen
                  THEN InputForth([b EXCEPT !.instr = InsertAt(@, b.pos + 1, key)]) ELSE b

NamedKeys == {"up", "down", "tab", "enter", "esc", "resize", "pgup", "pgdn", "home", "end"}

InputKey(b, key) ==
    IF b.button = -1 /\ key \notin NamedKeys THEN FieldKey(b, key)
    ELSE CASE key = "o" -> [b EXCEPT !.res = "ok"]
           [] key = "h" -> [b EXCEPT !.res = "help"]
           [] key \in {"up", "left"} -> [b EXCEPT !.button = ((@ + 3) % 3) - 1]
           [] key \in {"tab", "down", "right"} -> [b EXCEPT !.button = ((@ + 2) % 3) - 1]
           [] key \in {" ", "enter"} -> [b EXCEPT !.res = IF b.button = 1 THEN "help" ELSE "ok"]
           [] key \in {"x", "esc"} -> [b EXCEPT !.res = Esc]
           [] key = "resize" -> PlaceInput(b)
           [] OTHER -> b

---------------------------------------------------------------------------
\* dialog_yesno.

OpenYesno == [kind |-> "yesno", button |-> 0, res |-> Waiting]

YesnoKey(b, key) ==
    CASE key = "y" -> [b EXCEPT !.res = "yes"]
      [] key = "n" -> [b EXCEPT !.res = "no"]
      [] key \in ButtonKeys -> [b EXCEPT !.button = NextButton(@, key, 2)]
      [] key \in {" ", "enter"} -> [b EXCEPT !.res = <<"yes", "no">>[b.button + 1]]
      [] key = "esc" -> [b EXCEPT !.res = Esc]
      [] OTHER -> b

---------------------------------------------------------------------------
\* dialog_textbox, for a text of b.n lines.

\* The lines of the window; the buttons and the frame take the others.
BoxLines(b) == b.height - 4

BackLines(b, n) == Repeat("back", n, [b EXCEPT !.begin = FALSE, !.stop = FALSE])

\* print_page: with update_text the page is first read once to be marked.
PrintPage(b) ==
    LET ahead == Repeat("get", BoxLines(b), b)
        from == IF b.marked THEN BackLines(ahead, BoxLines(b)) ELSE b
    IN Repeat("print", BoxLines(b), [from EXCEPT !.plen = 0, !.past = FALSE, !.top = from.page])

\* The code at do_resize, in a terminal of the given height.
PlaceText(b, height) ==
    IF height < 8 THEN [b EXCEPT !.res = TooSmall]
    ELSE PrintPage([b EXCEPT !.height = IF b.initial = 0 THEN height - 4 ELSE b.initial])

OpenText(n, initial, vscroll, marked, keys, height) ==
    LET b == [kind |-> "text", n |-> n, initial |-> initial, height |-> 0, page |-> 0,
              top |-> 0, plen |-> 0, begin |-> vscroll = 0, end |-> FALSE, hscroll |-> 0,
              marked |-> marked, past |-> FALSE, stop |-> FALSE, keys |-> keys, res |-> Waiting]
    IN PlaceText(Repeat("get", vscroll, b), height)

TextMove(b, key) ==
    CASE key = "home" -> IF b.begin THEN b ELSE PrintPage([b EXCEPT !.begin = TRUE, !.page = 0])
      [] key = "end" -> PrintPage(BackLines([b EXCEPT !.end = TRUE, !.page = b.n - 1], BoxLines(b)))
      [] key = "up" -> IF b.begin THEN b ELSE PrintPage(BackLines(b, b.plen + 1))
      [] key = "pgup" -> IF b.begin THEN b ELSE PrintPage(BackLines(b, b.plen + BoxLines(b)))
      [] key = "down" -> IF b.end THEN b ELSE PrintPage(BackLines(b, b.plen - 1))
      [] key = "pgdn" -> IF b.end THEN b ELSE PrintPage([b EXCEPT !.begin = FALSE])

\* Scrolling sideways prints the same page again.
Sideways(b, column) == PrintPage(BackLines([b EXCEPT !.hscroll = column], b.plen))

TextKey(b, key, height) ==
    CASE key \in {"home", "end", "up", "pgup", "down", "pgdn"} -> TextMove(b, key)
      [] key = "0" -> IF b.hscroll <= 0 THEN b ELSE Sideways(b, 0)
      [] key = "left" -> IF b.hscroll <= 0 THEN b ELSE Sideways(b, b.hscroll - 1)
      [] key = "right" -> IF b.hscroll >= MaxLen THEN b ELSE Sideways(b, b.hscroll + 1)
      [] key \in {"e", "x", "enter", "esc"} -> [b EXCEPT !.res = Esc]
      [] key = "resize" -> PlaceText(BackLines(b, b.height), height)
      [] OTHER -> IF key \in b.keys THEN [b EXCEPT !.res = key] ELSE b

\* What the box leaves in *_vscroll: the line at the top of the window.
VScroll(b) == BackLines(b, b.plen).page

---------------------------------------------------------------------------
\* A key in a dialog, and the height of the terminal after a change of its size.
BoxKey(b, key, height) ==
    CASE b.kind = "menu" -> MenuKey(b, key, height)
      [] b.kind = "list" -> ListKey(b, key)
      [] b.kind = "input" -> InputKey(b, key)
      [] b.kind = "yesno" -> YesnoKey(b, key)
      [] b.kind = "text" -> TextKey(b, key, height)
=============================================================================
