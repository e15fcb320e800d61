---------------------------- MODULE KconfigMconf ----------------------------
(***************************************************************************)
(* The menu front end (host/kconfig/mconf.c), which shows the tree in the  *)
(* dialogs of lxdialog.  Each function that loops over a dialog is a frame *)
(* of the sequence stack, innermost first; Open gives the box of the       *)
(* innermost frame, and Handle what its function does with the result:     *)
(*                                                                         *)
(*   <<"menu", m, active, saved>>   conf, with active_menu and s_scroll    *)
(*   <<"choice", m, active>>        conf_choice                            *)
(*   <<"string", m>>                conf_string                            *)
(*   <<"load">>, <<"save">>         conf_load, conf_save                   *)
(*   <<"saved", name>>              the rest of conf_write and conf_save   *)
(*                                  after conf_message                     *)
(*   <<"search">>, <<"results", found, vscroll>>  search_conf              *)
(*   <<"text", lines, height>>      show_textbox                           *)
(*   <<"exit">>                     handle_exit                            *)
(*                                                                         *)
(* u holds the frames, the box, the memory st of KconfigSymbol, file       *)
(* (filename), showall, single (single_menu_mode), open (the menus with    *)
(* data set), some (child_count # 0), write (the file that conf_write is   *)
(* asked for, or NoFile), quiet (save_and_exit, which Esc in the exit      *)
(* dialog leaves set), signal (SIGINT was received) and over.              *)
(***************************************************************************)
EXTENDS KconfigConf, Lxdialog

CONSTANTS
    Hotkeys,        \* the first letter of a prompt that is a hot key, by symbol
    Height,         \* lines of the terminal
    Width,          \* width of the field of an input box
    ListHeight,     \* lines of the list of a choice
    HelpLines       \* lines of a text that is shown

None == 0           \* a null struct menu *

PromptKind(db, m) == LET p == db.menu[m].prompt IN IF p = NoProp THEN "none" ELSE db.prop[p].kind

\* build_conf: the items of the menu current, each with the node it is about.
HotOf(s) == IF s \in DOMAIN Hotkeys THEN Hotkeys[s] ELSE "none"
Item(db, tag, m) == [tag |-> tag, menu |-> m, hot |-> HotOf(db.menu[m].sym)]
Make(db, r, tag, m) == [r EXCEPT !.items = Append(@, Item(db, tag, m)), !.some = TRUE]
Look(r, seen) == [r EXCEPT !.st = seen]

RECURSIVE BuildConf(_, _, _, _, _), BuildSym(_, _, _, _, _)
BuildKids(db, u, current, r, m) ==
    FoldLeft(LAMBDA x, k : BuildConf(db, u, current, x, k), r, db.menu[m].kids)

BuildMenu(db, u, current, r, m) ==
    LET made == Make(db, r, "m", m)
    IN CASE u.single /\ m \in u.open -> BuildKids(db, u, current, made, m)
         [] u.single -> made
         [] OTHER -> Look(made, MenuIsEmpty(db, made.st, m))

\* A choice that is y shows the items below the value it has.
BuildChoice(db, u, current, r, m) ==
    LET s == db.menu[m].sym
        Sees(x, k) == LET c == MenuIsVisible(db, x.st, k)
                      IN [st |-> c, at |-> IF c.ret /\ db.menu[k].sym = r.st.val[s] THEN k ELSE x.at]
        def == FoldLeft(Sees, [st |-> r.st, at |-> None], db.menu[m].kids)
        made == Make(db, Look(r, def.st),
                     IF IsChangable(def.st, s) \/ def.at # None THEN "t" ELSE ":", m)
    IN CASE def.st.tri[s] # Yes -> BuildKids(db, u, current, made, m)
         [] def.at # None /\ db.menu[def.at].kids # <<>> -> BuildConf(db, u, current, made, def.at)
         [] OTHER -> made

BuildSym(db, u, current, r, m) ==
    LET s == db.menu[m].sym
        title == [r EXCEPT !.items = Append(@, Item(db, ":", m))]
        tag == CASE s \in db.value /\ r.st.tri[s] = Yes -> ":"
                 [] db.type[s] \in BoolTypes -> "t"
                 [] OTHER -> "s"
        made == Make(db, r, tag, m)
    IN CASE m = current -> BuildKids(db, u, current, title, m)
         [] tag # "s" /\ PromptKind(db, m) = "menu" -> Look(made, MenuIsEmpty(db, made.st, m))
         [] OTHER -> BuildKids(db, u, current, made, m)

BuildConf(db, u, current, r, m) ==
    LET seen == Look(r, MenuIsVisible(db, r.st, m))
        hidden == IF u.showall THEN PromptKind(db, m) = "none" ELSE ~seen.st.ret
        kind == PromptKind(db, m)
    IN CASE hidden -> seen
         [] db.menu[m].sym \in db.choice -> BuildChoice(db, u, current, seen, m)
         [] db.menu[m].sym # NoSym -> BuildSym(db, u, current, seen, m)
         [] m = current \/ kind = "none" -> BuildKids(db, u, current, seen, m)
         [] kind = "menu" -> BuildMenu(db, u, current, seen, m)
         [] OTHER -> BuildKids(db, u, current, Make(db, seen, ":", m), m)

---------------------------------------------------------------------------
\* The box of the innermost frame.

(* Mutant: counted from 1. *)
LastPlace_counted(places) ==
    IF places = {} THEN -1 ELSE CHOOSE i \in places : \A j \in places : j <= i

\* The last of the places, counted from 0, or -1 for none.
LastPlace(places) ==
    IF places = {} THEN -1 ELSE (CHOOSE i \in places : \A j \in places : j <= i) - 1
Places(items, m) == {i \in DOMAIN items : items[i].menu = m}

OpenConf(db, u, f) ==
    LET r == BuildConf(db, u, f[2], [st |-> u.st, items |-> <<>>, some |-> u.some], f[2])
    IN [u EXCEPT !.st = r.st, !.some = r.some,
                 !.box = IF ~r.some THEN [kind |-> "menu", res |-> Esc]
                         ELSE OpenMenu(r.items, LastPlace(Places(r.items, f[3])), f[4], Height)]

OpenChoice(db, u, f) ==
    LET Add(r, k) == LET c == MenuIsVisible(db, r.st, k)
                     IN [st |-> c, items |-> IF c.ret THEN Append(r.items, Item(db, "v", k))
                                             ELSE r.items]
        r == FoldLeft(Add, [st |-> u.st, items |-> <<>>], db.menu[f[2]].kids)
        About(s) == LastPlace({i \in DOMAIN r.items : db.menu[r.items[i].menu].sym = s})
        now == About(r.st.val[db.menu[f[2]].sym])
        own == About(f[3])
    IN [u EXCEPT !.st = r.st,
                 !.box = OpenList(r.items, CASE own # -1 -> own [] now # -1 -> now [] OTHER -> 0,
                                  ListHeight)]

\* get_prompt_str: the node a jump key leads to, for each prompt of s; the
\* nearest menu that can be seen when the prompt cannot.
RECURSIVE Location(_, _, _)
Location(db, st, m) ==
    IF m = Root THEN Ret(st, None)
    ELSE LET c == MenuIsVisible(db, st, m)
             up == Location(db, c, db.menu[m].parent)
         IN IF c.ret THEN [up EXCEPT !.ret = m] ELSE up

JumpTo(db, r, p) ==
    LET m == db.prop[p].menu
        place == Location(db, r.st, db.menu[m].parent)
        seen == MenuIsVisible(db, place, m)
    IN IF place.ret = None THEN [r EXCEPT !.st = place]
       ELSE [st |-> seen, jumps |-> Append(r.jumps, IF seen.ret THEN m ELSE place.ret)]

Jumps(db, st, found) ==
    FoldLeft(LAMBDA r, s : FoldLeft(LAMBDA x, p : JumpTo(db, x, p), r, Prompts(db, s)),
             [st |-> st, jumps |-> <<>>], found)

JumpKeys == <<"1", "2", "3", "4", "5", "6", "7", "8", "9">>
TextOf(chars) == CHOOSE t \in Texts : Text[t].chars = chars

OpenBox(db, u) ==
    LET f == Head(u.stack)
        jumps == Jumps(db, u.st, f[2])
    IN CASE f[1] = "menu" -> OpenConf(db, u, f)
         [] f[1] = "choice" -> OpenChoice(db, u, f)
         [] f[1] = "string" ->
              [u EXCEPT !.box = OpenInput(Text[StringValue(db, u.st, db.menu[f[2]].sym)].chars, Width)]
         [] f[1] \in {"load", "save"} -> [u EXCEPT !.box = OpenInput(Text[u.file].chars, Width)]
         [] f[1] = "search" -> [u EXCEPT !.box = OpenInput(<<>>, Width)]
         [] f[1] = "results" -> [u EXCEPT !.st = jumps.st,
                                          !.box = OpenText(HelpLines, 0, f[3], TRUE,
                                                           Range(SubSeq(JumpKeys, 1, Len(jumps.jumps))), Height)]
         [] f[1] = "text" -> [u EXCEPT !.box = OpenText(f[2], f[3], 0, FALSE, {}, Height)]
         [] f[1] = "saved" -> [u EXCEPT !.box = [kind |-> "done", res |-> "done"]]
         [] f[1] = "exit" -> [u EXCEPT !.quiet = TRUE,
                                       !.box = IF u.st.changed THEN OpenYesno
                                               ELSE [kind |-> "done", res |-> "done"]]

---------------------------------------------------------------------------
\* What the functions do when their box returns.

Push(u, f) == [u EXCEPT !.stack = <<f>> \o @]
Pop(u) == [u EXCEPT !.stack = IF Len(@) > 1 THEN Tail(@) ELSE <<<<"exit">>>>]
Replace(u, f) == [u EXCEPT !.stack[1] = f]
SubMenu(m) == <<"menu", m, None, 0>>
\* A help text, as high as the terminal, and a message, in a box of 6 lines.
Show(u) == Push(u, <<"text", HelpLines, 0>>)
Tell(u) == Push(u, <<"text", 1, 6>>)

\* Key y tries mod for a value that cannot be y.
TriedMod(u, mod) == IF mod.ret THEN Tell([u EXCEPT !.st = mod]) ELSE [u EXCEPT !.st = mod]
TriedYes(db, u, s, yes) ==
    IF yes.ret THEN [u EXCEPT !.st = yes] ELSE TriedMod(u, SetTristate(db, yes, s, Mod))
SetYes(db, u, s) == TriedYes(db, u, s, SetTristate(db, u.st, s, Yes))

\* "select" in conf.
Select(db, u, tag, m) ==
    LET s == db.menu[m].sym
    IN CASE tag = "m" /\ u.single ->
                [u EXCEPT !.open = IF m \in @ THEN @ \ {m} ELSE @ \cup {m}]
         [] tag = "m" -> Push(u, SubMenu(m))
         [] tag = "t" /\ s \in db.choice /\ u.st.tri[s] = Yes ->
                Push(u, <<"choice", m, u.st.val[s]>>)
         [] tag = "t" /\ PromptKind(db, m) = "menu" -> Push(u, SubMenu(m))
         [] tag = "s" -> Push(u, <<"string", m>>)
         [] OTHER -> u

HandleConf(db, u, b) ==
    LET f == Head(u.stack)
        item == IF b.items = <<>> THEN [tag |-> "", menu |-> None] ELSE b.items[Picked(b) + 1]
        tag == item.tag
        m == item.menu
        s == IF m = None THEN NoSym ELSE db.menu[m].sym
        v == Replace(u, <<"menu", f[2], m, b.saved>>)
    IN CASE b.res \in {Esc, TooSmall, "exit"} -> Pop(u)
         [] b.res = "select" -> Select(db, v, tag, m)
         [] b.res = "help" -> Show(v)
         [] b.res \in {"save", "load", "search"} -> Push(v, <<b.res>>)
         [] b.res = "yes" -> IF tag = "t" THEN SetYes(db, v, s) ELSE v
         [] b.res \in {"no", "mod"} ->
                IF tag = "t" THEN [v EXCEPT !.st = SetTristate(db, @, s, IF b.res = "no" THEN No ELSE Mod)]
                ELSE v
         [] b.res = "toggle" -> CASE tag = "t" -> [v EXCEPT !.st = ToggleTristate(db, @, s)]
                                  [] tag = "m" -> Push(v, SubMenu(m))
                                  [] OTHER -> v
         [] b.res = "all" -> [v EXCEPT !.showall = ~@]

HandleChoice(db, u, b) ==
    LET f == Head(u.stack)
        s == db.menu[b.items[Picked(b) + 1].menu].sym
    IN CASE b.res = Esc -> Pop(u)
         [] b.items = <<>> -> IF b.res = "help" THEN Show(u) ELSE Pop(u)
         [] b.res = "help" -> Show(Replace(u, <<"choice", f[2], s>>))
         [] s = NoSym -> u
         [] OTHER -> Pop([u EXCEPT !.st = SetTristate(db, @, s, Yes)])

\* What follows a call that returned in r whether it succeeded.
PopOrShow(u, r) == IF r.ret THEN Pop([u EXCEPT !.st = r]) ELSE Tell([u EXCEPT !.st = r])

HandleString(db, u, b) ==
    CASE b.res = Esc -> Pop(u)
      [] b.res = "help" -> Show(u)
      [] OTHER -> PopOrShow(u, SetString(db, u.st, db.menu[Head(u.stack)[2]].sym, TextOf(b.instr)))

\* A file that is read counts as changed; one that is not there was looked
\* for by conf_read all the same.
Loaded(u, name, r) ==
    IF r.ret THEN PopOrShow([u EXCEPT !.file = name], [r EXCEPT !.changed = TRUE])
    ELSE PopOrShow(u, r)

HandleLoad(db, u, b, disk) ==
    LET name == TextOf(b.instr)
    IN CASE b.res = Esc -> Pop(u)
         [] b.res = "help" -> Show(u)
         [] b.instr = <<>> -> Pop(u)
         [] OTHER -> Loaded(u, name, ConfRead(db, u.st, disk, name))

HandleSave(u, b) ==
    CASE b.res = Esc -> Pop(u)
      [] b.res = "help" -> Show(u)
      [] b.instr = <<>> -> Pop(u)
      [] OTHER -> [u EXCEPT !.write = TextOf(b.instr)]

HandleExit(u, b) ==
    CASE b.res = "yes" -> [u EXCEPT !.write = u.file]
      [] b.res = Esc /\ ~u.signal -> Replace(u, SubMenu(Root))
      [] OTHER -> [u EXCEPT !.over = TRUE]

\* found: the symbols that the pattern matches.
HandleSearch(db, u, b, found) ==
    CASE b.res = Esc -> Pop(u)
      [] b.res = "help" -> Show(u)
      [] OTHER -> Replace([u EXCEPT !.st = FoldLeft(LAMBDA c, s : CalcValue(db, c, s), @, found)],
                          <<"results", found, 0>>)

\* A jump key opens the menu around its target; anything else ends search.
HandleResults(db, u, b) ==
    LET f == Head(u.stack)
        jumps == Jumps(db, u.st, f[2]).jumps
        m == jumps[CHOOSE i \in DOMAIN jumps : JumpKeys[i] = b.res]
    IN IF b.res \in {Esc, TooSmall} THEN Pop(u)
       ELSE Push(Replace(u, <<"results", f[2], VScroll(b)>>), <<"menu", db.menu[m].parent, m, 0>>)

\* conf_message_callback has shown the message of conf_write.
HandleSaved(u) == Pop([u EXCEPT !.st.changed = FALSE, !.file = Head(u.stack)[2]])

Handle(db, u, disk, found) ==
    LET b == u.box
        kind == Head(u.stack)[1]
    IN CASE kind = "menu" -> HandleConf(db, u, b)
         [] kind = "choice" -> HandleChoice(db, u, b)
         [] kind = "string" -> HandleString(db, u, b)
         [] kind = "load" -> HandleLoad(db, u, b, disk)
         [] kind = "save" -> HandleSave(u, b)
         [] kind = "saved" -> HandleSaved(u)
         [] kind = "search" -> HandleSearch(db, u, b, found)
         [] kind = "results" -> HandleResults(db, u, b)
         [] kind = "text" -> Pop(u)
         [] kind = "exit" -> HandleExit(u, b)

\* Until a box waits for a key, or conf_write is called, or the program ends.
RECURSIVE Proceed(_, _, _, _), Reopen(_, _, _)
Proceed(db, u, disk, found) ==
    IF u.box.res = Waiting THEN [u EXCEPT !.st.ret = No]
    ELSE Reopen(db, Handle(db, u, disk, found), disk)

Reopen(db, u, disk) ==
    IF u.write # NoFile \/ u.over THEN [u EXCEPT !.st.ret = No]
    ELSE Proceed(db, OpenBox(db, u), disk, <<>>)

\* A key in the innermost box.
Press(db, u, key, height, disk, found) ==
    Proceed(db, [u EXCEPT !.box = BoxKey(u.box, key, height)], disk, found)

\* The rest of conf_save, or of handle_exit, when conf_write has returned or
\* comes to its message.
AfterWrite(db, u, ok, disk) ==
    LET done == [u EXCEPT !.write = NoFile]
        saved == Replace(done, <<"saved", u.write>>)
    IN Reopen(db, CASE Head(u.stack)[1] = "exit" -> [done EXCEPT !.over = TRUE]
                    [] ~ok -> Tell(done)
                    [] u.quiet -> HandleSaved(saved)
                    [] OTHER -> Tell(saved), disk)

\* sig_handler: the exit dialog over whatever was shown.
Interrupt(db, u, disk) ==
    Reopen(db, [u EXCEPT !.stack = <<<<"exit">>>>, !.signal = TRUE], disk)

\* main up to the first dialog.
Mconf(db, disk, single) ==
    Reopen(db, [st |-> ConfRead(db, ParsedMemory(db), disk, NoFile), file |-> ".config",
                showall |-> FALSE, single |-> single, open |-> {}, some |-> FALSE,
                stack |-> <<SubMenu(Root)>>, box |-> OpenYesno, write |-> NoFile,
                quiet |-> FALSE, signal |-> FALSE, over |-> FALSE], disk)
=============================================================================
