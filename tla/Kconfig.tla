------------------------------ MODULE Kconfig ------------------------------
(***************************************************************************)
(* The configuration tools at work (host/kconfig): conf and menuconfig are *)
(* started one after the other on the Kconfig files of a source tree and   *)
(* the files they leave on the disk.  A tool may be killed between any two *)
(* of its steps, the disk may be full when it writes, and a file that it   *)
(* saves may not be opened or renamed.                                     *)
(***************************************************************************)
EXTENDS KconfigText, KconfigTristate, Dialog, Sequences, Functions

CONSTANTS
    Sources,    \* the Kconfig files of each tree: [files, main, hash], with the
                \* trees an update of the source may lead to in .next
    Starts,     \* by tree, the calls of conf: [mode, file, seed, tty, explicit]
    Disks,      \* by tree, the files that may be there at the beginning
    Menus,      \* by tree, the values of single_menu_mode menuconfig runs with
    Picks,      \* by tree, what randconfig may draw
    KeysOf,     \* by tree, then by kind of box, the keys that are pressed
    Heights,    \* heights of the terminal after a change of its size
    MaxRuns,    \* bound: the number of runs of a tool
    MaxFaults,  \* bound: the number of crashes and of failed calls
    MaxDepth    \* bound: the depth of menus

\* What the functions return that the programs call between two of the steps
\* below, by the name of the function in C or of the program and what it is
\* told: the operators of KconfigConf, KconfigMconf and KconfigData, which the
\* instance gives.  The disk is theirs to read and never to write, whatever
\* they return.
CONSTANTS
    Trees,                                  \* conf_parse, for each tree
    conf_main(_, _, _),                     \* Main: up to the first question
    conf_answer(_, _, _),                   \* Answered: up to the next
    mconf_main(_, _, _),                    \* Mconf: up to the first box
    mconf_key(_, _, _, _, _, _),            \* Press: up to the next
    mconf_signal(_, _, _),                  \* Interrupt
    mconf_written(_, _, _, _),              \* AfterWrite
    conf_read(_, _, _, _),                  \* ConfRead
    conf_write(_, _),                       \* WriteConfig
    conf_write_defconfig(_, _),             \* WriteDefconfig
    conf_split_config(_, _, _, _),          \* SplitConfig
    conf_write_autoconf(_, _),              \* WriteAuto
    sym_calc_value(_, _, _)                 \* CalcValue

ASSUME HeightAssumption == Heights \subseteq Nat
ASSUME BoundAssumption == MaxRuns \in Nat /\ MaxFaults \in Nat /\ MaxDepth \in Nat

VARIABLES
    tree,       \* the tree the source is now: [name, raw, db], raw before and db
                \* after menu_finalize
    disk,       \* the files, by name: their lines
    prog,       \* the tool that runs, Idle for none
    touched,    \* symbols whose files were touched since auto.conf is there
    hist,       \* what the properties remember: [good, from], the last
                \* configuration that was saved whole and its tree, missed, that
                \* the change flag was cleared for nothing, and torn, that it is
                \* set although the next conf_write would write no symbol
    left        \* what the bounds leave: [runs, faults]

vars == <<tree, disk, prog, touched, hist, left>>

DB == tree.db

Idle == [tool |-> "none"]
Nothing == <<<<"nothing", "", FALSE>>>>

Put(name, lines) ==
    [f \in DOMAIN disk \cup {name} |-> IF f = name THEN lines ELSE disk[f]]
Old(name) == name \o ".old"
Without(name) == [f \in DOMAIN disk \ {name} |-> disk[f]]
Renamed(name, new) ==
    [f \in (DOMAIN disk \ {name}) \cup {new} |-> IF f = new THEN disk[name] ELSE disk[f]]

ASSUME NameAssumption == Old(".config") = ".config.old"

---------------------------------------------------------------------------
\* What follows the walks of conf (the end of its main).  A program that
\* writes is at one of the steps of conf_write, conf_write_defconfig and
\* conf_write_autoconf, with the memory st; next is what it does then.  u are
\* the dialogs of menuconfig, and signal tells that its sig_handler runs.

AtWork(tool, at, name, st, next, u, signal) ==
    [tool |-> tool, at |-> at, name |-> name, st |-> st, next |-> next, lines |-> <<>>,
     header |-> <<>>, tristate |-> <<>>, whole |-> TRUE, u |-> u, signal |-> signal]

MconfGoesOn(u, signal) ==
    CASE u.over -> Idle
      [] ~u.over /\ u.write # NoFile -> AtWork("mconf", "write", u.write, u.st, "menu", u, signal)
      [] OTHER -> [tool |-> "mconf", at |-> "shows", u |-> u, signal |-> signal]

ConfAtWork(at, name, st, next) == AtWork("conf", at, name, st, next, <<>>, FALSE)

Finish(c, file) ==
    CASE c.mode = "listnewconfig" -> Idle
      [] c.mode = "savedefconfig" -> ConfAtWork("defconfig", file, c.st, "end")
      [] c.mode = "silentoldconfig" /\ c.sync ->
            ConfAtWork(IF c.st.changed THEN "write" ELSE "split", ".config", c.st, "split")
      [] OTHER -> ConfAtWork("write", ".config", c.st, "end")

ConfGoesOn(c, file) ==
    CASE c.failed -> Idle
      [] ~c.failed /\ c.todo # <<>> -> [tool |-> "conf", at |-> "asks", c |-> c, file |-> file]
      [] OTHER -> Finish(c, file)

StartConf ==
    /\ prog = Idle /\ left.runs > 0
    /\ \E s \in Starts[tree.name] :
          prog' = ConfGoesOn(conf_main(DB, disk, s), s.file)
    /\ left' = [left EXCEPT !.runs = @ - 1]
    /\ hist' = [hist EXCEPT !.missed = FALSE, !.torn = FALSE]
    /\ UNCHANGED <<tree, disk, touched>>

Asks(kind) == prog.tool = "conf" /\ prog.at = "asks" /\ prog.c.todo[1][1] = kind
GoOn(c) == prog' = ConfGoesOn(c, prog.file) /\ UNCHANGED <<tree, disk, touched, hist, left>>
AskedType == DB.type[DB.menu[prog.c.todo[1][2]].sym]

AnswerYesNo ==
    /\ Asks("ask") /\ AskedType \in BoolTypes
    /\ \E v \in {"", "n", "m", "y"} : GoOn(conf_answer(DB, prog.c, v))
AnswerValue ==
    /\ Asks("ask") /\ AskedType \in StringTypes
    /\ \E t \in Texts : GoOn(conf_answer(DB, prog.c, t))
AnswerChoice ==
    /\ Asks("pick")
    /\ \E line \in 0..Len(DB.menu[prog.c.todo[1][2]].kids) : GoOn(conf_answer(DB, prog.c, line))
Random == Asks("random") /\ \E pick \in Picks[tree.name] : GoOn(conf_answer(DB, prog.c, pick))

---------------------------------------------------------------------------
\* Writing.  whole tells whether the disk took all of the file: no call of
\* fprintf or fclose is looked at.  Where conf ends because a call failed, it
\* leaves what a Crash at that step does.

Writes(at) == prog.tool # "none" /\ prog.at = at
SameSource == UNCHANGED <<tree, touched>>

\* The files that a full disk leaves: a first part of the lines.
Outcomes(lines) ==
    {[lines |-> lines, whole |-> TRUE]} \cup
    (IF left.faults = 0 THEN {}
     ELSE {[lines |-> SubSeq(lines, 1, n), whole |-> FALSE] : n \in {0, Len(lines) - 1} \ {-1}})
Spend(whole) == left' = IF whole THEN left ELSE [left EXCEPT !.faults = @ - 1]

WriteTmp ==
    /\ Writes("write")
    /\ LET w == conf_write(DB, prog.st)
       IN \E o \in Outcomes(w.lines) :
             /\ prog' = [prog EXCEPT !.at = "keep", !.lines = o.lines, !.whole = o.whole,
                                     !.st = [w.st EXCEPT !.ret = No]]
             /\ Spend(o.whole)
    /\ UNCHANGED <<disk, hist>> /\ SameSource

(* Mutant: the old file is removed. *)
KeepOld_removes ==
    /\ Writes("keep")
    /\ prog' = [prog EXCEPT !.at = "install"]
    /\ disk' = Without(prog.name)
    /\ UNCHANGED <<hist, left>> /\ SameSource

\* rename to .old, whose failure is not looked at: there may be no file yet.
KeepOld ==
    /\ Writes("keep")
    /\ prog' = [prog EXCEPT !.at = "install"]
    /\ \/ /\ disk' = IF prog.name \in DOMAIN disk
                     THEN Renamed(prog.name, Old(prog.name)) ELSE disk
          /\ UNCHANGED left
       \/ /\ left.faults > 0 /\ Spend(FALSE)
          /\ UNCHANGED disk
    /\ UNCHANGED hist /\ SameSource

\* Back in handle_exit, sig_handler exits.
Install ==
    /\ Writes("install")
    /\ disk' = Put(prog.name, prog.lines)
    /\ hist' = IF prog.name = ".config" /\ prog.whole /\ ~hist.torn
               THEN [hist EXCEPT !.good = prog.lines, !.from = tree.name, !.missed = FALSE]
               ELSE [hist EXCEPT !.missed = ~prog.whole \/ hist.torn, !.torn = FALSE]
    /\ prog' = CASE prog.next = "menu" /\ ~prog.signal ->
                      MconfGoesOn(mconf_written(DB, [prog.u EXCEPT !.st = prog.st], TRUE, disk'), FALSE)
                 [] prog.next = "split" ->
                      [prog EXCEPT !.at = "split", !.st.changed = FALSE, !.lines = <<>>]
                 [] OTHER -> Idle
    /\ UNCHANGED left /\ SameSource

\* conf_write returns 1: its file cannot be opened, or not be renamed.  Only
\* menuconfig goes on, from conf_save.
GivesUp ==
    /\ left.faults > 0 /\ Spend(FALSE)
    /\ prog' = IF prog.next = "menu" /\ ~prog.signal
               THEN MconfGoesOn(mconf_written(DB, [prog.u EXCEPT !.st = prog.st], FALSE, disk), FALSE)
               ELSE Idle
    /\ UNCHANGED disk /\ SameSource

CannotOpen == Writes("write") /\ GivesUp /\ UNCHANGED hist

\* The symbols have lost SYMBOL_WRITE, and the change flag is still set.
CannotRename == Writes("install") /\ GivesUp /\ hist' = [hist EXCEPT !.torn = TRUE]

\* conf_write_defconfig opens the file itself.
SaveDefconfig ==
    /\ Writes("defconfig")
    /\ \E o \in Outcomes(conf_write_defconfig(DB, prog.st).lines) :
          disk' = Put(prog.name, o.lines) /\ Spend(o.whole)
    /\ prog' = Idle
    /\ UNCHANGED hist /\ SameSource

\* conf_write_autoconf: the files of the symbols that changed, one by one, then
\* three files that are renamed, auto.conf last.
There(name) == IF name \in DOMAIN disk THEN disk[name] ELSE <<>>

Split ==
    /\ Writes("split")
    /\ LET s == conf_split_config(DB, prog.st, "auto.conf" \in DOMAIN disk, There("auto.conf"))
       IN prog' = [prog EXCEPT !.at = "touch", !.st = [s.st EXCEPT !.ret = No], !.lines = s.touched]
    /\ UNCHANGED <<tree, disk, touched, hist, left>>

Touch ==
    /\ Writes("touch") /\ prog.lines # <<>>
    /\ touched' = touched \cup {Head(prog.lines)}
    /\ prog' = [prog EXCEPT !.lines = Tail(@)]
    /\ UNCHANGED <<tree, disk, hist, left>>

(* Mutant: auto.conf is the first file to be renamed. *)
WriteNew_autoFirst ==
    /\ Writes("touch") /\ prog.lines = <<>>
    /\ LET w == conf_write_autoconf(DB, prog.st)
       IN \E o \in Outcomes(w.auto) :
             /\ prog' = [prog EXCEPT !.at = "auto", !.whole = o.whole, !.lines = o.lines,
                                     !.header = w.header, !.tristate = w.tristate,
                                     !.st = [w.st EXCEPT !.ret = No]]
             /\ Spend(o.whole)
    /\ UNCHANGED <<disk, hist>> /\ SameSource

WriteNew ==
    /\ Writes("touch") /\ prog.lines = <<>>
    /\ LET w == conf_write_autoconf(DB, prog.st)
       IN \E o \in Outcomes(w.auto) :
             /\ prog' = [prog EXCEPT !.at = "header", !.whole = o.whole, !.lines = o.lines,
                                     !.header = w.header, !.tristate = w.tristate,
                                     !.st = [w.st EXCEPT !.ret = No]]
             /\ Spend(o.whole)
    /\ UNCHANGED <<disk, hist>> /\ SameSource

InstallHeader ==
    /\ Writes("header")
    /\ disk' = Put("autoconf.h", prog.header)
    /\ prog' = [prog EXCEPT !.at = "tristate"]
    /\ UNCHANGED <<hist, left>> /\ SameSource

InstallTristate ==
    /\ Writes("tristate")
    /\ disk' = Put("tristate.conf", prog.tristate)
    /\ prog' = [prog EXCEPT !.at = "auto"]
    /\ UNCHANGED <<hist, left>> /\ SameSource

InstallAuto ==
    /\ Writes("auto")
    /\ disk' = Put("auto.conf", prog.lines)
    /\ touched' = {}
    /\ prog' = Idle
    /\ UNCHANGED <<tree, hist, left>>

---------------------------------------------------------------------------
\* menuconfig.  Between keys the program waits in a box.

StartMconf ==
    /\ prog = Idle /\ left.runs > 0 /\ ~DB.errors
    /\ \E single \in Menus[tree.name] : prog' = MconfGoesOn(mconf_main(DB, disk, single), FALSE)
    /\ left' = [left EXCEPT !.runs = @ - 1]
    /\ hist' = [hist EXCEPT !.missed = FALSE, !.torn = FALSE]
    /\ UNCHANGED <<tree, disk, touched>>

Shows == prog.tool = "mconf" /\ prog.at = "shows"

\* What a pattern may find: nothing, or a symbol.
Found(u, key) == IF u.stack[1][1] = "search" /\ key = "enter"
                 THEN {<<>>} \cup {<<s>> : s \in DOMAIN DB.type \ DB.choice} ELSE {<<>>}

\* conf_load of a file that is not there.
Misses(u, v) == u.stack[1] = <<"load">> /\ v.stack # u.stack /\ v.file = u.file
                /\ u.st.changed /\ ~v.st.changed

Becomes(v) ==
    /\ v # prog.u
    /\ Len(v.stack) <= MaxDepth
    /\ v.box.kind = "input" => \E t \in Texts : Text[t].chars = v.box.instr
    /\ prog' = MconfGoesOn(v, prog.signal)
    /\ hist' = [hist EXCEPT !.missed = (@ \/ Misses(prog.u, v)) /\ ~v.st.changed]

PressKey ==
    /\ Shows
    /\ \E key \in KeysOf[tree.name][prog.u.box.kind] :
         \E height \in IF key = "resize" THEN Heights ELSE {0}, found \in Found(prog.u, key) :
            Becomes(mconf_key(DB, prog.u, key, height, disk, found))
    /\ UNCHANGED <<tree, disk, touched, left>>

\* The signal may come while conf_write shows its message, the symbols written
\* and the change flag still set; it counts as a fault then.
Sigint ==
    LET torn == \E i \in DOMAIN prog.u.stack : prog.u.stack[i][1] = "saved"
    IN /\ Shows /\ ~prog.signal
       /\ torn => left.faults > 0
       /\ prog' = MconfGoesOn(mconf_signal(DB, prog.u, disk), TRUE)
       /\ hist' = [hist EXCEPT !.torn = @ \/ torn]
       /\ Spend(~torn)
       /\ UNCHANGED <<tree, disk, touched>>

---------------------------------------------------------------------------
\* The program is killed, or the machine stops.
Crash ==
    /\ prog # Idle /\ left.faults > 0
    /\ prog' = Idle
    /\ left' = [left EXCEPT !.faults = @ - 1]
    /\ UNCHANGED <<tree, disk, touched, hist>>

\* A new version of the source.
Update ==
    /\ prog = Idle /\ left.runs > 0
    /\ \E t \in Sources[tree.name].next : tree' = Trees[t]
    /\ UNCHANGED <<disk, prog, touched, hist, left>>

Init ==
    /\ \E t \in DOMAIN Sources : tree = Trees[t]
    /\ disk \in Disks[tree.name]
    /\ prog = Idle
    /\ touched = {}
    /\ hist = [good |-> Nothing, from |-> tree.name, missed |-> FALSE, torn |-> FALSE]
    /\ left = [runs |-> MaxRuns, faults |-> MaxFaults]

Answer == AnswerYesNo \/ AnswerValue \/ AnswerChoice \/ Random
Save == WriteTmp \/ KeepOld \/ Install \/ CannotOpen \/ CannotRename \/ SaveDefconfig
AutoConf == Split \/ Touch \/ WriteNew \/ InstallHeader \/ InstallTristate \/ InstallAuto
Next == \/ StartConf \/ Answer \/ Save \/ AutoConf
        \/ StartMconf \/ PressKey \/ Sigint \/ Crash \/ Update

\* A program that runs goes on, and the user answers acceptably in the end:
\* weak fairness of Save \/ AutoConf and of Answer, with the states in which
\* they are enabled written out.
Working == prog.tool # "none" /\ prog.at \notin {"asks", "shows"}
Asking == prog.tool = "conf" /\ prog.at = "asks"
GoesOn == []<>~Working \/ []<><<Save \/ AutoConf>>_vars
UserAnswers == []<>~Asking \/ []<><<Answer>>_vars

Spec == Init /\ [][Next]_vars /\ GoesOn /\ UserAnswers

---------------------------------------------------------------------------
\* After a crash or a full disk, the last configuration that was saved whole
\* is there, in .config or in .config.old.
LastSavedSurvives ==
    prog = Idle => \/ hist.good = Nothing
                   \/ \E f \in {".config", ".config.old"} \cap DOMAIN disk : disk[f] = hist.good

\* The build that reads new in the place of old sees what the C sources see in
\* header and the makefiles in tristate, and finds the file touched of each of
\* the symbols whose line is another.  Not touched are symbols that lose their
\* line and whose old line says nothing to the present Kconfig files: in quotes
\* while there is no string of that name any more, no value of the type the
\* symbol has now, or about a symbol that is set by the environment now.
LineOf(lines, s) == SelectSeq(lines, LAMBDA l : l[1] = s)
Readable(db, l) ==
    LET type == TypeIn(db.type, l[1])
    IN /\ l[3] = (type = "string")
       /\ type = "bool" => l[2] \in {"n", "y"}
       /\ type = "tristate" => l[2] \in {"n", "m", "y"}
       /\ type = "int" => Text[l[2]].isInt
       /\ type = "hex" => Text[l[2]].isHex
Missed(db, old, new, s) ==
    /\ LineOf(new, s) = <<>>
    /\ s \in db.auto \/ \E l \in Range(LineOf(old, s)) : ~Readable(db, l)
BuildSees(db, old, touches, header, tristate, new) ==
    /\ {l[1] : l \in Range(header)} = {l[1] : l \in Range(new)}
    /\ \A l \in Range(header \o tristate) :
          LineOf(new, l[1])[1][2] = l[2] \/ db.type[l[1]] = "hex"
    /\ \A s \in {l[1] : l \in Range(old \o new)} :
          LineOf(new, s) # LineOf(old, s) => s \in touches \/ Missed(db, old, new, s)

\* What conf_split_config touches is what conf_write_autoconf is about to
\* change, but for what Missed names, although the one compares values with the
\* lines of auto.conf and the other writes lines (confdata.c 757-926).
SplitTellsAll ==
    Writes("split") =>
        LET s == conf_split_config(DB, prog.st, "auto.conf" \in DOMAIN disk, There("auto.conf"))
            w == conf_write_autoconf(DB, [s.st EXCEPT !.ret = No])
        IN /\ s.touched \in Seq(STRING)
           /\ BuildSees(DB, There("auto.conf"), Range(s.touched), w.header, w.tristate, w.auto)

\* When auto.conf is replaced, autoconf.h and tristate.conf already say the
\* same, and each symbol whose line is another has had its file touched, a
\* crash since the last auto.conf notwithstanding: but for the symbols of
\* Missed, nothing is built with an old value (conf_write_autoconf,
\* confdata.c 841-1026).
AutoConfLast ==
    [][(There("auto.conf")' # There("auto.conf") /\ prog.whole) =>
          BuildSees(DB, There("auto.conf"), touched, There("autoconf.h"), There("tristate.conf"),
                    There("auto.conf")')]_vars

\* The window of menuconfig goes through what Dialog allows: each dialog is
\* called with a selected item, a first line and a start that exist and with a
\* text that fits the field, whatever was opened and left before, and a key does
\* to the box that waits what its function does (mconf.c).
Box == IF Shows THEN prog.u.box ELSE Closed
NextBox == Follows(Box, Box', KeysOf[tree.name][Box.kind], Heights \cup {0})
ShowsDialogs == Box = Closed /\ [][NextBox]_Box

\* While a dialog of menuconfig waits for a key, what it shows is what it acts
\* on: each line of a menu or list the item there, the cursor of a field the
\* place where its text is changed, the flags of a text its first and last line
\* (menubox.c, checklist.c, inputbox.c, textbox.c).
ShownIsActedOn == Shown(Box)
=============================================================================
