---------------------------- MODULE KconfigConf ----------------------------
(***************************************************************************)
(* The line-oriented front end (host/kconfig/conf.c).  The walks of conf   *)
(* and check_conf over the tree stop where the user must answer; what is   *)
(* left of their recursion is the sequence todo of the calls to make.  c is *)
(* the memory of the program:                                              *)
(*                                                                         *)
(*   st                    the symbols (KconfigSymbol)                     *)
(*   mode                  input_mode                                      *)
(*   root, cnt             rootEntry, conf_cnt (as conf_cnt # 0)           *)
(*   stdin                 valid_stdin                                     *)
(*   todo                  <<"conf", m>>, <<"check", m>> the two walks,    *)
(*                         <<"ask", m>> conf_sym and conf_string,          *)
(*                         <<"chosen", m, new>>, <<"pick", m, new>> the    *)
(*                         rest of conf_choice after its conf_sym, and its *)
(*                         loop, <<"kids", m>> the children of a choice    *)
(*                         that is m, <<"again">> the end of main's loop,  *)
(*                         <<"old">> what follows oldaskconfig's walk,     *)
(*                         <<"random">> conf_set_all_new_symbols(random)   *)
(*   sync                  sync_kconfig                                    *)
(*   failed                exit(1)                                         *)
(***************************************************************************)
EXTENDS KconfigData

AllModes == {"allnoconfig", "allyesconfig", "allmodconfig", "alldefconfig", "randconfig"}
OldModes == {"oldconfig", "silentoldconfig"}
CheckModes == OldModes \cup {"listnewconfig", "olddefconfig"}

HasValue(st, s) == s \in st.user
Calls(kind, ms) == [i \in DOMAIN ms |-> <<kind, ms[i]>>]
Then(c, calls) == [c EXCEPT !.todo = calls \o Tail(@)]

IsMenu(db, m) == LET p == db.menu[m].prompt IN p # NoProp /\ db.prop[p].kind = "menu"

\* menu_get_parent_menu.
RECURSIVE ParentMenu(_, _)
ParentMenu(db, m) ==
    IF m = Root \/ IsMenu(db, m) THEN m ELSE ParentMenu(db, db.menu[m].parent)

Conf(db, c, m) ==
    LET n == db.menu[m]
        seen == MenuIsVisible(db, c.st, m)
        d == [c EXCEPT !.st = seen]
        new == ~HasValue(seen, n.sym)
        kids == Calls("conf", n.kids)
    IN CASE ~seen.ret -> Then(d, <<>>)
         [] IsMenu(db, m) /\ c.mode \in CheckModes \ {"oldconfig"} /\ c.root # m ->
                Then(d, <<<<"check", m>>>>)
         [] n.sym = NoSym -> Then(d, kids)
         [] n.sym \notin db.choice -> Then(d, <<<<"ask", m>>>> \o kids)
         [] OTHER -> Then(d, (IF IsChangable(seen, n.sym) THEN <<<<"ask", m>>>> ELSE <<>>)
                             \o <<<<"chosen", m, new>>, <<"kids", m>>>>)

CheckConf(db, c, m) ==
    LET n == db.menu[m]
        seen == MenuIsVisible(db, c.st, m)
        d == [c EXCEPT !.st = seen]
        open == /\ n.sym # NoSym /\ ~HasValue(seen, n.sym)
                /\ \/ IsChangable(seen, n.sym)
                   \/ n.sym \in db.choice /\ seen.tri[n.sym] = Yes
        up == ParentMenu(db, m)
        kids == Calls("check", n.kids)
    IN CASE ~seen.ret -> Then(d, <<>>)
         [] open /\ c.mode \in OldModes ->
                Then([d EXCEPT !.cnt = TRUE, !.root = up], <<<<"conf", up>>>> \o kids)
         [] OTHER -> Then(d, kids)

\* The symbols that listnewconfig prints; check_conf changes only what
\* looking at a menu does.
IsListed(db, st, s) ==
    /\ ~HasValue(st, s) /\ IsChangable(st, s) /\ s \notin db.choice \cup db.value

\* conf_choice after the question about the choice itself.
Chosen(db, c, m, new) ==
    LET s == db.menu[m].sym
        calc == CalcValue(db, c.st, s)
    IN Then([c EXCEPT !.st = calc],
            IF calc.tri[s] = Yes THEN <<<<"pick", m, new>>>> ELSE <<>>)

\* The values conf_choice lists, in ms, and the memory after it looked.
Listed(db, st, m) ==
    FoldLeft(LAMBDA r, k : LET seen == MenuIsVisible(db, r.st, k)
                           IN [st |-> seen, ms |-> IF seen.ret /\ db.menu[k].sym # NoSym
                                                   THEN Append(r.ms, k) ELSE r.ms],
             [st |-> st, ms |-> <<>>], db.menu[m].kids)

\* The line of the list that is the value now, 0 for none.
DefaultLine(db, st, m, ms) ==
    LET at == {i \in DOMAIN ms : db.menu[ms[i]].sym = st.val[db.menu[m].sym]}
    IN IF at = {} THEN 0 ELSE CHOOSE i \in at : TRUE

\* A line that is not there asks anew.
Pick(db, c, m, line) ==
    LET listed == Listed(db, c.st, m)
        k == listed.ms[line]
        set == SetTristate(db, listed.st, db.menu[k].sym, Yes)
    IN IF line \notin DOMAIN listed.ms THEN [c EXCEPT !.st = listed.st]
       ELSE Then([c EXCEPT !.st = set], Calls("conf", db.menu[k].kids))

\* conf_askvalue and the loop of conf_choice: a value that cannot be changed
\* is passed over, and so is one that oldconfig finds.
Settles(c, s) == ~IsChangable(c.st, s) \/ (c.mode \in OldModes /\ HasValue(c.st, s))
AsksAbout(db, c, call) ==
    CASE call[1] = "ask" -> ~Settles(c, db.menu[call[2]].sym)
      [] call[1] = "pick" -> /\ Len(Listed(db, c.st, call[2]).ms) # 1
                             /\ c.mode \notin OldModes \/ call[3]
      [] OTHER -> call[1] = "random"
Stopped(db, c) == c.todo = <<>> \/ c.failed \/ AsksAbout(db, c, Head(c.todo))

\* One call; the end of main's loop starts it anew while it asked something.
Step(db, c) ==
    LET call == Head(c.todo)
        m == call[2]
        list == Listed(db, c.st, m)
    IN CASE call[1] = "conf" -> Conf(db, c, m)
         [] call[1] = "check" -> CheckConf(db, c, m)
         [] call[1] = "ask" -> Then(c, <<>>)
         [] call[1] = "chosen" -> Chosen(db, c, m, call[3])
         [] call[1] = "pick" -> Pick(db, c, m, IF Len(list.ms) = 1 THEN 1
                                              ELSE DefaultLine(db, list.st, m, list.ms))
         [] call[1] = "kids" ->
                Then(c, IF c.st.tri[db.menu[m].sym] = Mod THEN Calls("conf", db.menu[m].kids)
                        ELSE <<>>)
         [] call[1] = "old" -> Then([c EXCEPT !.mode = "silentoldconfig"], <<>>)
         [] OTHER -> Then([c EXCEPT !.cnt = FALSE],
                          IF c.cnt THEN <<<<"check", Root>>, <<"again", Root>>>> ELSE <<>>)

\* Runs on to the next question; check_stdin ends the program there when
\* nobody can answer.
RECURSIVE Run(_, _)
Run(db, c) ==
    IF ~Stopped(db, c) THEN Run(db, Step(db, c))
    ELSE [c EXCEPT !.failed = @ \/ (~c.stdin /\ c.todo # <<>>), !.st.ret = No]

\* The answers: "" is the Enter key.  A value that is refused is asked again.
Accepts(db, c, r) ==
    Run(db, IF r.ret THEN Then([c EXCEPT !.st = r], <<>>) ELSE [c EXCEPT !.st = r])

AnswerSym(db, c, v) ==
    LET s == db.menu[c.todo[1][2]].sym
    IN Accepts(db, c, SetTristate(db, c.st, s, IF v = "" THEN c.st.tri[s] ELSE TriOf(v)))

AnswerText(db, c, t) ==
    LET s == db.menu[c.todo[1][2]].sym
    IN Accepts(db, c, SetString(db, c.st, s, IF t = "" THEN StringValue(db, c.st, s) ELSE t))

AnswerPick(db, c, line) ==
    LET m == c.todo[1][2]
        list == Listed(db, c.st, m)
    IN Run(db, Pick(db, c, m, IF line = 0 THEN DefaultLine(db, list.st, m, list.ms) ELSE line))

\* One round of randconfig's loop, with what it draws.
Draw(db, c, pick) ==
    LET set == SetAllNew(db, c.st, "randconfig", pick)
    IN Run(db, IF set.ret THEN [c EXCEPT !.st = set] ELSE Then([c EXCEPT !.st = set], <<>>))

\* What the question asks for: the answers of the three kinds of question are
\* "", a value or a text, a line of a list, and what randconfig draws.
Answered(db, c, a) ==
    LET call == Head(c.todo)
    IN CASE call[1] = "pick" -> AnswerPick(db, c, a)
         [] call[1] = "random" -> Draw(db, c, a)
         [] db.type[db.menu[call[2]].sym] \in BoolTypes -> AnswerSym(db, c, a)
         [] OTHER -> AnswerText(db, c, a)

---------------------------------------------------------------------------
\* main up to the writing.  s is how conf is called: its mode and file, seed for
\* the file that KCONFIG_ALLCONFIG names, and NoFile without it, tty for
\* whether the terminal is one, explicit for KCONFIG_NOSILENTUPDATE.

Fail(c) == [c EXCEPT !.failed = TRUE]

Got(c, r) == [c EXCEPT !.st = r, !.failed = c.mode = "defconfig" /\ ~r.ret]

Reads(db, c, disk, file, seed) ==
    CASE c.mode \notin AllModes ->
            Got(c, ConfRead(db, c.st, disk, IF c.mode = "defconfig" THEN file ELSE NoFile))
      [] seed = NoFile -> c
      [] seed \in DOMAIN disk -> [c EXCEPT !.st = ReadSimple(db, @, disk[seed]).st]
      [] OTHER -> Fail(c)

StartMode(db, c) ==
    LET set == SetAllNew(db, c.st, IF c.mode = "alldefconfig" THEN "defconfig" ELSE c.mode, <<>>)
        loop == <<<<"check", Root>>, <<"again", Root>>>>
    IN CASE c.mode = "savedefconfig" -> c
         [] c.mode = "randconfig" -> [c EXCEPT !.todo = <<<<"random", Root>>>>]
         [] c.mode \in AllModes \cup {"defconfig"} -> [c EXCEPT !.st = set]
         [] c.mode = "oldaskconfig" -> [c EXCEPT !.todo = <<<<"conf", Root>>, <<"old", Root>>>> \o loop]
         [] c.mode \in OldModes -> [c EXCEPT !.todo = loop]
         [] OTHER -> [c EXCEPT !.todo = <<<<"check", Root>>>>]

GoOnWith(db, c, tty, explicit) ==
    IF c.failed \/ (c.sync /\ c.st.changed /\ explicit) THEN Fail(c)
    ELSE Run(db, StartMode(db, [c EXCEPT !.stdin = tty \/ ~c.sync]))

Main(db, disk, s) ==
    LET sync == s.mode = "silentoldconfig"
        c == [st |-> ParsedMemory(db), mode |-> s.mode, root |-> Root, cnt |-> FALSE,
              stdin |-> TRUE, todo |-> <<>>, sync |-> sync, failed |-> FALSE]
    IN IF db.errors \/ (sync /\ ".config" \notin DOMAIN disk) THEN Fail(c)
       ELSE GoOnWith(db, Reads(db, c, disk, s.file, s.seed), s.tty, s.explicit)
=============================================================================
