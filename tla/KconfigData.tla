---------------------------- MODULE KconfigData ----------------------------
(***************************************************************************)
(* Configuration files (host/kconfig/confdata.c).  A file is the sequence  *)
(* of its lines <<symbol, value, quoted>>, with the value Unset for the    *)
(* line "# ... is not set"; comments are left out.  Functions are          *)
(* operators on the memory st of KconfigSymbol.  What a run of the program *)
(* does to the disk between two calls that a crash may separate is in      *)
(* module Kconfig; here is what it reads from and puts into each file.     *)
(***************************************************************************)
EXTENDS KconfigSymbol

Unset == "is not set"

\* The value an assignment gives a bool or tristate, or NotValue.
NotValue == 3
TriOfLine(db, s, t) ==
    CASE t = "m" /\ db.type[s] = "tristate" -> Mod
      [] t = "y" -> Yes
      [] t = "n" -> No
      [] OTHER -> NotValue

\* conf_set_sym_val: ret is FALSE for a value that is not valid, which is
\* warned about.  A string without quotes is passed over in silence.
SetSymVal(db, st, s, t, quoted) ==
    LET type == db.type[s]
        own == [st EXCEPT !.user = @ \cup {s}, !.ret = TRUE]
        v == TriOfLine(db, s, t)
    IN CASE type = "unknown" \/ (type = "string" /\ ~quoted) -> Ret(st, TRUE)
         [] type \in BoolTypes ->
              IF v = NotValue \/ quoted THEN Ret(st, FALSE) ELSE [own EXCEPT !.uTri[s] = v]
         [] OTHER ->
              IF (type # "string" /\ quoted) \/ ~StringValid(db, s, t) THEN Ret(st, FALSE)
              ELSE [own EXCEPT !.uVal[s] = t]

\* What a line about a value of a choice means for the choice; the result has
\* the warning in ret.
ToChoice(db, st, s) ==
    LET c == ChoiceOf(db, s)
        all == [st EXCEPT !.uTri[c] = TriOr(@, st.uTri[s])]
    IN CASE st.uTri[s] = No -> Ret(all, FALSE)
         [] st.uTri[s] = Mod /\ st.uTri[c] = Yes -> [all EXCEPT !.user = @ \ {c}, !.ret = TRUE]
         [] st.uTri[s] = Mod -> Ret(all, FALSE)
         [] OTHER -> [all EXCEPT !.uVal[c] = s, !.ret = st.uTri[c] # No]

\* One line of the loop of conf_read_simple for S_DEF_USER; st is the memory
\* after the assignment.
Assigned(db, r, st, s) ==
    LET group == ToChoice(db, st, s)
        again == r.warned \/ s \in r.st.user
    IN CASE ~st.ret -> [st |-> st, warned |-> TRUE]
         [] s \in db.value -> [st |-> group, warned |-> again \/ group.ret]
         [] OTHER -> [st |-> st, warned |-> again]

ReadLine(db, r, line) ==
    LET s == line[1]
        unset == IF db.type[s] \in BoolTypes
                 THEN [r.st EXCEPT !.user = @ \cup {s}, !.uTri[s] = No, !.ret = TRUE]
                 ELSE Ret(r.st, TRUE)
    IN CASE s \notin DOMAIN db.type -> [r EXCEPT !.st.changed = TRUE]
         [] line[2] = Unset -> Assigned(db, r, unset, s)
         [] OTHER -> Assigned(db, r, SetSymVal(db, r.st, s, line[2], line[3]), s)

\* conf_read_simple for a file that is there.
ReadSimple(db, st, lines) ==
    LET S == DOMAIN db.type
        forgotten == [st EXCEPT !.valid = {}, !.user = db.choice, !.uTri = [s \in S |-> No],
                                !.uVal = [s \in S |-> NoDef(db, s)]]
    IN FoldLeft(LAMBDA r, line : ReadLine(db, r, line),
                [st |-> forgotten, warned |-> FALSE], lines)

\* The file that conf_read_simple takes for a missing .config: the first
\* visible default of the symbol with "option defconfig_list" that exists.
RECURSIVE DefconfigFile(_, _, _, _)
DefconfigFile(db, st, there, ps) ==
    IF ps = <<>> THEN Ret(st, NoFile)
    ELSE LET c == Val(db, st, db.prop[Head(ps)].vis)
             e == db.prop[Head(ps)].expr
         IN IF c.ret # No /\ e.op = "sym" /\ e.s \in there THEN Ret(c, e.s)
            ELSE DefconfigFile(db, c, there, Tail(ps))

\* The first loop of conf_read: does the value of s differ from the file's?
Differs(db, st, s) ==
    LET saved == s \in st.user
        written == s \in st.write
        same == IF db.type[s] \in BoolTypes THEN st.uTri[s] = st.tri[s]
                ELSE st.val[s] = st.uVal[s]
    IN /\ s \notin db.choice \cup db.auto
       /\ saved \/ written
       /\ ~(saved /\ written /\ same)

\* The second: an invisible value will be new when it becomes visible, and a
\* text outside its range is forgotten.
Reset(r, checked, s) ==
    IF checked.ret THEN [r EXCEPT !.st = checked]
    ELSE [st |-> [checked EXCEPT !.user = @ \ {s}, !.valid = @ \ {s}], unsaved |-> TRUE]

Settled(db, r, s) ==
    LET hidden == r.st.vis[s] = No /\ ~r.unsaved
        kept == IF hidden THEN [r.st EXCEPT !.user = @ \ {s}] ELSE r.st
    IN CASE s \notin r.st.user \/ s \in db.value -> r
         [] db.type[s] \notin StringTypes -> [r EXCEPT !.st = kept]
         [] OTHER -> Reset(r, StringWithinRange(db, kept, s, r.st.uVal[s]), s)

\* conf_read: the memory, with ret FALSE when there is no file; disk gives the
\* files there are, a name of NoFile asks for the configuration itself.
Warned(r) == [r.st EXCEPT !.changed = @ \/ r.warned]
ReadFound(db, st, lines) ==
    LET Look(r, s) == LET c == CalcValue(db, r.st, s)
                      IN [st |-> c, unsaved |-> r.unsaved \/ Differs(db, c, s)]
        begun == [st |-> CalcValue(db, Warned(ReadSimple(db, st, lines)), db.modules),
                  unsaved |-> FALSE]
        all == FoldLeft(LAMBDA r, s : Settled(db, r, s), FoldLeft(Look, begun, db.hash), db.hash)
    IN [all.st EXCEPT !.changed = @ \/ all.unsaved, !.ret = TRUE]

NotFound(db, st) == Ret(CalcValue(db, st, db.modules), FALSE)

ConfRead(db, st, disk, name) ==
    LET clean == [st EXCEPT !.changed = FALSE]
        ps == IF db.deflist = NoSym THEN <<>> ELSE PropsOfKind(db, db.deflist, "default")
        other == DefconfigFile(db, [st EXCEPT !.changed = TRUE], DOMAIN disk, ps)
        file == IF name = NoFile THEN ".config" ELSE name
    IN CASE file \in DOMAIN disk -> ReadFound(db, clean, disk[file])
         [] name # NoFile -> NotFound(db, clean)
         [] OTHER -> IF other.ret = NoFile THEN NotFound(db, other)
                     ELSE ReadFound(db, other, disk[other.ret])

---------------------------------------------------------------------------
\* What is written.  Each operator gives the memory in st and the lines.

(* Mutant: a value no never gets its line. *)
LinesOf_onlySet(db, st, s, all) ==
    LET t == StringValue(db, st, s)
    IN IF db.type[s] = "unknown" \/ (db.type[s] \in BoolTypes /\ t = "n") THEN <<>>
       ELSE <<<<s, t, db.type[s] = "string">>>>

\* conf_write_symbol with the printer of .config; all tells whether a value
\* no has its line.
LinesOf(db, st, s, all) ==
    LET t == StringValue(db, st, s)
        bool == db.type[s] \in BoolTypes
    IN CASE db.type[s] = "unknown" -> <<>>
         [] bool /\ t = "n" -> IF all THEN <<<<s, Unset, FALSE>>>> ELSE <<>>
         [] OTHER -> <<<<s, t, db.type[s] = "string">>>>

\* The nodes in the order of the walks over the tree, the root left out.
RECURSIVE NodesBelow(_, _)
NodesBelow(db, m) ==
    FoldLeft(LAMBDA ms, k : ms \o <<k>> \o NodesBelow(db, k), <<>>, db.menu[m].kids)

\* A symbol to be written loses its flag, so that its second node is silent.
Taken(db, r, s) ==
    LET c == CalcValue(db, r.st, s)
    IN [r EXCEPT !.st = [c EXCEPT !.write = @ \ {s}, !.ret = s \in c.write]]

WriteNode(db, r, m) ==
    LET s == db.menu[m].sym
        taken == Taken(db, r, s)
    IN CASE s = NoSym -> [r EXCEPT !.st = MenuIsVisible(db, @, m)]
         [] s \in db.choice -> r
         [] OTHER -> IF ~taken.st.ret THEN taken
                     ELSE [taken EXCEPT !.lines = @ \o LinesOf(db, taken.st, s, TRUE)]

\* conf_write up to fclose: with unsaved changes the values are not
\* calculated anew.
WriteConfig(db, st) ==
    FoldLeft(LAMBDA r, m : WriteNode(db, r, m),
             [st |-> IF st.changed THEN st ELSE ClearAllValid(db, st), lines |-> <<>>],
             NodesBelow(db, Root))

\* conf_write_defconfig: only what the defaults do not give.
IsChoiceDefault(db, st, s) ==
    LET c == ChoiceOf(db, s)
        d == ChoiceDefault(db, st, c)
    IN IF s \notin db.value THEN Ret(st, FALSE)
       ELSE Ret(d, /\ c \notin db.optional /\ d.ret = s
                   /\ db.type[s] = "bool" /\ d.tri[s] = Yes)

UnlessDefault(db, r, s) ==
    IF r.st.ret THEN r ELSE [r EXCEPT !.lines = @ \o LinesOf(db, r.st, s, TRUE)]

MinimalNode(db, r, m) ==
    LET s == db.menu[m].sym
        taken == Taken(db, r, s)
        default == StringDefault(db, taken.st, s)
        redundant == StringValue(db, taken.st, s) = default.ret
    IN CASE s = NoSym -> [r EXCEPT !.st = MenuIsVisible(db, @, m)]
         [] s \in db.choice -> r
         [] ~taken.st.ret \/ ~IsChangable(taken.st, s) -> taken
         [] redundant -> [taken EXCEPT !.st = default]
         [] OTHER -> UnlessDefault(db, [taken EXCEPT !.st = IsChoiceDefault(db, default, s)], s)

WriteDefconfig(db, st) ==
    FoldLeft(LAMBDA r, m : MinimalNode(db, r, m),
             [st |-> ClearAllValid(db, st), lines |-> <<>>], NodesBelow(db, Root))

\* conf_split_config, which conf_write_autoconf calls after
\* sym_clear_all_valid: what auto.conf says (S_DEF_AUTO), and the symbols whose
\* files are touched because their value is another.

\* Does conf_set_sym_val take the line?  A symbol without a type, and one that
\* auto.conf alone knows, becomes a string by a line without quotes; for a line
\* in quotes it stays S_OTHER, of which sym_string_valid takes no value.
TakesAuto(db, l) ==
    LET s == l[1]
        type == TypeIn(db.type, s)
    IN CASE type = "unknown" -> ~l[3]
         [] type \in BoolTypes -> ~l[3] /\ TriOfLine(db, s, l[2]) # NotValue
         [] OTHER -> l[3] = (type = "string") /\ StringValid(db, s, l[2])

AutoValue(db, lines, s) ==
    LET own == SelectSeq(lines, LAMBDA l : l[1] = s /\ TakesAuto(db, l))
    IN IF own = <<>> THEN NoText ELSE Last(own)[2]

(* Mutant: a symbol that is written no more is not touched. *)
TouchSymbol_vanished(db, lines, r, s) ==
    LET c == CalcValue(db, r.st, s)
        differs == s \in c.write /\ AutoValue(db, lines, s) # StringValue(db, c, s)
    IN IF s \in db.auto \cup db.choice \/ ~differs THEN [r EXCEPT !.st = c]
       ELSE [st |-> c, touched |-> Append(r.touched, s)]

TouchSymbol(db, lines, r, s) ==
    LET c == CalcValue(db, r.st, s)
        old == AutoValue(db, lines, s)
        now == StringValue(db, c, s)
        touched == CASE s \notin c.write -> old # NoText
                     [] old = NoText -> ~(db.type[s] \in BoolTypes /\ c.tri[s] = No)
                     [] OTHER -> now # old
    IN CASE s \in db.auto \cup db.choice -> [r EXCEPT !.st = c]
         [] OTHER -> [st |-> c, touched |-> IF touched THEN Append(r.touched, s) ELSE r.touched]

SplitConfig(db, st, there, lines) ==
    LET clear == ClearAllValid(db, st)
        read == IF there THEN [clear EXCEPT !.valid = {}] ELSE clear
        gone == SelectSeq(lines, LAMBDA l : l[1] \notin DOMAIN db.type /\ TakesAuto(db, l))
    IN FoldLeft(LAMBDA r, s : TouchSymbol(db, lines, r, s),
                [st |-> CalcValue(db, read, db.modules),
                 touched |-> [i \in DOMAIN gone |-> gone[i][1]]], db.hash)

\* conf_write_autoconf: the lines of auto.conf, tristate.conf, autoconf.h.
WriteAuto(db, st) ==
    LET Add(r, s) ==
          LET c == CalcValue(db, r.st, s)
              own == IF s \in c.write \ db.choice THEN LinesOf(db, c, s, FALSE) ELSE <<>>
          IN [st |-> c, auto |-> r.auto \o own,
              tristate |-> IF db.type[s] = "tristate" THEN r.tristate \o own ELSE r.tristate,
              header |-> r.header \o [i \in DOMAIN own |->
                  IF db.type[s] = "hex" THEN <<s, Text[own[i][2]].prefixed, FALSE>> ELSE own[i]]]
    IN FoldLeft(Add, [st |-> st, auto |-> <<>>, tristate |-> <<>>, header |-> <<>>], db.hash)

---------------------------------------------------------------------------
\* conf_set_all_new_symbols.  pick gives what randconfig draws: a tristate for
\* each symbol, a value for each choice.

NewTri(db, s, mode, pick) ==
    CASE mode = "allyesconfig" -> Yes
      [] mode = "allmodconfig" -> Mod
      [] mode = "allnoconfig" -> IF s \in db.noY THEN Yes ELSE No
      [] OTHER -> pick.tri[s]

\* randomize_choice_values: one of the values, visible or not, becomes y.
RandomizeChoice(db, st, c, v) ==
    LET values == Range(ValuesOf(db, c))
    IN IF st.tri[c] # Yes THEN Ret(st, FALSE)
       ELSE [st EXCEPT !.uTri = [x \in values |-> IF x = v THEN Yes ELSE No] @@ @,
                       !.uVal[c] = v, !.user = @ \cup values \cup {c},
                       !.valid = @ \ (values \cup {c}), !.ret = TRUE]

\* The choices still without a value; ret tells whether there were changes.
SetNewChoice(db, st, s, mode, pick) ==
    LET c == CalcValue(db, st, s)
    IN CASE s \in st.user \/ s \notin db.choice -> st
         [] mode = "randconfig" -> RandomizeChoice(db, c, s, pick.value[s])
         [] OTHER -> Ret(SetAllChoiceValues(db, c, s), TRUE)

SetAllNew(db, st, mode, pick) ==
    LET open == {s \in DOMAIN db.type :
                    s \notin st.user \cup st.valid /\ db.type[s] \in BoolTypes}
        chosen == IF mode = "defconfig" THEN {} ELSE open
        set == [st EXCEPT !.uTri = [s \in chosen |-> NewTri(db, s, mode, pick)] @@ @,
                          !.user = @ \cup (IF mode = "randconfig" THEN chosen \ db.choice
                                           ELSE chosen)]
        cleared == ClearAllValid(db, set)
        due == IF mode = "randconfig" THEN {} ELSE db.value \cup (db.choice \ cleared.user)
    IN FoldLeft(LAMBDA c, s : SetNewChoice(db, c, s, mode, pick),
                [cleared EXCEPT !.needset = @ \cup due, !.ret = open # {}], db.hash)
=============================================================================
