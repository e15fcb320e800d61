---------------------------- MODULE KconfigLaws ----------------------------
(***************************************************************************)
(* What the configuration tools promise.  The Kconfig files have a meaning *)
(* that needs no menu_finalize, no cache and no walk: a condition is the   *)
(* least of the conditions written around it.  This module states that     *)
(* meaning over the trees as they are parsed, and the properties of the    *)
(* tools in its terms.                                                     *)
(***************************************************************************)
EXTENDS Kconfig, KconfigMconf

\* What conf_parse makes of the tree named t, by every tool alike.
TreeOf(t) ==
    LET s == Sources[t]
    IN [name |-> t, db |-> ConfParse(s.files, s.main, s.hash),
        raw |-> Parse(s.files, EmptyDb(s.hash, s.main), <<s.files[s.main]>>)]
ASSUME TreesAssumption == Trees = [t \in DOMAIN Sources |-> TreeOf(t)]

Raw == tree.raw

Symbols == DOMAIN DB.type

\* A memory in which the symbols have these values, and no call changes them.
Given(tri, val) == [ParsedMemory(DB) EXCEPT !.tri = tri, !.val = val, !.valid = Symbols]
RECURSIVE Value(_, _)
Value(st, e) ==
    CASE e = ENull -> Yes
      [] e.op = "sym" -> TriIn(st, e.s)
      [] e.op = "not" -> TriNot(Value(st, e.l))
      [] e.op = "and" -> TriAnd(Value(st, e.l), Value(st, e.r))
      [] e.op = "or" -> TriOr(Value(st, e.l), Value(st, e.r))
      [] OTHER -> IF Holds(e.op, Order(DB, st, e)) THEN Yes ELSE No
Least(vs) == FoldSet(TriAnd, Yes, vs)
Greatest(vs) == FoldSet(TriOr, No, vs)

\* The least of the conditions around node m, for a value of a choice the
\* choice, and of those that limit property p.
RECURSIVE Around(_, _)
Around(st, m) ==
    LET up == Raw.menu[m].parent
        n == Raw.menu[up]
    IN CASE m = Root -> Yes
         [] n.sym \in DB.choice -> TriIn(st, n.sym)
         [] OTHER -> Least({Value(st, n.dep), Value(st, PromptVis(Raw, up)),
                            Around(st, up)})
Condition(st, p) ==
    LET own == Raw.prop[p]
        c == Raw.menu[Raw.menu[own.menu].parent].sym
        onlyY == /\ c \in DB.choice /\ DB.type[c] = "tristate"
                 /\ DB.type[own.sym] # "tristate" /\ TriIn(st, c) # Yes
    IN IF onlyY THEN No
       ELSE Least({Value(st, own.vis), Value(st, Raw.menu[own.menu].dep),
                   Around(st, own.menu)})

\* The properties of a tree that have a condition.
Conditional(kinds) == {p \in DOMAIN Raw.prop :
    Raw.prop[p].kind \in kinds /\ Raw.prop[p].menu # 0}

\* A boolean takes mod for yes, and so does a tristate without modules.
Wide(st, s, v) ==
    IF v = Mod /\ (DB.type[s] # "tristate" \/ TriIn(st, DB.modules) = No)
    THEN Yes ELSE v

---------------------------------------------------------------------------
\* The values that symbols may have together, which are all that the
\* expressions are rewritten for: mod only for tristates, and with modules.
Assignments ==
    LET Is(s, v) == CASE DB.type[s] = "tristate" -> v \in Tristate
                      [] DB.type[s] = "bool" -> v \in {No, Yes}
                      [] OTHER -> v = No
        tris == {f \in [Symbols -> Tristate] : \A s \in Symbols : Is(s, f[s])}
        mods == {f \in tris : \/ DB.modules \in Symbols /\ f[DB.modules] # No
                              \/ \A s \in Symbols : f[s] # Mod}
    IN {Given(f, [s \in Symbols |-> NoSym]) : f \in mods}

\* The conditions that menu_finalize leaves in the tree, after it has passed
\* dependencies down and rewritten, joined and shortened them (menu.c 286-453,
\* expr.c), have the value of the conditions as they are written, whatever the
\* values of the symbols.
AsWritten ==
    (prog = Idle /\ left.runs = MaxRuns /\ ~DB.errors) =>
        \A p \in Conditional({"prompt", "menu", "comment", "default", "select", "range"}) :
            LET s == DB.prop[p].sym
            IN \A st \in Assignments :
                  LET is == Value(st, DB.prop[p].vis)
                      says == Condition(st, p)
                  IN IF s = NoSym \/ DB.type[s] = "tristate" THEN is = says
                     ELSE (is = No) = (says = No)

\* The symbols that are named in what decides the value of s: in the
\* conditions of its properties and in its defaults, and those that select it.
RECURSIVE NodesAbove(_)
NodesAbove(m) == IF m = Root THEN {Root} ELSE {m} \cup NodesAbove(Raw.menu[m].parent)
Names(s) ==
    LET own == {p \in DOMAIN Raw.prop :
                  /\ Raw.prop[p].menu # 0
                  /\ IF Raw.prop[p].kind = "select" THEN Raw.prop[p].expr.s = s
                     ELSE Raw.prop[p].sym = s}
        said == UNION {{Raw.prop[p].vis} \cup {Raw.menu[m].dep : m \in NodesAbove(Raw.prop[p].menu)}
                       : p \in own}
                \cup {Raw.prop[p].expr : p \in {q \in own : Raw.prop[q].kind = "default"}}
    IN {r \in DOMAIN Raw.type : \E e \in said : ContainsSym(e, r)}
       \cup {Raw.prop[p].sym : p \in {q \in own : Raw.prop[q].kind = "select"}}
RECURSIVE Reached(_)
Reached(S) == LET next == S \cup UNION {Names(s) : s \in S}
                   IN IF next = S THEN S ELSE Reached(next)

\* sym_check_deps (symbol.c 1188-1326), which marks what it has seen and walks
\* each symbol once, reports a recursive dependency exactly when a symbol of
\* a tree without choices depends on itself in the end.
CirclesReported ==
    (prog = Idle /\ left.runs = MaxRuns /\ DB.choice = {} /\ ~Raw.errors) =>
        (DB.circle <=> \E s \in DOMAIN DB.type :
                          s \in Reached(Names(s)))

---------------------------------------------------------------------------
\* A file as an assignment: what its lines do not give is no or empty; a
\* choice has the greatest value of its values, a variable of the environment
\* its default.
TextIn(lines, s) ==
    LET l == LineOf(lines, s)
        env == PropsOfKind(DB, s, "env")
    IN CASE env # <<>> -> DB.prop[env[1]].expr.s
         [] l = <<>> -> NoSym
         [] OTHER -> l[1][2]
AsGiven(lines) ==
    LET own == [s \in Symbols |-> TriOf(TextIn(lines, s))]
        tri == [s \in Symbols |-> IF s \in DB.choice
                   THEN Greatest({own[v] : v \in Range(ValuesOf(DB, s))}) ELSE own[s]]
    IN Given(tri, [s \in Symbols |-> TextIn(lines, s)])

\* How far something asks for the boolean or tristate s: a visible prompt, a
\* default, an imply; and how far it is selected.
PropsTo(s, kind) ==
    {p \in Conditional({kind}) : Raw.prop[p].expr = ESym(s)}
Forces(st, s, kind) ==
    Greatest({TriAnd(Condition(st, p), TriIn(st, Raw.prop[p].sym))
              : p \in PropsTo(s, kind)})
Allows(st, s) ==
    LET own(kinds) == {p \in Conditional(kinds) : Raw.prop[p].sym = s}
    IN Greatest({Condition(st, p) : p \in own({"prompt", "menu"})}
                \cup {TriAnd(Condition(st, p), Value(st, Raw.prop[p].expr))
                      : p \in own({"default"})}
                \cup {Forces(st, s, "select"), Forces(st, s, "imply")})

LegalTri(st, s) ==
    /\ Wide(st, s, Forces(st, s, "select")) <= st.tri[s]
    /\ st.tri[s] <= Wide(st, s, Allows(st, s))

\* The first range whose condition holds.
LegalNumber(st, s) ==
    LET ps == {p \in Conditional({"range"}) :
                  Raw.prop[p].sym = s /\ Condition(st, p) # No}
        bounds == Raw.prop[CHOOSE p \in ps : \A q \in ps : p <= q].expr
        Num(x) == NumberOf(IF x \in Symbols THEN st.val[x] ELSE x, DB.type[s])
    IN ps # {} => Num(bounds.s) <= Num(s) /\ Num(s) <= Num(bounds.t)

LegalChoice(st, c) ==
    LET values == Range(ValuesOf(DB, c))
        on == {v \in values : st.tri[v] = Yes}
        asked == [st EXCEPT !.tri[c] = Yes]
        Seen(x, s) == \E p \in Conditional({"prompt", "menu"}) :
                         Raw.prop[p].sym = s /\ Condition(x, p) # No
        due == /\ DB.type[c] = "bool" /\ c \notin DB.optional
               /\ Seen(st, c) /\ \E v \in values : Seen(asked, v)
    IN /\ Cardinality(on) <= 1 /\ (due => on # {})
       /\ on # {} => \A v \in values \ on : st.tri[v] = No

Legal(lines) ==
    LET st == AsGiven(lines)
    IN \A s \in Symbols :
          CASE s \in DB.choice -> LegalChoice(st, s)
            [] DB.type[s] \in BoolTypes -> LegalTri(st, s)
            [] DB.type[s] = "unknown" -> TRUE
            [] OTHER -> LineOf(lines, s) # <<>> => LegalNumber(st, s)

\* Whatever the user answers, and whatever was in the file before, the
\* configuration that is saved (conf_write, confdata.c 741-839) obeys the
\* Kconfig files: no value without a reason or below what selects it, numbers
\* in their range, one value for a choice.
SavedIsLegal == (hist.good # Nothing /\ hist.from = tree.name) => Legal(hist.good)

---------------------------------------------------------------------------
\* The memory of the program that runs.
Memory == CASE prog.at = "asks" -> prog.c.st [] prog.at = "shows" -> prog.u.st [] OTHER -> prog.st

\* A value that is marked valid is the one a calculation of everything anew
\* would give: whatever changes a value clears SYMBOL_VALID of all that may
\* depend on it (sym_clear_all_valid, symbol.c 490-499).  A tristate choice is
\* left out: sym_calc_choice forgets that the user set it while its values are
\* new, so that another calculation gives another value.
CacheIsFresh ==
    (prog # Idle /\ \A c \in DB.choice : DB.type[c] = "bool") =>
        LET st == Memory
            anew == FoldLeft(LAMBDA c, s : sym_calc_value(DB, c, s), [st EXCEPT !.valid = {}], DB.hash)
        IN \A s \in st.valid : anew.tri[s] = st.tri[s] /\ anew.val[s] = st.val[s]

\* sym_calc_value clears SYMBOL_WRITE of all symbols but the values of choices, so
\* that a value which is visible no more may still get its line "is not set".
Current(st, lines) == SelectSeq(lines, LAMBDA l : l[1] \notin DB.value \/ st.vis[l[1]] # No)

\* When menuconfig waits and conf_get_changed tells that there is nothing to
\* save, saving would leave the file as it is, except for lines of hidden values
\* of choices.  Left out are the two cases in which the flag is cleared for
\* nothing: a load of a file that is not there, and a file cut short by a full
\* disk.
UnflaggedIsSaved ==
    Shows =>
        LET u == prog.u
            w == conf_write(DB, u.st)
        IN (~u.st.changed /\ ~hist.missed /\ u.file \in DOMAIN disk) =>
              Range(Current(w.st, w.lines)) = Range(Current(w.st, disk[u.file]))

WritesAgain(st) ==
    /\ conf_write(DB, st).lines = Current(st, hist.good)
    /\ st.changed => Current(st, hist.good) # hist.good

\* A configuration that was saved is read again without a change: it counts as
\* unchanged, and it would be written as it is.  Only lines of hidden values of
\* choices are lost, and count as a change.
SavedIsRead ==
    (prog = Idle /\ tree.name = hist.from /\ ".config" \in DOMAIN disk /\ disk[".config"] = hist.good) =>
        WritesAgain(conf_read(DB, ParsedMemory(DB), disk, NoFile))

\* A run of conf ends, when the user answers and nothing else: the loop of
\* check_conf and conf asks about a symbol until it has a value (conf.c).
ConfEnds == prog.tool = "conf" ~> prog = Idle
=============================================================================
