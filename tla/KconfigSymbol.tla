--------------------------- MODULE KconfigSymbol ---------------------------
(***************************************************************************)
(* The values of the symbols (host/kconfig/symbol.c, and the evaluation of *)
(* expressions in expr.c).  The C code evaluates on demand and caches: a   *)
(* call that asks for a value may calculate, and mark valid, any symbol it *)
(* leads to.  Each function is an operator on st, the memory of the        *)
(* program, and gives the memory after it with what it returns in st.ret:  *)
(*                                                                         *)
(*   tri, val              curr: the tristate and the string, or the value *)
(*                         a choice has chosen                             *)
(*   vis, dir, rev, imp    visible, dir_dep.tri, rev_dep.tri, implied.tri  *)
(*   pvis                  visible.tri of every prompt                     *)
(*   uTri, uVal            def[S_DEF_USER]                                 *)
(*   user, valid, write    the symbols with SYMBOL_DEF_USER, SYMBOL_VALID, *)
(*                         SYMBOL_WRITE                                    *)
(*   needset               those with SYMBOL_NEED_SET_CHOICE_VALUES        *)
(*   modval                modules_val                                     *)
(*   changed               sym_change_count # 0                            *)
(*                                                                         *)
(* SYMBOL_CHANGED and MENU_CHANGED are left out: only the graphical front  *)
(* ends read them.  db is the tree of KconfigMenu.                         *)
(***************************************************************************)
EXTENDS KconfigMenu

Ret(st, v) == [st EXCEPT !.ret = v]

\* The null of def[S_DEF_USER].val, for a choice no chosen value.
NoText == "null"
NoDef(db, s) == IF s \in db.choice THEN NoSym ELSE NoText

\* curr.tri; the constants have theirs, undefined symbols and literals are no.
TriIn(st, s) == IF s \in DOMAIN st.tri THEN st.tri[s] ELSE TriOf(s)

\* sym_get_string_value.
StringValue(db, st, s) ==
    CASE TypeIn(db.type, s) \notin BoolTypes \cup StringTypes -> s
      [] db.type[s] \in StringTypes -> st.val[s]
      [] st.tri[s] = Mod /\ TriIn(st, db.modules) = No -> "n"
      [] OTHER -> TriName(st.tri[s])

\* sym_get_type.
GetType(db, st, s) ==
    IF /\ db.type[s] = "tristate"
       /\ (s \in db.value /\ st.vis[s] = Yes) \/ st.modval = No
    THEN "bool" ELSE db.type[s]

\* strtoll, and sprintf of a bound.
NumberOf(t, type) ==
    LET v == IF type = "hex" THEN Text[t].hex ELSE Text[t].dec
    IN IF v = NotNumber THEN 0 ELSE v
Printed(v, type) ==
    CHOOSE t \in Texts : IF type = "hex" THEN Text[t].hex = v /\ Text[t].prefixed = t
                         ELSE Text[t].dec = v /\ Text[t].isInt

---------------------------------------------------------------------------
\* expr_parse_string: the number a comparison takes a text for.
Parsed(t, type) ==
    CASE t \notin Texts \/ type \in BoolTypes -> NotNumber
      [] type = "int" -> Text[t].dec
      [] type = "hex" -> Text[t].hex
      [] OTHER -> Text[t].auto

\* The sign of the comparison in expr_calc_value.
Order(db, st, e) ==
    LET a == StringValue(db, st, e.s)
        b == StringValue(db, st, e.t)
        m == Parsed(a, TypeIn(db.type, e.s))
        n == Parsed(b, TypeIn(db.type, e.t))
        strings == TypeIn(db.type, e.s) = "string" /\ TypeIn(db.type, e.t) = "string"
        Rank(t) == IF t \in Texts THEN Text[t].rank ELSE 0
        Sign(x, y) == CASE x < y -> -1 [] x > y -> 1 [] OTHER -> 0
    IN CASE ~strings /\ NotNumber \notin {m, n} -> Sign(m, n)
         [] a = b -> 0
         [] OTHER -> IF Rank(a) < Rank(b) THEN -1 ELSE 1

Holds(op, sign) ==
    CASE op = "=" -> sign = 0 [] op = "!=" -> sign # 0 [] op = ">=" -> sign >= 0
      [] op = ">" -> sign > 0 [] op = "<=" -> sign <= 0 [] op = "<" -> sign < 0

RECURSIVE CalcValue(_, _, _), Val(_, _, _)

\* expr_calc_value.
Val(db, st, e) ==
    LET left == Val(db, st, e.l)
        right == Val(db, left, e.r)
        both == CalcValue(db, CalcValue(db, st, e.s), e.t)
        compared == CalcValue(db, both, db.modules)
    IN CASE e = ENull -> Ret(st, Yes)
         [] e.op = "sym" -> LET c == CalcValue(db, st, e.s) IN Ret(c, TriIn(c, e.s))
         [] e.op = "not" -> Ret(left, TriNot(left.ret))
         [] e.op = "and" -> Ret(right, TriAnd(left.ret, right.ret))
         [] e.op = "or" -> Ret(right, TriOr(left.ret, right.ret))
         [] OTHER -> Ret(compared,
                         IF Holds(e.op, Order(db, compared, e)) THEN Yes ELSE No)

\* sym_get_default_prop, sym_get_range_prop: the first property of the kind
\* whose condition is not no, in ret, or NoProp; its value is in cond.
RECURSIVE FirstVisible(_, _, _)
FirstVisible(db, st, ps) ==
    IF ps = <<>> THEN [st |-> st, prop |-> NoProp, cond |-> No]
    ELSE LET c == Val(db, st, db.prop[Head(ps)].vis)
         IN IF c.ret # No THEN [st |-> c, prop |-> Head(ps), cond |-> c.ret]
            ELSE FirstVisible(db, c, Tail(ps))
DefaultProp(db, st, s) == FirstVisible(db, st, PropsOfKind(db, s, "default"))
RangeProp(db, st, s) == FirstVisible(db, st, PropsOfKind(db, s, "range"))

\* sym_get_range_val.
RangeVal(db, st, bound, type) ==
    LET c == CalcValue(db, st, bound)
        t == TypeIn(db.type, bound)
    IN Ret(c, NumberOf(IF bound \in DOMAIN c.val THEN c.val[bound] ELSE bound,
                       IF t \in {"int", "hex"} THEN t ELSE type))

(* Mutant: only the lower bound is looked at. *)
PassedBound_low(db, st, s, v, bounds) ==
    LET low == RangeVal(db, st, bounds.s, db.type[s])
    IN IF v < low.ret THEN low ELSE Ret(low, NotNumber)

\* The bound that v passes, NotNumber for none; the lower is looked at first.
PassedHigh(db, st, s, v, bound) ==
    LET high == RangeVal(db, st, bound, db.type[s])
    IN IF v > high.ret THEN high ELSE Ret(high, NotNumber)
PassedBound(db, st, s, v, bounds) ==
    LET low == RangeVal(db, st, bounds.s, db.type[s])
    IN IF v < low.ret THEN low ELSE PassedHigh(db, low, s, v, bounds.t)

\* sym_validate_range: a value outside its range becomes the bound it passed.
ValidateRange(db, st, s) ==
    LET type == db.type[s]
        range == RangeProp(db, st, s)
        passed == PassedBound(db, range.st, s, NumberOf(st.val[s], type),
                              db.prop[range.prop].expr)
    IN CASE type \notin {"int", "hex"} -> st
         [] range.prop = NoProp -> range.st
         [] passed.ret = NotNumber -> passed
         [] OTHER -> [passed EXCEPT !.val[s] = Printed(passed.ret, type)]

---------------------------------------------------------------------------
\* sym_calc_visibility.  Without modules, and for a bool, mod counts as yes.

Widened(db, st, s) ==
    IF st.ret = Mod /\ GetType(db, st, s) = "bool" THEN Yes ELSE st.ret

\* The prompts of s, each hidden for a tristate value of a choice set to y
\* when it is only mod; ret is the widest.
CalcPrompts(db, st, s) ==
    LET Shown(d, tri) == IF /\ tri = Mod /\ s \in db.value /\ db.type[s] = "tristate"
                            /\ d.tri[ChoiceOf(db, s)] = Yes
                         THEN No ELSE tri
        Step(d, p) == LET c == Val(db, d, db.prop[p].vis)
                          tri == Shown(c, c.ret)
                      IN [c EXCEPT !.pvis[p] = tri, !.ret = TriOr(d.ret, tri)]
    IN FoldLeft(Step, Ret(st, No), Prompts(db, s))

SetVis(db, st, s) ==
    LET wide == st.ret = Mod /\ (db.type[s] # "tristate" \/ st.modval = No)
    IN [st EXCEPT !.vis[s] = IF wide THEN Yes ELSE st.ret]
SetDir(db, st, s) ==
    LET dir == Val(db, st, db.dir[s])
    IN [dir EXCEPT !.dir[s] = IF dir.ret = No THEN No ELSE Yes]
SetRev(db, st, s) ==
    LET rev == IF db.rev[s] = ENull THEN Ret(st, No) ELSE Val(db, st, db.rev[s])
    IN [rev EXCEPT !.rev[s] = Widened(db, rev, s)]
SetImp(db, st, s) ==
    LET imp == IF db.imp[s] = ENull \/ st.dir[s] = No THEN Ret(st, No)
               ELSE Val(db, st, db.imp[s])
    IN [imp EXCEPT !.imp[s] = Widened(db, imp, s)]

CalcVisibility(db, st, s) ==
    LET seen == SetVis(db, CalcPrompts(db, st, s), s)
    IN IF s \in db.value THEN seen
       ELSE SetImp(db, SetRev(db, SetDir(db, seen, s), s), s)

\* sym_choice_default: a visible default, else the first visible value.
RECURSIVE VisibleDefault(_, _, _)
VisibleDefault(db, st, ps) ==
    IF ps = <<>> THEN Ret(st, NoSym)
    ELSE LET c == Val(db, st, db.prop[Head(ps)].vis)
             v == db.prop[Head(ps)].expr.s
         IN IF c.ret # No /\ c.vis[v] # No THEN Ret(c, v)
            ELSE VisibleDefault(db, c, Tail(ps))

ChoiceDefault(db, st, s) ==
    LET d == VisibleDefault(db, st, PropsOfKind(db, s, "default"))
        first == SelectSeq(ValuesOf(db, s), LAMBDA v : d.vis[v] # No)
    IN IF d.ret # NoSym \/ first = <<>> THEN d ELSE Ret(d, Head(first))

\* sym_calc_choice: the user's choice stands while every visible value has
\* one and the chosen one is visible.
Prefer(db, st, s) ==
    LET picked == ChoiceDefault(db, st, s)
    IN IF st.uVal[s] # NoSym /\ st.vis[st.uVal[s]] # No THEN [st EXCEPT !.val[s] = st.uVal[s]]
       ELSE [picked EXCEPT !.val[s] = picked.ret,
                           !.tri[s] = IF picked.ret = NoSym THEN No ELSE @]

Unsettle(db, st, s) ==
    LET settled == \A v \in Range(ValuesOf(db, s)) : st.vis[v] # No => v \in st.user
    IN IF settled THEN st ELSE [st EXCEPT !.user = @ \ {s}]

CalcChoice(db, st, s) ==
    LET seen == FoldLeft(LAMBDA d, v : CalcVisibility(db, d, v), st, ValuesOf(db, s))
    IN Prefer(db, Unsettle(db, seen, s), s)

\* set_all_choice_values (confdata.c).
SetAllChoiceValues(db, st, s) ==
    LET open == Range(ValuesOf(db, s)) \ st.user
    IN [st EXCEPT !.uTri = [v \in open |-> No] @@ @, !.user = @ \cup {s},
                  !.valid = @ \ {s}, !.needset = @ \ {s}]

\* The value of a bool or tristate: the user's, as far as it is visible, else
\* the default and what implies it; what selects it always counts.
DefaultTri(db, st, s) ==
    LET default == DefaultProp(db, st, s)
        value == Val(db, default.st, db.prop[default.prop].expr)
    IN IF default.prop = NoProp THEN Ret(default.st, No)
       ELSE [value EXCEPT !.ret = TriAnd(@, default.cond), !.write = @ \cup {s}]

Implied(st, s) ==
    IF st.imp[s] = No THEN st
    ELSE [st EXCEPT !.write = @ \cup {s}, !.ret = TriOr(@, st.imp[s])]

CalcOwnTri(db, st, s) ==
    LET seen == IF st.vis[s] = No /\ st.rev[s] = No THEN st
                ELSE [st EXCEPT !.write = @ \cup {s}]
    IN CASE st.vis[s] # No /\ s \in st.user -> Ret(seen, TriAnd(st.uTri[s], st.vis[s]))
         [] s \in db.choice -> Ret(seen, No)
         [] OTHER -> Implied(DefaultTri(db, seen, s), s)
Selected(st, s) == Ret(st, TriOr(st.ret, st.rev[s]))

SetTri(db, st, s) ==
    LET full == st.ret = Mod /\ (GetType(db, st, s) = "bool" \/ st.imp[s] = Yes)
    IN [st EXCEPT !.tri[s] = IF full THEN Yes ELSE st.ret]

CalcTri(db, st, s) ==
    IF s \in db.value /\ st.vis[s] = Yes
    THEN SetTri(db, Ret(st, IF st.val[ChoiceOf(db, s)] = s THEN Yes ELSE No), s)
    ELSE SetTri(db, Selected(CalcOwnTri(db, st, s), s), s)
ChooseIfYes(db, st, s) ==
    IF s \in db.choice /\ st.tri[s] = Yes THEN CalcChoice(db, st, s) ELSE st

CalcText(db, st, s) ==
    LET seen == IF st.vis[s] # No THEN [st EXCEPT !.write = @ \cup {s}] ELSE st
        default == DefaultProp(db, seen, s)
        from == db.prop[default.prop].expr.s
        value == CalcValue(db, [default.st EXCEPT !.write = @ \cup {s}], from)
    IN CASE st.vis[s] # No /\ s \in st.user -> [seen EXCEPT !.val[s] = seen.uVal[s]]
         [] default.prop = NoProp -> default.st
         [] OTHER -> [value EXCEPT !.val[s] = StringValue(db, value, from)]

\* The values of a choice are written when it is and they are visible.
WriteValues(db, st, s) ==
    IF s \notin db.choice \/ s \notin st.write THEN st
    ELSE [st EXCEPT !.write = @ \cup {v \in Range(ValuesOf(db, s)) : st.vis[v] # No}]

\* sym_calc_value, for a symbol that is not yet valid: a value of a choice asks
\* its choice first and keeps SYMBOL_WRITE.
Begin(db, st, s) ==
    LET asked == IF s \notin db.value \cap st.needset THEN st
                 ELSE CalcValue(db, [st EXCEPT !.needset = @ \ {s}], ChoiceOf(db, s))
    IN [asked EXCEPT !.valid = @ \cup {s}]

Calculate(db, st, s) ==
    LET seen == CalcVisibility(db, IF s \in db.value THEN st
                                   ELSE [st EXCEPT !.write = @ \ {s}], s)
        empty == [seen EXCEPT !.tri[s] = No, !.val[s] = NoSym]
    IN IF db.type[s] \in BoolTypes THEN ChooseIfYes(db, CalcTri(db, empty, s), s)
       ELSE ValidateRange(db, CalcText(db, empty, s), s)

Complete(db, st, s) ==
    LET known == IF s = db.modules THEN [st EXCEPT !.modval = st.tri[s]] ELSE st
        written == WriteValues(db, known, s)
        final == IF s \in db.auto THEN [written EXCEPT !.write = @ \ {s}] ELSE written
    IN IF s \in final.needset THEN SetAllChoiceValues(db, final, s) ELSE final

CalcValue(db, st, s) ==
    CASE s \notin DOMAIN db.type \/ s \in st.valid -> st
      [] db.type[s] = "unknown" -> Begin(db, st, s)
      [] OTHER -> Complete(db, Calculate(db, Begin(db, st, s), s), s)

---------------------------------------------------------------------------
\* Setting a value.

(* Mutant: the values that depend on the one that changes stay valid. *)
ClearAllValid_keeps(db, st) == CalcValue(db, [st EXCEPT !.changed = TRUE], db.modules)

(* Mutant: the change is not counted. *)
ClearAllValid_uncounted(db, st) == CalcValue(db, [st EXCEPT !.valid = {}], db.modules)

ClearAllValid(db, st) ==
    CalcValue(db, [st EXCEPT !.valid = {}, !.changed = TRUE], db.modules)

TristateWithinRange(db, st, s, v) ==
    LET type == GetType(db, st, s)
    IN /\ st.vis[s] # No /\ type \in BoolTypes
       /\ ~(type = "bool" /\ v = Mod)
       /\ st.vis[s] > st.rev[s]
       /\ ~(st.imp[s] = Yes /\ v = Mod)
       /\ IF s \in db.value /\ st.vis[s] = Yes THEN v = Yes
          ELSE st.rev[s] <= v /\ v <= st.vis[s]

(* Mutant: a value that stays what it is does not become the user's, but for *)
(* the values of a choice.                                                   *)
SetTristate_unchanged(db, st, s, v) ==
    LET old == st.tri[s]
        c == ChoiceOf(db, s)
        own == IF old = v THEN st ELSE [st EXCEPT !.user = @ \cup {s}, !.uTri[s] = v]
        group == {x \in Range(ValuesOf(db, c)) : st.vis[x] # No}
        set == IF s \in db.value /\ v = Yes
               THEN [own EXCEPT !.uVal[c] = s, !.user = @ \cup {c} \cup group]
               ELSE own
    IN CASE old # v /\ ~TristateWithinRange(db, st, s, v) -> Ret(st, FALSE)
         [] old # v -> Ret(ClearAllValid(db, set), TRUE)
         [] OTHER -> Ret(set, TRUE)

\* sym_set_tristate_value: ret tells whether the value was taken.
SetTristate(db, st, s, v) ==
    LET old == st.tri[s]
        c == ChoiceOf(db, s)
        own == [st EXCEPT !.user = @ \cup {s}, !.uTri[s] = v]
        group == {x \in Range(ValuesOf(db, c)) : st.vis[x] # No}
        set == IF s \in db.value /\ v = Yes
               THEN [own EXCEPT !.uVal[c] = s, !.user = @ \cup {c} \cup group]
               ELSE own
    IN CASE old # v /\ ~TristateWithinRange(db, st, s, v) -> Ret(st, FALSE)
         [] old # v -> Ret(ClearAllValid(db, set), TRUE)
         [] OTHER -> Ret(set, TRUE)

\* sym_toggle_tristate_value: the next value in turn that can be set.
RECURSIVE ToggleFrom(_, _, _, _)
ToggleFrom(db, st, s, v) ==
    LET next == (v + 1) % 3
        set == SetTristate(db, st, s, next)
    IN IF set.ret \/ next = st.tri[s] THEN set ELSE ToggleFrom(db, st, s, next)
ToggleTristate(db, st, s) == ToggleFrom(db, st, s, st.tri[s])

StringValid(db, s, t) ==
    CASE db.type[s] = "int" -> Text[t].isInt
      [] db.type[s] = "hex" -> Text[t].isHex
      [] OTHER -> TRUE

StringWithinRange(db, st, s, t) ==
    LET type == db.type[s]
        range == RangeProp(db, st, s)
        passed == PassedBound(db, range.st, s, NumberOf(t, type), db.prop[range.prop].expr)
    IN CASE ~StringValid(db, s, t) -> Ret(st, FALSE)
         [] type = "string" -> Ret(st, TRUE)
         [] range.prop = NoProp -> Ret(range.st, TRUE)
         [] OTHER -> Ret(passed, passed.ret = NotNumber)

\* sym_set_string_value for the types that have strings; a hexadecimal number
\* gets its 0x.
StoreText(db, st, s, t) ==
    LET own == [st EXCEPT !.user = @ \cup {s}, !.ret = TRUE]
        stored == IF db.type[s] = "hex" THEN Text[t].prefixed ELSE t
    IN IF stored = t /\ st.uVal[s] = t THEN own
       ELSE Ret(ClearAllValid(db, [own EXCEPT !.uVal[s] = stored]), TRUE)

SetText(db, st, s, t) ==
    LET checked == StringWithinRange(db, st, s, t)
    IN IF checked.ret THEN StoreText(db, checked, s, t) ELSE checked

SetString(db, st, s, t) ==
    IF db.type[s] \in BoolTypes THEN SetTristate(db, st, s, TriOf(t))
    ELSE SetText(db, st, s, t)

IsChangable(st, s) == st.vis[s] > st.rev[s]

\* sym_get_string_default: found is the result of DefaultProp.
DefaultOf(db, found, s) ==
    LET e == db.prop[found.prop].expr
        value == Val(db, found.st, e)
        text == CalcValue(db, found.st, e.s)
        bool == db.type[s] \in BoolTypes
    IN CASE found.prop = NoProp -> Ret(found.st, IF bool THEN No ELSE NoSym)
         [] bool -> Ret(value, TriAnd(value.ret, found.cond))
         [] OTHER -> Ret(text, StringValue(db, text, e.s))

NameOfDefault(db, st, s) ==
    LET selected == TriOr(st.ret, st.rev[s])
        noMod == \/ s \notin db.value /\ TriIn(st, db.modules) = No
                 \/ db.type[s] = "bool"
        widened == IF selected = Mod /\ noMod THEN Yes ELSE selected
    IN IF db.type[s] \in BoolTypes THEN Ret(st, TriName(TriOr(widened, st.imp[s]))) ELSE st

StringDefault(db, st, s) ==
    LET seen == CalcValue(db, CalcVisibility(db, st, s), db.modules)
    IN NameOfDefault(db, DefaultOf(db, DefaultProp(db, seen, s), s), s)

---------------------------------------------------------------------------
\* menu_is_visible, menu_is_empty (menu.c): looking at a menu may also mark
\* its symbol as set by the user, when only what is below it is visible.
RECURSIVE AnyVisible(_, _, _), MenuIsVisible(_, _, _)

AnyVisible(db, st, ms) ==
    IF ms = <<>> THEN Ret(st, FALSE)
    ELSE LET c == MenuIsVisible(db, st, Head(ms))
         IN IF c.ret THEN c ELSE AnyVisible(db, c, Tail(ms))

MenuIsVisible(db, st, m) ==
    LET n == db.menu[m]
        own == Val(db, st, n.vis)
        shown == IF n.sym # NoSym
                 THEN LET c == CalcValue(db, own, n.sym) IN Ret(c, c.pvis[n.prompt])
                 ELSE LET c == Val(db, own, PromptVis(db, m))
                      IN [c EXCEPT !.pvis[n.prompt] = c.ret]
        below == AnyVisible(db, shown, n.kids)
    IN CASE n.prompt = NoProp -> Ret(st, FALSE)
         [] own.ret = No -> Ret(own, FALSE)
         [] shown.ret # No -> Ret(shown, TRUE)
         [] n.sym = NoSym \/ TriIn(shown, n.sym) = No -> Ret(shown, FALSE)
         [] OTHER -> IF below.ret THEN [below EXCEPT !.user = @ \cup {n.sym}] ELSE below

MenuIsEmpty(db, st, m) == LET c == AnyVisible(db, st, db.menu[m].kids) IN Ret(c, ~c.ret)

\* The memory after conf_parse.
ParsedMemory(db) ==
    LET S == DOMAIN db.type
        no == [s \in S |-> No]
        none == [s \in S |-> NoSym]
    IN [tri |-> no, val |-> none, vis |-> no, dir |-> no, rev |-> no, imp |-> no,
        pvis |-> [p \in DOMAIN db.prop |-> No], uTri |-> no, uVal |-> [s \in S |-> NoDef(db, s)],
        user |-> {}, valid |-> {}, write |-> {}, needset |-> {}, modval |-> No,
        changed |-> TRUE, ret |-> No]
=============================================================================
