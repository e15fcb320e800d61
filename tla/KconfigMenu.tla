---------------------------- MODULE KconfigMenu ----------------------------
(***************************************************************************)
(* From a Kconfig file to the menu tree (host/kconfig/zconf.tab.c, menu.c, *)
(* and the dependency check of symbol.c).  A file is the sequence of the   *)
(* reductions its parser makes, as tuples <<kind, arguments>>, and files is *)
(* those of every file by name; the result of conf_parse is the database:   *)
(*                                                                         *)
(*   type, rev, imp, dir   by symbol: its type, rev_dep, implied, dir_dep  *)
(*   choice, value         the symbols with SYMBOL_CHOICE, _CHOICEVAL      *)
(*   optional, auto, noY   those with SYMBOL_OPTIONAL, _AUTO, _ALLNOCONFIG_Y*)
(*   modules, deflist      modules_sym (NoSym, then "n"), sym_defconfig_list *)
(*   menu                  the nodes, node 1 the root: symbol, parent,     *)
(*                         list of children (list and next in the C code), *)
(*                         prompt, own dependency, visibility              *)
(*   prop                  every property, in the order of prop_alloc      *)
(*   entry, top            current_entry and current_menu while parsing    *)
(*   errors                zconfnerrs # 0, or a file that cannot be read   *)
(*   hash                  the order of for_all_symbols                    *)
(*   circle                a recursive dependency was reported             *)
(*   file, parent          current_file, and the file that included each   *)
(***************************************************************************)
EXTENDS KconfigExpr, KconfigText, SequencesExt

Root == 1
NoProp == 0

\* The numerals and file names that Kconfig files here quote: with y, m and n
\* the symbols that have SYMBOL_CONST.
CONSTANT Literals
ConstSyms == {"y", "m", "n"} \cup Literals

PropsOf(db, s) == SelectSeq([i \in 1..Len(db.prop) |-> i], LAMBDA i : db.prop[i].sym = s)
PropsOfKind(db, s, kind) == SelectSeq(PropsOf(db, s), LAMBDA i : db.prop[i].kind = kind)
Prompts(db, s) == SelectSeq(PropsOf(db, s), LAMBDA i : db.prop[i].text)

\* The choice a value belongs to, and the values of a choice in menu order.
ChoiceOf(db, s) == db.prop[Head(PropsOfKind(db, s, "choice"))].expr.s
ValuesOf(db, c) == db.values[c]

---------------------------------------------------------------------------
\* Building the tree, called by the parser's actions.

EmptyDb(hash, main) ==
    [type |-> [s \in {} |-> "unknown"], rev |-> <<>>, imp |-> <<>>, dir |-> <<>>,
     file |-> main, parent |-> (main :> NoFile), values |-> <<>>,
     choice |-> {}, value |-> {}, optional |-> {}, auto |-> {}, noY |-> {},
     modules |-> NoSym, deflist |-> NoSym, hash |-> hash,
     menu |-> <<[sym |-> NoSym, parent |-> Root, kids |-> <<>>, block |-> "none", file |-> main,
                 prompt |-> 1, dep |-> ENull, vis |-> ENull]>>,
     prop |-> <<[kind |-> "menu", sym |-> NoSym, menu |-> Root, text |-> TRUE,
                 vis |-> ENull, expr |-> ENull]>>,
     entry |-> Root, top |-> Root, errors |-> FALSE, circle |-> FALSE]

\* sym_lookup of a name that is being configured.
Declare(db, s) ==
    IF s \in DOMAIN db.type THEN db
    ELSE [db EXCEPT !.type = @ @@ (s :> "unknown"), !.rev = @ @@ (s :> ENull),
                    !.imp = @ @@ (s :> ENull), !.dir = @ @@ (s :> ENull)]

\* menu_check_dep: a bare m means m && MODULES.  Before "option modules" the
\* second term has a null symbol, which no function can calculate.
RECURSIVE CheckDep(_, _)
CheckDep(db, e) ==
    CASE e.op = "not" -> ENot(CheckDep(db, e.l))
      [] e.op \in {"and", "or"} -> ETwo(e.op, CheckDep(db, e.l), CheckDep(db, e.r))
      [] e = ESym("m") -> EAnd(e, ESym(db.modules))
      [] OTHER -> e

\* The visibilities of the menus above node m, innermost first.
RECURSIVE Under(_, _, _)
Under(db, m, e) ==
    IF m = Root THEN e
    ELSE LET up == db.menu[m].parent IN Under(db, up, EAnd(e, db.menu[up].vis))

AddProp(db, kind, text, expr, cond) ==
    LET m == db.entry
        vis == CheckDep(db, cond)
        p == [kind |-> kind, sym |-> db.menu[m].sym, menu |-> m, text |-> text,
              vis |-> IF kind = "prompt" THEN Under(db, m, vis) ELSE vis, expr |-> expr]
    IN [db EXCEPT !.prop = Append(@, p),
                  !.menu[m].prompt = IF text THEN Len(db.prop) + 1 ELSE @]

AddEntry(db, s) ==
    LET new == Len(db.menu) + 1
        node == [sym |-> s, parent |-> db.top, kids |-> <<>>, block |-> "none",
                 file |-> db.file, prompt |-> NoProp, dep |-> ENull, vis |-> ENull]
        added == [db EXCEPT !.menu = Append([@ EXCEPT ![db.top].kids = Append(@, new)], node),
                            !.entry = new]
    IN IF s = NoSym THEN added
       ELSE AddProp(Declare(added, s), "symbol", FALSE, ESym(s), ENull)

AddMenu(db, kind) == [db EXCEPT !.top = db.entry, !.menu[db.entry].block = kind]
EndMenu(db) == [db EXCEPT !.top = db.menu[db.top].parent]
AddDep(db, e) == [db EXCEPT !.menu[db.entry].dep = EAnd(@, CheckDep(db, e))]

SetTypeOf(db, s, t) == IF db.type[s] = "unknown" THEN [db EXCEPT !.type[s] = t] ELSE db
SetType(db, t) == SetTypeOf(db, db.menu[db.entry].sym, t)

\* menu_add_option, with prop_add_env: the value of the environment becomes a
\* default that no menu limits.
AddOption(db, option, arg) ==
    LET s == db.menu[db.entry].sym
        env == [kind |-> "env", sym |-> s, menu |-> 0, text |-> FALSE,
                vis |-> ENull, expr |-> ESym(arg)]
    IN CASE option = "modules" ->
              [db EXCEPT !.errors = @ \/ db.modules # NoSym, !.modules = s]
         [] option = "defconfig_list" ->
              [db EXCEPT !.errors = @ \/ db.deflist \notin {NoSym, s},
                         !.deflist = IF @ = NoSym THEN s ELSE @]
         [] option = "allnoconfig_y" -> [db EXCEPT !.noY = @ \cup {s}]
         [] option = "env" ->
              IF PropsOfKind(db, s, "env") # <<>> THEN [db EXCEPT !.auto = @ \cup {s}]
              ELSE [db EXCEPT !.auto = @ \cup {s},
                              !.prop = @ \o <<env, [env EXCEPT !.kind = "default"]>>]

\* zconf_endtoken: the token must end the innermost block, in its file.
EndBlock(db, kind) ==
    IF db.menu[db.top].block = kind /\ db.menu[db.top].file = db.file
    THEN EndMenu(db) ELSE [db EXCEPT !.errors = TRUE]

\* The actions of yyparse, one per kind of reduction that acts.
ReduceConfig(db, r) ==
    CASE r[1] = "config" -> AddEntry([db EXCEPT !.optional = @ \cup {r[2]}], r[2])
      [] r[1] = "menuconfig_end" ->
            LET p == db.menu[db.entry].prompt
            IN IF p = NoProp THEN db ELSE [db EXCEPT !.prop[p].kind = "menu"]
      [] r[1] = "type" -> SetType(db, r[2])
      [] r[1] = "prompt" -> AddProp(db, "prompt", TRUE, ENull, r[2])
      [] r[1] = "default" -> AddProp(db, "default", FALSE, r[2], r[3])
      [] r[1] = "def_type" -> SetType(AddProp(db, "default", FALSE, r[3], r[4]), r[2])
      [] r[1] \in {"select", "imply"} -> AddProp(db, r[1], FALSE, ESym(r[2]), r[3])
      [] r[1] = "range" -> AddProp(db, "range", FALSE, ECmp("range", r[2], r[3]), r[4])
      [] r[1] = "option" -> AddOption(db, r[2], r[3])

ReduceChoice(db, r) ==
    LET c == AddEntry([db EXCEPT !.choice = @ \cup {r[2]}, !.auto = @ \cup {r[2]}], r[2])
    IN CASE r[1] = "choice" ->
              AddProp([c EXCEPT !.values = @ @@ (r[2] :> <<>>)], "choice", FALSE, ENull, ENull)
         [] r[1] = "optional" ->
              [db EXCEPT !.optional = @ \cup {db.menu[db.entry].sym}]

ReduceMenu(db, r) ==
    CASE r[1] = "if" -> AddMenu(AddDep(AddEntry(db, NoSym), r[2]), "if")
      [] r[1] = "menu" -> AddProp(AddEntry(db, NoSym), "menu", TRUE, ENull, ENull)
      [] r[1] = "block" -> AddMenu(db, r[2])
      [] r[1] = "end" -> EndBlock(db, r[2])
      [] r[1] = "comment" -> AddProp(AddEntry(db, NoSym), "comment", TRUE, ENull, ENull)
      [] r[1] = "depends" -> AddDep(db, r[2])
      [] r[1] = "visible" -> [db EXCEPT !.menu[db.entry].vis = EAnd(@, r[2])]

Reduce(db, r) ==
    CASE r[1] \in {"choice", "optional"} -> ReduceChoice(db, r)
      [] r[1] \in {"if", "menu", "block", "end", "comment", "depends", "visible"} ->
            ReduceMenu(db, r)
      [] OTHER -> ReduceConfig(db, r)

---------------------------------------------------------------------------
\* The scanner's stack of files.

\* The files that include file f, innermost first, up to f itself when the
\* links run in a circle.
RECURSIVE Includers(_, _, _)
Includers(parent, f, seen) ==
    IF parent[f] = NoFile \/ parent[f] \in seen THEN seen
    ELSE Includers(parent, parent[f], seen \cup {parent[f]})

\* zconf_nextfile: the file being left, not the one being entered, is looked
\* for among the files that include it.
NextFile(db, f) ==
    IF db.file \in Includers(db.parent, db.file, {}) THEN [db EXCEPT !.errors = TRUE]
    ELSE [db EXCEPT !.parent = (f :> db.file) @@ @, !.file = f]

\* The loop of yyparse: todo is the rest of each open file, innermost first.
\* A syntax error or an exit of the scanner ends it.
RECURSIVE Parse(_, _, _)
Parse(files, db, todo) ==
    CASE db.errors -> db
      [] todo = <<>> -> [db EXCEPT !.errors = db.top # Root]
      [] todo[1] = <<>> -> Parse(files, [db EXCEPT !.file = db.parent[@]], Tail(todo))
      [] todo[1][1][1] = "source" ->
            LET f == todo[1][1][2]
                rest == <<Tail(todo[1])>> \o Tail(todo)
            IN IF f \notin DOMAIN files THEN [db EXCEPT !.errors = TRUE]
               ELSE Parse(files, NextFile(db, f), <<files[f]>> \o rest)
      [] OTHER -> Parse(files, Reduce(db, todo[1][1]), <<Tail(todo[1])>> \o Tail(todo))

---------------------------------------------------------------------------
\* menu_finalize, in the order of its passes.

Reduced(db, e) == EliminateDups(db.type, ConstSyms, e)
Rewritten(db, e) == Transform(db.type, e)

PromptVis(db, m) == LET p == db.menu[m].prompt IN IF p = NoProp THEN ENull ELSE db.prop[p].vis
\* The properties that a symbol, or a node without one, has at node m.
PropsAt(db, m) == SelectSeq([i \in 1..Len(db.prop) |-> i], LAMBDA i :
    db.prop[i].menu = m /\ (db.menu[m].sym # NoSym \/ i = db.menu[m].prompt))

\* A choice without a type takes that of its first value with one, and gives
\* its own to the values without.
TypesOfChoice(db, m) ==
    LET c == db.menu[m].sym
        values == SelectSeq(db.menu[m].kids, LAMBDA k : db.menu[k].sym # NoSym)
        typed == SelectSeq(values, LAMBDA k : db.type[db.menu[k].sym] # "unknown")
        own == IF typed = <<>> THEN db ELSE SetTypeOf(db, c, db.type[db.menu[typed[1]].sym])
    IN FoldLeft(LAMBDA d, k : SetTypeOf(d, d.menu[k].sym, d.type[c]), own, values)

\* The dependencies of the node above reach node k and its properties; a
\* select or imply reaches the symbol it names.
InheritProp(db, k, p) ==
    LET s == db.menu[k].sym
        joined == Reduced(db, EAnd(db.menu[k].dep, Rewritten(db, db.prop[p].vis)))
        vis == IF s # NoSym /\ db.type[s] # "tristate" THEN TransBool(db.type, joined)
               ELSE joined
        given == [db EXCEPT !.prop[p].vis = vis]
        target == db.prop[p].expr.s
        force == EAnd(ESym(s), vis)
    IN CASE db.prop[p].kind = "select" -> [given EXCEPT !.rev[target] = EOr(@, force)]
         [] db.prop[p].kind = "imply" -> [given EXCEPT !.imp[target] = EOr(@, force)]
         [] OTHER -> given

Inherit(db, k, above) ==
    LET dep == Reduced(db, EAnd(above, Rewritten(db, db.menu[k].dep)))
    IN FoldLeft(LAMBDA d, p : InheritProp(d, k, p), [db EXCEPT !.menu[k].dep = dep],
                PropsAt(db, k))

InheritAll(db, m) ==
    LET n == db.menu[m]
        choice == n.sym \in db.choice
        typed == IF choice THEN TypesOfChoice(db, m) ELSE db
        above == CASE choice -> ESym(n.sym)
                   [] n.prompt # NoProp -> PromptVis(db, m)
                   [] OTHER -> n.dep
    IN FoldLeft(LAMBDA d, k : Inherit(d, k, above), typed, n.kids)

\* Node k belongs below the symbol s before it, whose prompt is visible when
\* base is y.
BelongsBelow(db, k, s, base) ==
    LET dep == IF db.menu[k].prompt # NoProp THEN PromptVis(db, k) ELSE db.menu[k].dep
        shown == Reduced(db, Rewritten(db, TransCompare(dep, "!=", "n")))
    IN /\ ContainsSym(dep, s)
       /\ DependsOn(dep, s) \/ IsYes(EliminateEq(shown, base)[2])

\* The value k of the choice of node m.
AddValue(db, m, k) ==
    LET c == db.menu[m].sym
        v == db.menu[k].sym
        onlyY == ECmp("=", c, "y")
        limited == db.type[c] = "tristate" /\ db.type[v] # "tristate"
        marked == [db EXCEPT !.value = @ \cup {v}, !.entry = k, !.values[c] = Append(@, v)]
        narrowed == FoldLeft(LAMBDA d, p : [d EXCEPT !.prop[p].vis = EAnd(onlyY, @)],
                             [marked EXCEPT !.menu[k].dep = EAnd(onlyY, @)], PropsAt(db, k))
    IN AddProp(IF limited THEN narrowed ELSE marked, "choice", FALSE, ESym(c), ENull)

\* The children of a node without a prompt move up, after it.
Splice(db, m, i) ==
    LET k == db.menu[m].kids[i]
        moved == db.menu[k].kids
        menu == [x \in DOMAIN db.menu |->
                    IF x \in Range(moved) THEN [db.menu[x] EXCEPT !.parent = m] ELSE db.menu[x]]
    IN [db EXCEPT !.menu = [menu EXCEPT ![k].kids = <<>>,
                            ![m].kids = SubSeq(@, 1, i) \o moved \o SubSeq(@, i + 1, Len(@))]]

\* The pass over the children, those that move up included.
RECURSIVE Settle(_, _, _)
Settle(db, m, i) ==
    IF i > Len(db.menu[m].kids) THEN db
    ELSE LET k == db.menu[m].kids[i]
             isNew == /\ db.menu[m].sym \in db.choice
                      /\ db.menu[k].sym \notin db.value \cup {NoSym}
             d == IF isNew THEN AddValue(db, m, k) ELSE db
         IN Settle(IF d.menu[k].prompt = NoProp THEN Splice(d, m, i) ELSE d, m, i + 1)

RECURSIVE Finalize(_, _), FinalizeKids(_, _, _), Absorb(_, _, _, _)

\* The loops over the children and over the following nodes see the lists as
\* the calls they make leave them.
FinalizeKids(db, m, i) ==
    IF i > Len(db.menu[m].kids) THEN db
    ELSE FinalizeKids(Finalize(db, db.menu[m].kids[i]), m, i + 1)

Absorb(db, m, base, n) ==
    LET up == db.menu[m].parent
        at == CHOOSE i \in DOMAIN db.menu[up].kids : db.menu[up].kids[i] = m
        next == at + n + 1
        k == db.menu[up].kids[next]
        fin == Finalize(db, k)
    IN IF /\ next <= Len(db.menu[up].kids)
          /\ BelongsBelow(db, k, db.menu[m].sym, base)
       THEN Absorb([fin EXCEPT !.menu[k].parent = m], m, base, n + 1)
       ELSE [db EXCEPT !.menu[m].kids = SubSeq(db.menu[up].kids, at + 1, next - 1),
                       !.menu[up].kids = SubSeq(@, 1, at) \o SubSeq(@, next, Len(@))]

Finalize(db, m) ==
    LET n == db.menu[m]
        base == Reduced(db, Rewritten(db, TransCompare(PromptVis(db, m), "!=", "n")))
        d1 == CASE n.kids # <<>> -> FinalizeKids(InheritAll(db, m), m, 1)
                [] n.sym # NoSym ->
                      [Absorb(db, m, base, 0) EXCEPT !.dir[n.sym] = EOr(@, n.dep)]
                [] OTHER -> db
        d2 == Settle(d1, m, 1)
    IN IF n.sym \notin d2.optional \cup {NoSym} /\ n.prompt # NoProp
       THEN [d2 EXCEPT !.rev[n.sym] = EOr(@, EAnd(PromptVis(d2, m), ESym("m")))]
       ELSE d2

---------------------------------------------------------------------------
\* sym_check_deps.  c holds the flags SYMBOL_CHECK (on) and SYMBOL_CHECKED
\* (done), whether a circle was reported, and in res the symbol returned.

RECURSIVE CheckSym(_, _, _), CheckExpr(_, _, _), CheckAll(_, _, _), CheckOwn(_, _, _)

\* sym_check_expr_deps for a sequence of expressions, up to the first that
\* returns a symbol.
CheckAll(db, c, es) ==
    IF es = <<>> \/ c.res # NoSym THEN c
    ELSE CheckAll(db, CheckExpr(db, c, Head(es)), Tail(es))

CheckExpr(db, c, e) ==
    CASE e.op \in {"and", "or"} -> CheckAll(db, c, <<e.l, e.r>>)
      [] e.op = "not" -> CheckExpr(db, c, e.l)
      [] e.op \in Comparisons -> CheckAll(db, c, <<ESym(e.s), ESym(e.t)>>)
      [] e.op = "sym" -> CheckSym(db, c, e.s)
      [] OTHER -> c

(* Mutant: what selects the symbol is not looked at. *)
UsesOf_noSelect(db, s) ==
    LET Used(p) == IF db.prop[p].kind = "default" THEN <<db.prop[p].vis, db.prop[p].expr>>
                   ELSE <<db.prop[p].vis>>
    IN FlattenSeq([i \in DOMAIN PropsOf(db, s) |-> Used(PropsOf(db, s)[i])])

\* sym_check_sym_deps: what forces the symbol, then its properties in order.
UsesOf(db, s) ==
    LET Used(p) == IF db.prop[p].kind = "default" /\ s \notin db.choice
                   THEN <<db.prop[p].vis, db.prop[p].expr>> ELSE <<db.prop[p].vis>>
        ps == SelectSeq(PropsOf(db, s), LAMBDA p : db.prop[p].kind \notin {"choice", "select"})
    IN <<db.rev[s]>> \o FlattenSeq([i \in DOMAIN ps |-> Used(ps[i])])

CheckOwn(db, c, ss) ==
    IF ss = <<>> \/ c.res # NoSym THEN c
    ELSE CheckOwn(db, CheckAll(db, c, UsesOf(db, Head(ss))), Tail(ss))

CheckChoice(db, c, s) ==
    LET values == ValuesOf(db, s)
        held == [c EXCEPT !.on = @ \cup Range(values) \cup {s},
                          !.done = @ \cup Range(values) \cup {s}]
        own == CheckOwn(db, held, <<s>>)
        all == CheckOwn(db, [own EXCEPT !.on = @ \ {s}], values)
    IN [all EXCEPT !.on = @ \ Range(values),
                   !.res = IF @ \in db.value /\ ChoiceOf(db, @) = s THEN s ELSE @]

\* A circle that comes back to where its check began is not passed on.
CheckSym(db, c, s) ==
    LET inner ==
          CASE s \in db.value -> CheckSym(db, c, ChoiceOf(db, s))
            [] s \in db.choice -> CheckChoice(db, c, s)
            [] OTHER -> LET own == CheckOwn(db, [c EXCEPT !.on = @ \cup {s}, !.done = @ \cup {s}],
                                            <<s>>)
                        IN [own EXCEPT !.on = @ \ {s}]
    IN CASE s \notin DOMAIN db.type -> c
         [] s \in c.on -> [c EXCEPT !.reported = TRUE, !.res = s]
         [] s \in c.done -> c
         [] OTHER -> [inner EXCEPT !.res = IF @ = s THEN NoSym ELSE @]

CheckDeps(db) ==
    FoldLeft(LAMBDA c, s : LET next == CheckSym(db, [c EXCEPT !.res = NoSym], s)
                           IN [next EXCEPT !.failed = @ \/ next.res # NoSym],
             [on |-> {}, done |-> {}, reported |-> FALSE, res |-> NoSym, failed |-> FALSE],
             db.hash)

\* conf_parse.
ConfParse(files, main, hash) ==
    LET read == [Parse(files, EmptyDb(hash, main), <<files[main]>>)
                   EXCEPT !.modules = IF @ = NoSym THEN "n" ELSE @]
        final == Finalize(read, Root)
        check == CheckDeps(final)
    IN IF read.errors THEN read
       ELSE [final EXCEPT !.errors = check.failed, !.circle = check.reported]
=============================================================================
