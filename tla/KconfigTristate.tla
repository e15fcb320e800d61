-------------------------- MODULE KconfigTristate --------------------------
(***************************************************************************)
(* The values and the comparisons Kconfig expressions are built from       *)
(* (host/kconfig/expr.h, expr.c): the three values no, mod and yes, the    *)
(* expression constructors, and the two rules by which expr.c replaces two *)
(* terms about the same symbol by one.  No operator here is recursive, so  *)
(* that the rules can be proved sound for every value of the symbol.       *)
(*                                                                         *)
(* An expression is a record: [op, s] a symbol, [op, l] a negation,        *)
(* [op, l, r] "and" or "or", [op, s, t] a comparison of two symbols.       *)
(* The constants y, m and n are the symbols "y", "m", "n".                 *)
(***************************************************************************)
EXTENDS Integers

No == 0
Mod == 1
Yes == 2
Tristate == 0..2

TriOr(a, b) == IF a > b THEN a ELSE b
TriAnd(a, b) == IF a < b THEN a ELSE b
TriNot(a) == 2 - a

\* What sym_get_string_value gives for a tristate value, and back.
TriName(v) == CASE v = No -> "n" [] v = Mod -> "m" [] OTHER -> "y"
TriOf(name) == CASE name = "y" -> Yes [] name = "m" -> Mod [] OTHER -> No

ENull == [op |-> "null"]
ESym(s) == [op |-> "sym", s |-> s]
ENot(e) == [op |-> "not", l |-> e]
ECmp(op, s, t) == [op |-> op, s |-> s, t |-> t]
ETwo(op, e1, e2) == [op |-> op, l |-> e1, r |-> e2]

\* The negated comparison (expr_transform's cases of E_NOT).
Negated(op) ==
    CASE op = "=" -> "!=" [] op = "!=" -> "=" [] op = "<=" -> ">"
      [] op = ">" -> "<=" [] op = "<" -> ">=" [] op = ">=" -> "<"

EAnd(e1, e2) ==
    IF e1 = ENull THEN e2 ELSE IF e2 = ENull THEN e1 ELSE ETwo("and", e1, e2)
EOr(e1, e2) ==
    IF e1 = ENull THEN e2 ELSE IF e2 = ENull THEN e1 ELSE ETwo("or", e1, e2)

IsYes(e) == e = ENull \/ e = ESym("y")

Comparisons == {"=", "!=", "<", "<=", ">", ">="}
Terms == {"=", "!=", "sym"}

\* ty gives the types of the configured symbols; any other is unknown.
TypeIn(ty, s) == IF s \in DOMAIN ty THEN ty[s] ELSE "unknown"

\* The symbol both terms are about, or "" when the join rules do not apply:
\* the first term may be a negated comparison, the second only a negated
\* symbol.
Subject(e, negatable) ==
    CASE e.op \in Terms -> e.s
      [] e.op = "not" /\ e.l.op \in negatable -> e.l.s
      [] OTHER -> ""

Joinable(ty, e1, e2) ==
    /\ Subject(e1, Terms) # ""
    /\ Subject(e1, Terms) = Subject(e2, {"sym"})
    /\ TypeIn(ty, Subject(e1, Terms)) \in {"bool", "tristate"}

\* e1 and e2 compare with op1 and op2, in the constants of the set cs.
Compare(e1, e2, op1, op2, cs) ==
    e1.op = op1 /\ e2.op = op2 /\ {e1.t, e2.t} = cs

\* One of the terms is the symbol, the other compares it with c.
WithSymbol(e1, e2, op, c) ==
    \/ e1.op = "sym" /\ e2.op = op /\ e2.t = c
    \/ e2.op = "sym" /\ e1.op = op /\ e1.t = c

\* The rules for two terms that are joinable: ENull when none of them fits.
OrRule(ty, e1, e2) ==
    LET s == Subject(e1, Terms)
        tristate == TypeIn(ty, s) = "tristate"
    IN CASE tristate /\ Compare(e1, e2, "=", "=", {"y", "m"}) -> ECmp("!=", s, "n")
         [] tristate /\ Compare(e1, e2, "=", "=", {"y", "n"}) -> ECmp("!=", s, "m")
         [] tristate /\ Compare(e1, e2, "=", "=", {"m", "n"}) -> ECmp("!=", s, "y")
         [] ~tristate /\ {e1, e2} = {ESym(s), ENot(ESym(s))} -> ESym("y")
         [] OTHER -> ENull

\* consts are the symbols with the flag SYMBOL_CONST.
AndRule(ty, consts, e1, e2) ==
    LET s == Subject(e1, Terms)
        tristate == TypeIn(ty, s) = "tristate"
        Both(eq, ne) == /\ eq.op = "=" /\ ne.op = "!="
                        /\ {eq.t, ne.t} \subseteq consts
        Kept(eq, ne) == IF eq.t = ne.t THEN ESym("n") ELSE ECmp("=", s, eq.t)
    IN CASE WithSymbol(e1, e2, "=", "y") -> ECmp("=", s, "y")
         [] WithSymbol(e1, e2, "!=", "n") -> ESym(s)
         [] WithSymbol(e1, e2, "!=", "m") -> ECmp("=", s, "y")
         [] tristate /\ Both(e1, e2) -> Kept(e1, e2)
         [] tristate /\ Both(e2, e1) -> Kept(e2, e1)
         [] tristate /\ Compare(e1, e2, "!=", "!=", {"y", "n"}) -> ECmp("=", s, "m")
         [] tristate /\ Compare(e1, e2, "!=", "!=", {"y", "m"}) -> ECmp("=", s, "n")
         [] tristate /\ Compare(e1, e2, "!=", "!=", {"m", "n"}) -> ECmp("=", s, "y")
         [] OTHER -> ENull

\* expr_join_or and expr_join_and, after the test for equal terms.
JoinOr(ty, e1, e2) ==
    IF Joinable(ty, e1, e2) THEN OrRule(ty, e1, e2) ELSE ENull
JoinAnd(ty, consts, e1, e2) ==
    IF Joinable(ty, e1, e2) THEN AndRule(ty, consts, e1, e2) ELSE ENull

\* The value of a term (expr_calc_value without its recursion) under str, the
\* strings of the symbols' values, with ordering and numbers left aside.
AtomValue(str, e) ==
    CASE e.op = "sym" -> TriOf(str[e.s])
      [] e.op = "=" -> IF str[e.s] = str[e.t] THEN Yes ELSE No
      [] e.op = "!=" -> IF str[e.s] # str[e.t] THEN Yes ELSE No
TermValue(str, e) ==
    IF e.op = "not" THEN TriNot(AtomValue(str, e.l)) ELSE AtomValue(str, e)
=============================================================================
