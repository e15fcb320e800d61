---------------------------- MODULE KconfigExpr ----------------------------
(***************************************************************************)
(* The expression algebra of host/kconfig/expr.c: how the dependencies of  *)
(* a Kconfig file are rewritten while the menu tree is finalized.  The C   *)
(* functions rewrite trees in place through pointers to pointers; here     *)
(* each returns the rewritten tree.  The functions that walk two trees     *)
(* (__expr_eliminate_eq, expr_eliminate_dups1) visit the operands of the   *)
(* chains of one operator pairwise, so they are written over the sequence  *)
(* of those operands, which is put back in the tree's shape.               *)
(*                                                                         *)
(* ty gives the types of the symbols, and consts the constant symbols.     *)
(***************************************************************************)
EXTENDS KconfigTristate, Sequences, FiniteSets

\* The operands of a chain of op, left to right, and the same chain with
\* other operands.
RECURSIVE Operands(_, _)
Operands(op, e) ==
    IF e.op = op THEN Operands(op, e.l) \o Operands(op, e.r) ELSE <<e>>

RECURSIVE Rebuild(_, _, _)
Rebuild(op, e, es) ==
    IF e.op # op THEN Head(es)
    ELSE LET n == Len(Operands(op, e.l))
         IN ETwo(op, Rebuild(op, e.l, SubSeq(es, 1, n)),
                     Rebuild(op, e.r, SubSeq(es, n + 1, Len(es))))

\* The operand that leaves a chain of op as it is.
Neutral(op) == IF op = "or" THEN ESym("n") ELSE ESym("y")
Absorbing(op) == IF op = "or" THEN ESym("y") ELSE ESym("n")

RECURSIVE EliminateYN(_)
EliminateYN(e) ==
    IF e.op \notin {"and", "or"} THEN e
    ELSE LET l == EliminateYN(e.l)
             r == EliminateYN(e.r)
         IN CASE l = Absorbing(e.op) \/ r = Absorbing(e.op) -> Absorbing(e.op)
              [] l = Neutral(e.op) -> r
              [] r = Neutral(e.op) -> l
              [] OTHER -> ETwo(e.op, l, r)

---------------------------------------------------------------------------
\* __expr_eliminate_eq and expr_eq call each other.  CancelPairs runs over
\* the pairs (i, j) of operands of two chains in the order of the recursion.
RECURSIVE ExprEq(_, _), EliminateEq(_, _), CancelPairs(_, _, _, _, _)

CancelPairs(op, as, bs, i, j) ==
    CASE i > Len(as) -> <<as, bs>>
      [] j > Len(bs) -> CancelPairs(op, as, bs, i + 1, 1)
      [] \/ as[i] = bs[j] /\ as[i] \in {ESym("y"), ESym("n")}
         \/ ~ExprEq(as[i], bs[j]) -> CancelPairs(op, as, bs, i, j + 1)
      [] OTHER -> CancelPairs(op, [as EXCEPT ![i] = Neutral(op)],
                              [bs EXCEPT ![j] = Neutral(op)], i, j + 1)

EliminateEqIn(op, e1, e2) ==
    LET rest == CancelPairs(op, Operands(op, e1), Operands(op, e2), 1, 1)
    IN <<Rebuild(op, e1, rest[1]), Rebuild(op, e2, rest[2])>>

EliminateEq(e1, e2) ==
    IF e1 = ENull \/ e2 = ENull THEN <<e1, e2>>
    ELSE LET p == IF e1.op \in {"and", "or"} THEN EliminateEqIn(e1.op, e1, e2)
                  ELSE <<e1, e2>>
             q == IF p[1].op # p[2].op /\ p[2].op \in {"and", "or"}
                  THEN EliminateEqIn(p[2].op, p[1], p[2]) ELSE p
         IN <<EliminateYN(q[1]), EliminateYN(q[2])>>

ExprEq(e1, e2) ==
    CASE e1.op # e2.op -> FALSE
      [] e1.op = "not" -> ExprEq(e1.l, e2.l)
      [] e1.op \in {"and", "or"} ->
            LET rest == EliminateEq(e1, e2)
            IN rest[1].op = "sym" /\ rest[1] = rest[2]
      [] OTHER -> e1 = e2

---------------------------------------------------------------------------
\* expr_eliminate_dups1 for the operands i and j of a chain: the first of two
\* joined operands becomes neutral, the second the joined term.  A first
\* operand that is a chain of the other operator is first reduced itself.  The
\* result is the chain with n, the number of joins (trans_count).
RECURSIVE DupsIn(_, _, _, _), DupPairs(_, _, _, _, _, _, _)

Join(ty, consts, op, e1, e2) ==
    IF ExprEq(e1, e2) THEN e1
    ELSE IF op = "or" THEN JoinOr(ty, e1, e2) ELSE JoinAnd(ty, consts, e1, e2)

DupPairs(ty, consts, op, es, n, i, j) ==
    CASE i > Len(es) -> [es |-> es, n |-> n]
      [] j > Len(es) -> DupPairs(ty, consts, op, es, n, i + 1, 1)
      [] i = j -> DupPairs(ty, consts, op, es, n, i, j + 1)
      [] OTHER ->
            LET first == DupsIn(ty, consts, es[i], n)
                joined == Join(ty, consts, op, first.e, es[j])
                none == joined = ENull
            IN DupPairs(ty, consts, op,
                        IF none THEN [es EXCEPT ![i] = first.e]
                        ELSE [es EXCEPT ![i] = Neutral(op), ![j] = joined],
                        IF none THEN first.n ELSE first.n + 1, i, j + 1)

DupsIn(ty, consts, e, n) ==
    IF e.op \notin {"and", "or"} THEN [e |-> e, n |-> n]
    ELSE LET pass == DupPairs(ty, consts, e.op, Operands(e.op, e), n, 1, 1)
         IN [e |-> Rebuild(e.op, e, pass.es), n |-> pass.n]

\* The loop of expr_eliminate_dups: until a pass joins nothing.
RECURSIVE EliminateDups(_, _, _)
EliminateDups(ty, consts, e) ==
    LET pass == DupsIn(ty, consts, e, 0)
    IN IF pass.n = 0 THEN pass.e ELSE EliminateDups(ty, consts, EliminateYN(pass.e))

RECURSIVE TransBool(_, _)
TransBool(ty, e) ==
    CASE e.op \in {"and", "or"} -> ETwo(e.op, TransBool(ty, e.l), TransBool(ty, e.r))
      [] e.op = "not" -> ENot(TransBool(ty, e.l))
      [] e.op = "!=" /\ TypeIn(ty, e.s) = "tristate" /\ e.t = "n" -> ESym(e.s)
      [] OTHER -> e

(* Mutant: mod counts as yes for a boolean. *)
TransCompareBool_modIsYes(e) ==
    IF (e.op = "=") = (e.t # "n") THEN ESym(e.s) ELSE ENot(ESym(e.s))

\* A comparison of a boolean symbol with a constant (expr_transform).
TransCompareBool(e) ==
    CASE e.t = "m" -> IF e.op = "=" THEN ESym("n") ELSE ESym("y")
      [] (e.op = "=") = (e.t = "y") -> ESym(e.s)
      [] OTHER -> ENot(ESym(e.s))

RECURSIVE Transform(_, _)
TransformNot(ty, e) ==
    LET inner == e.l
    IN CASE inner.op = "not" -> Transform(ty, inner.l)
         [] inner.op \in Comparisons -> [inner EXCEPT !.op = Negated(inner.op)]
         [] inner.op = "or" -> Transform(ty, ETwo("and", ENot(inner.l), ENot(inner.r)))
         [] inner.op = "and" -> Transform(ty, ETwo("or", ENot(inner.l), ENot(inner.r)))
         [] inner.op = "sym" /\ inner.s \in {"y", "m", "n"} ->
                ESym(TriName(TriNot(TriOf(inner.s))))
         [] OTHER -> e

Transform(ty, e) ==
    CASE e.op \in {"and", "or"} -> ETwo(e.op, Transform(ty, e.l), Transform(ty, e.r))
      [] e.op = "not" -> TransformNot(ty, ENot(Transform(ty, e.l)))
      [] /\ e.op \in {"=", "!="}
         /\ TypeIn(ty, e.s) = "bool" /\ e.t \in {"y", "m", "n"} -> TransCompareBool(e)
      [] OTHER -> e

---------------------------------------------------------------------------
RECURSIVE ContainsSym(_, _)
ContainsSym(e, s) ==
    CASE e.op \in {"and", "or"} -> ContainsSym(e.l, s) \/ ContainsSym(e.r, s)
      [] e.op = "not" -> ContainsSym(e.l, s)
      [] e.op = "sym" -> e.s = s
      [] e.op \in Comparisons -> s \in {e.s, e.t}
      [] OTHER -> FALSE

RECURSIVE DependsOn(_, _)
DependsOn(e, s) ==
    CASE e.op = "and" -> DependsOn(e.l, s) \/ DependsOn(e.r, s)
      [] e.op = "sym" -> e.s = s
      [] e.op = "=" -> e.s = s /\ e.t \in {"y", "m"}
      [] e.op = "!=" -> e.s = s /\ e.t = "n"
      [] OTHER -> FALSE

\* expr_trans_compare: the expression that is y when e op c holds, for op "="
\* or "!=" and a constant c.  For a chain and c = m neither constant matches
\* and the code leaves the chain as it is.
RECURSIVE TransCompare(_, _, _)
TransCompare(e, op, c) ==
    LET Flip(x) == IF op = "!=" THEN ENot(x) ELSE x
        Both(o) == Flip(ETwo(o, TransCompare(e.l, "=", c), TransCompare(e.r, "=", c)))
    IN CASE e = ENull -> Flip(ESym(c))
         [] e.op \in {"and", "or"} /\ c = "y" -> Both(e.op)
         [] e.op \in {"and", "or"} /\ c = "n" -> Both(IF e.op = "and" THEN "or" ELSE "and")
         [] e.op \in {"and", "or"} -> Flip(e)
         [] e.op = "not" -> TransCompare(e.l, IF op = "=" THEN "!=" ELSE "=", c)
         [] e.op = "sym" -> ECmp(op, e.s, c)
         [] c = "m" -> IF op = "=" THEN ESym("n") ELSE ESym("y")
         [] OTHER -> IF (op = "=") = (c = "y") THEN e ELSE ENot(e)
=============================================================================
