--------------------------- MODULE KconfigProofs ---------------------------
(***************************************************************************)
(* The configuration tools, apart from their walks over the trees.         *)
(*                                                                         *)
(* For every set of symbols and whatever their values, the rules by which  *)
(* expr.c replaces two terms about one symbol by one term keep the value   *)
(* of the condition: what MCKconfig checks on families of conditions holds *)
(* for the rules at large.                                                 *)
(*                                                                         *)
(* And for any trees, disks, keys and answers, and whatever the walks      *)
(* return, the last configuration that was saved whole survives a crash, a *)
(* full disk, a failed rename or a SIGINT at any step, and auto.conf is    *)
(* replaced last.                                                          *)
(*                                                                         *)
(* And for any calls, keys and terminals, the dialogs of menuconfig act on *)
(* what they show.  The inductive invariant gives each kind of box the     *)
(* set of its records, with what its loops keep: a set of boxes that every *)
(* round keeps is kept by the loop, by induction over its rounds.          *)
(***************************************************************************)
EXTENDS Kconfig, WellFoundedInduction, TLAPS

\* str gives the strings of the values of the symbols that ty declares and of
\* the constants, which are their own.
Valued(ty, consts, str) ==
    /\ \A s \in DOMAIN ty : /\ ty[s] = "bool" => str[s] \in {"n", "y"}
                            /\ ty[s] = "tristate" => str[s] \in {"n", "m", "y"}
    /\ \A c \in consts \cup {"n", "m", "y"} : str[c] = c

\* The symbol of two terms that can be joined has a value of its type.
LEMMA SubjectValued ==
    ASSUME NEW ty, NEW consts, NEW str, Valued(ty, consts, str),
           NEW e1, NEW e2, Joinable(ty, e1, e2)
    PROVE  /\ str[Subject(e1, Terms)] \in {"n", "m", "y"}
           /\ TypeIn(ty, Subject(e1, Terms)) # "tristate"
                => str[Subject(e1, Terms)] \in {"n", "y"}
BY DEF Valued, Joinable, TypeIn

\* A comparison or a symbol that can be joined is about the subject.
LEMMA SubjectOfTerms ==
    ASSUME NEW ty, NEW e1, NEW e2, Joinable(ty, e1, e2)
    PROVE  /\ e1.op \in Terms => e1.s = Subject(e1, Terms)
           /\ e2.op \in Terms => e2.s = Subject(e1, Terms)
BY DEF Joinable, Subject, Terms

\* The values of the three kinds of term, of a record or as it is built.
LEMMA ValueOfTerm ==
    ASSUME NEW str, NEW e
    PROVE  /\ e.op = "sym" => TermValue(str, e) = TriOf(str[e.s])
           /\ e.op = "=" => TermValue(str, e) = (IF str[e.s] = str[e.t] THEN Yes ELSE No)
           /\ e.op = "!=" => TermValue(str, e) = (IF str[e.s] # str[e.t] THEN Yes ELSE No)
BY DEF TermValue, AtomValue

LEMMA ValueOfBuilt ==
    ASSUME NEW str, NEW s, NEW c
    PROVE  /\ TermValue(str, ESym(s)) = TriOf(str[s])
           /\ TermValue(str, ENot(ESym(s))) = TriNot(TriOf(str[s]))
           /\ TermValue(str, ECmp("=", s, c)) = (IF str[s] = str[c] THEN Yes ELSE No)
           /\ TermValue(str, ECmp("!=", s, c)) = (IF str[s] # str[c] THEN Yes ELSE No)
BY DEF TermValue, AtomValue, ESym, ENot, ECmp

\* expr_join_or (expr.c 361-423): a term that replaces e1 || e2 has the
\* greater of the values of the two.
THEOREM JoinOrSound ==
    ASSUME NEW ty, NEW consts, NEW str, Valued(ty, consts, str),
           NEW e1, NEW e2, JoinOr(ty, e1, e2) # ENull
    PROVE  TermValue(str, JoinOr(ty, e1, e2))
             = TriOr(TermValue(str, e1), TermValue(str, e2))
<1> DEFINE s == Subject(e1, Terms)
           tristate == TypeIn(ty, s) = "tristate"
           Pair(a, b) == tristate /\ Compare(e1, e2, "=", "=", {a, b})
<1>1. Joinable(ty, e1, e2) /\ JoinOr(ty, e1, e2) = OrRule(ty, e1, e2)
  BY DEF JoinOr
<1>2. str[s] \in {"n", "m", "y"} /\ (~tristate => str[s] \in {"n", "y"})
  BY <1>1, SubjectValued
<1>3. str["n"] = "n" /\ str["m"] = "m" /\ str["y"] = "y"
  BY DEF Valued
<1>4. ASSUME NEW a, NEW b, NEW c, Pair(a, b), OrRule(ty, e1, e2) = ECmp("!=", s, c),
             {a, b, c} = {"n", "m", "y"}, a # b, a # c, b # c
      PROVE  TermValue(str, JoinOr(ty, e1, e2)) = TriOr(TermValue(str, e1), TermValue(str, e2))
  <2>1. e1.op = "=" /\ e2.op = "=" /\ {e1.t, e2.t} = {a, b}
    BY <1>4 DEF Compare
  <2>2. e1.s = s /\ e2.s = s
    BY <1>1, <2>1, SubjectOfTerms DEF Terms
  <2>3. /\ TermValue(str, e1) = (IF str[s] = str[e1.t] THEN Yes ELSE No)
        /\ TermValue(str, e2) = (IF str[s] = str[e2.t] THEN Yes ELSE No)
    BY <2>1, <2>2, ValueOfTerm
  <2>4. str[a] = a /\ str[b] = b /\ str[c] = c /\ str[s] \in {a, b, c}
    BY <1>2, <1>3, <1>4
  <2>5. TermValue(str, JoinOr(ty, e1, e2)) = (IF str[s] # c THEN Yes ELSE No)
    BY <1>1, <1>4, <2>4, ValueOfBuilt
  <2>6. CASE e1.t = a /\ e2.t = b
    BY <1>4, <2>3, <2>4, <2>5, <2>6 DEF TriOr, Yes, No
  <2>7. CASE e1.t = b /\ e2.t = a
    BY <1>4, <2>3, <2>4, <2>5, <2>7 DEF TriOr, Yes, No
  <2> QED
    BY <2>1, <2>6, <2>7
<1>5. CASE Pair("y", "m")
  <2>1. OrRule(ty, e1, e2) = ECmp("!=", s, "n")
    BY <1>5 DEF OrRule, Compare
  <2> QED
    BY <1>4, <1>5, <2>1
<1>6. CASE Pair("y", "n")
  <2>1. OrRule(ty, e1, e2) = ECmp("!=", s, "m")
    BY <1>6 DEF OrRule, Compare
  <2> QED
    BY <1>4, <1>6, <2>1
<1>7. CASE Pair("m", "n")
  <2>1. OrRule(ty, e1, e2) = ECmp("!=", s, "y")
    BY <1>7 DEF OrRule, Compare
  <2> QED
    BY <1>4, <1>7, <2>1
<1>8. CASE ~Pair("y", "m") /\ ~Pair("y", "n") /\ ~Pair("m", "n")
  <2>1. /\ ~tristate /\ {e1, e2} = {ESym(s), ENot(ESym(s))}
        /\ OrRule(ty, e1, e2) = ESym("y")
    BY <1>1, <1>8 DEF OrRule
  <2>2. \/ TermValue(str, e1) = TriOf(str[s]) /\ TermValue(str, e2) = TriNot(TriOf(str[s]))
        \/ TermValue(str, e2) = TriOf(str[s]) /\ TermValue(str, e1) = TriNot(TriOf(str[s]))
    <3>1. (e1 = ESym(s) /\ e2 = ENot(ESym(s))) \/ (e2 = ESym(s) /\ e1 = ENot(ESym(s)))
      BY <2>1
    <3> QED
      BY <3>1, ValueOfBuilt
  <2>3. TermValue(str, ESym("y")) = Yes
    BY <1>3, ValueOfBuilt DEF TriOf
  <2> QED
    BY <1>1, <1>2, <2>1, <2>2, <2>3 DEF TriOr, TriNot, TriOf, Yes, Mod, No
<1> QED
  BY <1>5, <1>6, <1>7, <1>8

\* expr_join_and (expr.c 425-517): a term that replaces e1 && e2 has the
\* lesser of the values of the two.
THEOREM JoinAndSound ==
    ASSUME NEW ty, NEW consts, NEW str, Valued(ty, consts, str),
           NEW e1, NEW e2, JoinAnd(ty, consts, e1, e2) # ENull
    PROVE  TermValue(str, JoinAnd(ty, consts, e1, e2))
             = TriAnd(TermValue(str, e1), TermValue(str, e2))
<1> DEFINE s == Subject(e1, Terms)
           tristate == TypeIn(ty, s) = "tristate"
           Rule == AndRule(ty, consts, e1, e2)
           Both(eq, ne) == eq.op = "=" /\ ne.op = "!=" /\ {eq.t, ne.t} \subseteq consts
           Kept(eq, ne) == IF eq.t = ne.t THEN ESym("n") ELSE ECmp("=", s, eq.t)
           Differs(a, b) == tristate /\ Compare(e1, e2, "!=", "!=", {a, b})
<1>1. Joinable(ty, e1, e2) /\ JoinAnd(ty, consts, e1, e2) = Rule
  BY DEF JoinAnd
<1>2. str[s] \in {"n", "m", "y"} /\ (~tristate => str[s] \in {"n", "y"})
  BY <1>1, SubjectValued
<1>3. /\ \A c \in consts : str[c] = c
      /\ str["n"] = "n" /\ str["m"] = "m" /\ str["y"] = "y"
  BY DEF Valued
<1>4. ASSUME NEW e \in {e1, e2}
      PROVE  /\ e.op = "sym" => TermValue(str, e) = TriOf(str[s])
             /\ e.op = "=" => TermValue(str, e) = (IF str[s] = str[e.t] THEN Yes ELSE No)
             /\ e.op = "!=" => TermValue(str, e) = (IF str[s] # str[e.t] THEN Yes ELSE No)
  BY <1>1, SubjectOfTerms, ValueOfTerm DEF Terms
<1>5. ASSUME NEW c
      PROVE  /\ TermValue(str, ESym(s)) = TriOf(str[s])
             /\ TermValue(str, ECmp("=", s, c)) = (IF str[s] = str[c] THEN Yes ELSE No)
  BY ValueOfBuilt
<1>6. CASE WithSymbol(e1, e2, "=", "y")
  <2>1. Rule = ECmp("=", s, "y")
    BY <1>6 DEF AndRule, WithSymbol, Compare
  <2> QED
    BY <1>1, <1>2, <1>3, <1>4, <1>5, <1>6, <2>1 DEF WithSymbol, TriAnd, TriOf, Yes, Mod, No
<1>7. CASE WithSymbol(e1, e2, "!=", "n")
  <2>1. Rule = ESym(s)
    BY <1>7 DEF AndRule, WithSymbol, Compare
  <2> QED
    BY <1>1, <1>2, <1>3, <1>4, <1>5, <1>7, <2>1 DEF WithSymbol, TriAnd, TriOf, Yes, Mod, No
<1>8. CASE WithSymbol(e1, e2, "!=", "m")
  <2>1. Rule = ECmp("=", s, "y")
    BY <1>8 DEF AndRule, WithSymbol, Compare
  <2> QED
    BY <1>1, <1>2, <1>3, <1>4, <1>5, <1>8, <2>1 DEF WithSymbol, TriAnd, TriOf, Yes, Mod, No
<1>9. ASSUME NEW eq \in {e1, e2}, NEW ne \in {e1, e2}, Both(eq, ne)
      PROVE  /\ TermValue(str, Kept(eq, ne)) = TriAnd(TermValue(str, eq), TermValue(str, ne))
             /\ TermValue(str, Kept(eq, ne)) = TriAnd(TermValue(str, ne), TermValue(str, eq))
  <2>1. /\ TermValue(str, eq) = (IF str[s] = eq.t THEN Yes ELSE No)
        /\ TermValue(str, ne) = (IF str[s] # ne.t THEN Yes ELSE No)
    BY <1>3, <1>4, <1>9
  <2>2. TermValue(str, Kept(eq, ne)) = (IF eq.t # ne.t /\ str[s] = eq.t THEN Yes ELSE No)
    <3>1. TermValue(str, ESym("n")) = No
      BY <1>3, ValueOfBuilt DEF TriOf
    <3> QED
      BY <3>1, <1>3, <1>5, <1>9
  <2> QED
    BY <2>1, <2>2 DEF TriAnd, Yes, No
<1>10. CASE tristate /\ Both(e1, e2)
  <2>1. Rule = Kept(e1, e2)
    BY <1>10 DEF AndRule, WithSymbol, Compare
  <2> QED
    BY <1>1, <1>9, <1>10, <2>1
<1>11. CASE tristate /\ Both(e2, e1)
  <2>1. Rule = Kept(e2, e1)
    BY <1>11 DEF AndRule, WithSymbol, Compare
  <2> QED
    BY <1>1, <1>9, <1>11, <2>1
<1>12. ASSUME NEW a, NEW b, NEW c, Differs(a, b), Rule = ECmp("=", s, c),
              {a, b, c} = {"n", "m", "y"}, a # b, a # c, b # c
       PROVE  TermValue(str, Rule) = TriAnd(TermValue(str, e1), TermValue(str, e2))
  <2>1. e1.op = "!=" /\ e2.op = "!=" /\ {e1.t, e2.t} = {a, b}
    BY <1>12 DEF Compare
  <2>2. /\ str[a] = a /\ str[b] = b /\ str[c] = c
        /\ str[s] \in {a, b, c}
    BY <1>2, <1>3, <1>12
  <2>3. (e1.t = a /\ e2.t = b) \/ (e1.t = b /\ e2.t = a)
    BY <2>1
  <2> QED
    BY <1>4, <1>5, <1>12, <2>1, <2>2, <2>3 DEF TriAnd, Yes, No
<1>13. CASE Differs("y", "n")
  <2>1. Rule = ECmp("=", s, "m")
    BY <1>13 DEF AndRule, WithSymbol, Compare
  <2> QED
    BY <1>1, <1>12, <1>13, <2>1
<1>14. CASE Differs("y", "m")
  <2>1. Rule = ECmp("=", s, "n")
    BY <1>14 DEF AndRule, WithSymbol, Compare
  <2> QED
    BY <1>1, <1>12, <1>14, <2>1
<1>15. CASE Differs("m", "n")
  <2>1. Rule = ECmp("=", s, "y")
    BY <1>15 DEF AndRule, WithSymbol, Compare
  <2> QED
    BY <1>1, <1>12, <1>15, <2>1
<1>16. CASE /\ ~WithSymbol(e1, e2, "=", "y") /\ ~WithSymbol(e1, e2, "!=", "n")
            /\ ~WithSymbol(e1, e2, "!=", "m")
            /\ ~(tristate /\ Both(e1, e2)) /\ ~(tristate /\ Both(e2, e1))
            /\ ~Differs("y", "n") /\ ~Differs("y", "m") /\ ~Differs("m", "n")
  <2>1. Rule = ENull
    BY <1>16, Zenon DEF AndRule
  <2> QED
    BY <1>1, <2>1
<1> QED
  BY <1>6, <1>7, <1>8, <1>10, <1>11, <1>13, <1>14, <1>15, <1>16

-----------------------------------------------------------------------------
\* A program that is to write a file whose name the user may have given.
Saving == prog.tool # "none" /\ prog.at \in {"write", "keep", "install", "defconfig"}
\* What the user saves under another name leaves .config and .config.old
\* alone: it is neither of them, and nor is what rename makes of its name.
Apart ==
  Saving =>
    /\ prog.name # ".config.old"
    /\ prog.name # ".config" => Old(prog.name) \notin {".config", ".config.old"}
    /\ prog.at = "defconfig" => prog.name # ".config"

-----------------------------------------------------------------------------
\* Where the last configuration is that was saved whole, if there is one.
Holds(name) == name \in DOMAIN disk /\ disk[name] = hist.good
InConfig == hist.good = Nothing \/ Holds(".config")
InOld == hist.good = Nothing \/ Holds(".config.old")

\* The file that is written will be the last configuration saved whole.
Renews == prog.whole /\ ~hist.torn
\* .config is away: conf_write has renamed it, and not yet its new file.
Moving == Writes("install") /\ prog.name = ".config"
Writing == Writes("write") \/ Writes("keep")

\* The record of AtWork: a program that writes.
AtStep(r) ==
  r = [tool |-> r.tool, at |-> r.at, name |-> r.name, st |-> r.st, next |-> r.next,
       lines |-> r.lines, header |-> r.header, tristate |-> r.tristate, whole |-> r.whole,
       u |-> r.u, signal |-> r.signal]

\* The fields that the steps change.
Shapes ==
  /\ hist = [good |-> hist.good, from |-> hist.from, missed |-> hist.missed, torn |-> hist.torn]
  /\ left = [runs |-> left.runs, faults |-> left.faults]
  /\ left.faults \in Nat /\ left.faults <= MaxFaults
  /\ hist.torn \in BOOLEAN
  /\ prog.tool \in {"none", "conf", "mconf"}
  /\ prog.tool = "none" => prog = Idle
  /\ prog.tool # "none" /\ prog.at \notin {"asks", "shows"} =>
       AtStep(prog) /\ prog.whole \in BOOLEAN

\* .config is away, and .config.old the last configuration.
Away == ".config" \notin DOMAIN disk /\ InOld

\* Before the first fault, .config is the last configuration, and .config.old
\* while .config is away.
FirstFault ==
  left.faults = MaxFaults =>
    /\ ~hist.torn
    /\ Saving => prog.whole
    /\ IF Moving THEN Away ELSE InConfig

\* After it, one of the two is, unless a whole file is about to replace .config;
\* what a fault has spoiled replaces .config only when .config.old will be the
\* configuration then.
OneFault ==
  /\ Moving => Renews \/ InOld
  /\ ~Moving => InConfig \/ InOld
  /\ Writing /\ prog.name = ".config" /\ ~Renews => InConfig \/ Away

\* After a SIGINT in the message of conf_write or a failed rename, only
\* menuconfig goes on, and its next saving keeps the configuration.
Spoilt ==
  hist.torn /\ prog # Idle =>
    /\ prog.tool = "mconf"
    /\ prog.at \in {"shows", "write", "keep", "install"}
    /\ prog.at # "shows" => prog.whole
    /\ ~Moving => InConfig \/ Away

IInv ==
  /\ Shapes
  /\ left.faults >= MaxFaults - 1 => FirstFault /\ OneFault /\ Spoilt
-----------------------------------------------------------------------------
(* A program that was just begun, or goes on after a box or a question.    *)
Begun(r) ==
  /\ r.tool \in {"none", "conf", "mconf"}
  /\ r.tool = "none" => r = Idle
  /\ r.tool # "none" =>
       /\ r.at \in {"asks", "shows", "write", "defconfig", "split"}
       /\ r.at \notin {"asks", "shows"} => AtStep(r) /\ r.whole = TRUE

Menuconfig(r) == r.tool # "none" => r.tool = "mconf" /\ r.at \in {"shows", "write"}

LEMMA MconfBegins ==
  ASSUME NEW u, NEW signal
  PROVE  Begun(MconfGoesOn(u, signal)) /\ Menuconfig(MconfGoesOn(u, signal))
<1> DEFINE work == AtWork("mconf", "write", u.write, u.st, "menu", u, signal)
           wait == [tool |-> "mconf", at |-> "shows", u |-> u, signal |-> signal]
<1>1. Begun(Idle) /\ Menuconfig(Idle)
  BY DEF Begun, Menuconfig, Idle
<1>2. Begun(work) /\ Menuconfig(work)
  BY DEF AtWork, Begun, Menuconfig, AtStep
<1>3. Begun(wait) /\ Menuconfig(wait)
  BY DEF Begun, Menuconfig
<1>4. MconfGoesOn(u, signal) \in {Idle, work, wait}
  BY DEF MconfGoesOn
<1>5. QED
  BY <1>1, <1>2, <1>3, <1>4

LEMMA AtWorkBegins ==
  ASSUME NEW at \in {"write", "defconfig", "split"}, NEW name, NEW st, NEW next
  PROVE  Begun(ConfAtWork(at, name, st, next)) /\ ConfAtWork(at, name, st, next).tool = "conf"
BY DEF ConfAtWork, AtWork, Begun, AtStep

LEMMA ConfBegins ==
  ASSUME NEW c, NEW file
  PROVE  /\ Begun(ConfGoesOn(c, file))
         /\ ConfGoesOn(c, file).tool \in {"none", "conf"}
<1>1. Begun(Idle) /\ Idle.tool = "none"
  BY DEF Begun, Idle
<1>2. Begun(Finish(c, file)) /\ Finish(c, file).tool \in {"none", "conf"}
  BY <1>1, AtWorkBegins DEF Finish
<1>3. Begun([tool |-> "conf", at |-> "asks", c |-> c, file |-> file])
  BY DEF Begun
<1>4. QED
  BY <1>1, <1>2, <1>3 DEF ConfGoesOn

-----------------------------------------------------------------------------
\* Shapes of hist' and left', for the lemmas below.
HistShape == /\ hist' = [good |-> hist'.good, from |-> hist'.from, missed |-> hist'.missed,
                         torn |-> hist'.torn]
             /\ hist'.torn \in BOOLEAN
LeftShape == left' = [runs |-> left'.runs, faults |-> left'.faults]

(* Steps that leave the disk as it is and begin something, or nothing.     *)
LEMMA BeginStep ==
  ASSUME IInv, ~Moving, Begun(prog'), disk' = disk, HistShape, LeftShape,
         hist'.good = hist.good, left'.faults = left.faults,
         hist'.torn => hist.torn,
         hist'.torn /\ prog' # Idle => prog # Idle /\ Menuconfig(prog')
  PROVE  IInv'
<1>1. /\ left.faults \in Nat /\ left.faults <= MaxFaults
      /\ hist.torn \in BOOLEAN
  BY DEF IInv, Shapes
<1>2. Shapes'
  BY <1>1, Zenon DEF Shapes, Begun, HistShape, LeftShape, AtStep
<1>3. (InConfig' <=> InConfig) /\ (InOld' <=> InOld) /\ (Away' <=> Away)
  BY DEF InConfig, InOld, Away, Holds
<1>4. ~Moving' /\ ~Writes("keep")' /\ (Saving' => prog'.whole = TRUE)
  BY DEF Begun, Moving, Writes, Saving
<1>5. SUFFICES ASSUME left'.faults >= MaxFaults - 1
               PROVE  FirstFault' /\ OneFault' /\ Spoilt'
  BY <1>2 DEF IInv
<1>6. FirstFault /\ OneFault /\ Spoilt
  BY <1>5 DEF IInv
<1>7. FirstFault'
  <2>1. SUFFICES ASSUME left.faults = MaxFaults
                 PROVE  ~hist'.torn /\ (Saving' => prog'.whole) /\ ~Moving' /\ InConfig'
    BY DEF FirstFault
  <2>2. ~hist.torn /\ InConfig
    BY <1>6, <2>1 DEF FirstFault
  <2>3. QED
    BY <1>3, <1>4, <2>2, HistShape, Zenon DEF HistShape
<1>8. Spoilt'
  <2>1. SUFFICES ASSUME hist'.torn, prog' # Idle
                 PROVE  /\ prog'.tool = "mconf"
                        /\ prog'.at \in {"shows", "write"}
                        /\ prog'.at # "shows" => prog'.whole
                        /\ InConfig' \/ Away'
    BY DEF Spoilt
  <2>2. InConfig \/ Away
    BY <1>6, <2>1 DEF Spoilt
  <2>3. prog'.tool # "none"
    BY <2>1 DEF Begun
  <2>4. QED
    BY <1>3, <2>1, <2>2, <2>3 DEF Menuconfig, Begun
<1>9. OneFault'
  <2>1. InConfig \/ InOld
    BY <1>6 DEF OneFault
  <2>2. ASSUME Writing', ~Renews' PROVE InConfig' \/ Away'
    <3>1. Writes("write")' /\ prog'.tool # "none" /\ prog' # Idle /\ Saving'
      BY <2>2, <1>4 DEF Writing, Writes, Saving, Idle
    <3>2. hist'.torn
      BY <1>4, <2>2, <3>1 DEF Renews
    <3>3. QED
      BY <1>3, <1>6, <3>1, <3>2 DEF Spoilt
  <2>3. QED
    BY <1>3, <1>4, <2>1, <2>2 DEF OneFault
<1>10. QED
  BY <1>7, <1>8, <1>9

(* Steps that use up a fault and leave the disk as it is: the first fault. *)
LEMMA FaultStep ==
  ASSUME IInv, Begun(prog'), disk' = disk, HistShape, LeftShape,
         hist'.good = hist.good, left'.faults = left.faults - 1, left'.faults \in Nat,
         prog' # Idle => Menuconfig(prog')
  PROVE  IInv'
<1>1. /\ left.faults \in Nat /\ left.faults <= MaxFaults
      /\ hist.torn \in BOOLEAN
  BY DEF IInv, Shapes
<1>2. Shapes'
  <2>1. left'.faults <= MaxFaults
    BY <1>1, BoundAssumption
  <2>2. QED
    BY <2>1, Zenon DEF Shapes, Begun, HistShape, LeftShape, AtStep
<1>3. (InConfig' <=> InConfig) /\ (InOld' <=> InOld) /\ (Away' <=> Away)
  BY DEF InConfig, InOld, Away, Holds
<1>4. ~Moving' /\ ~Writes("keep")' /\ (Saving' => prog'.whole = TRUE)
  BY DEF Begun, Moving, Writes, Saving
<1>5. SUFFICES ASSUME left'.faults >= MaxFaults - 1
               PROVE  FirstFault' /\ OneFault' /\ Spoilt'
  BY <1>2 DEF IInv
<1>6. left.faults = MaxFaults /\ left'.faults # MaxFaults
  BY <1>1, <1>5, BoundAssumption
<1>7. InConfig \/ Away
  BY <1>1, <1>6, BoundAssumption DEF IInv, FirstFault
<1>8. FirstFault'
  BY <1>6 DEF FirstFault
<1>9. (InConfig' \/ Away') /\ (prog' # Idle => prog'.tool # "none")
  BY <1>3, <1>7 DEF Begun
<1>10. Spoilt'
  BY <1>9 DEF Spoilt, Menuconfig, Begun
<1>11. OneFault'
  <2>1. Writing' => prog' # Idle
    BY DEF Writing, Writes, Idle
  <2>2. QED
    BY <1>3, <1>4, <1>7, <1>9, <2>1, Zenon DEF OneFault, Away
<1>12. QED
  BY <1>8, <1>10, <1>11

(* Steps of the other writers, which leave .config and .config.old alone.  *)
Other(r) ==
  \/ r = Idle
  \/ /\ r.tool \in {"conf", "mconf"}
     /\ r.at \in {"split", "touch", "header", "tristate", "auto"}
     /\ AtStep(r) /\ r.whole \in BOOLEAN

LEMMA OtherStep ==
  ASSUME IInv, prog.tool # "none", prog.at \notin {"asks", "shows", "write", "keep", "install"},
         Other(prog'), hist' = hist, LeftShape, left'.faults \in Nat, left'.faults <= left.faults,
         \A f \in {".config", ".config.old"} :
            (f \in DOMAIN disk' <=> f \in DOMAIN disk) /\ (f \in DOMAIN disk => disk'[f] = disk[f])
  PROVE  IInv'
<1>1. /\ left.faults \in Nat /\ left.faults <= MaxFaults
      /\ hist.torn \in BOOLEAN /\ HistShape
  BY DEF IInv, Shapes, HistShape
<1>2. Shapes'
  <2>1. left'.faults <= MaxFaults
    BY <1>1, BoundAssumption
  <2>2. prog'.tool = "none" => prog' = Idle
    BY DEF Other
  <2>3. prog'.tool \in {"none", "conf", "mconf"}
    BY DEF Other, Idle
  <2>4. prog'.tool # "none" => AtStep(prog') /\ prog'.whole \in BOOLEAN
    BY DEF Other, Idle
  <2>5. QED
    BY <1>1, <2>1, <2>2, <2>3, <2>4, Zenon DEF Shapes, HistShape, LeftShape, AtStep
<1>3. (InConfig' <=> InConfig) /\ (InOld' <=> InOld) /\ (Away' <=> Away)
  BY DEF InConfig, InOld, Away, Holds
<1>4. ~Moving /\ ~Moving' /\ ~Writing' /\ ~Saving' /\ prog # Idle
  BY DEF Other, Moving, Writing, Writes, Saving, Idle
<1>5. SUFFICES ASSUME left'.faults >= MaxFaults - 1
               PROVE  FirstFault' /\ OneFault' /\ Spoilt'
  BY <1>2 DEF IInv
<1>6. FirstFault /\ OneFault /\ Spoilt /\ (left'.faults = MaxFaults => left.faults = MaxFaults)
  BY <1>1, <1>5, BoundAssumption DEF IInv
<1>7. ~hist.torn
  BY <1>4, <1>6 DEF Spoilt
<1>8. QED
  BY <1>3, <1>4, <1>6, <1>7, Zenon DEF FirstFault, OneFault, Spoilt

-----------------------------------------------------------------------------
(* The steps, one by one.                                                  *)
LEMMA StartStep == ASSUME IInv, StartConf \/ StartMconf PROVE IInv'
<1>1. prog = Idle /\ prog.tool = "none" /\ ~Moving
  <2>1. prog = Idle
    BY DEF StartConf, StartMconf
  <2>2. QED
    BY <2>1 DEF Idle, Moving, Writes
<1>2. Begun(prog')
  <2>1. CASE StartConf
    <3>1. PICK s \in Starts[tree.name] : prog' = ConfGoesOn(conf_main(DB, disk, s), s.file)
      BY <2>1 DEF StartConf
    <3>2. QED
      BY <3>1, ConfBegins
  <2>2. CASE StartMconf
    <3>1. PICK single \in Menus[tree.name] : prog' = MconfGoesOn(mconf_main(DB, disk, single), FALSE)
      BY <2>2 DEF StartMconf
    <3>2. QED
      BY <3>1, MconfBegins
  <2>3. QED
    BY <2>1, <2>2
<1>3. /\ hist = [good |-> hist.good, from |-> hist.from, missed |-> hist.missed, torn |-> hist.torn]
      /\ left = [runs |-> left.runs, faults |-> left.faults]
  BY DEF IInv, Shapes
<1>4. hist' = [hist EXCEPT !.missed = FALSE, !.torn = FALSE] /\ left' = [left EXCEPT !.runs = @ - 1]
  BY DEF StartConf, StartMconf
<1>5. HistShape /\ hist'.good = hist.good /\ hist'.torn = FALSE
  BY <1>3, <1>4 DEF HistShape
<1>6. LeftShape /\ left'.faults = left.faults
  BY <1>3, <1>4 DEF LeftShape
<1>7. disk' = disk
  BY DEF StartConf, StartMconf
<1>8. QED
  BY <1>1, <1>2, <1>5, <1>6, <1>7, BeginStep

LEMMA AnswerStep == ASSUME IInv, Answer PROVE IInv'
<1>1. prog.tool = "conf" /\ prog.at = "asks" /\ \E c : GoOn(c)
  BY DEF Answer, AnswerYesNo, AnswerValue, AnswerChoice, Random, Asks
<1>2. Begun(prog') /\ disk' = disk /\ hist' = hist /\ left' = left
  BY <1>1, ConfBegins DEF GoOn
<1>3. ~Moving /\ prog # Idle
  BY <1>1 DEF Moving, Writes, Idle
<1>4. HistShape /\ LeftShape
  BY <1>2 DEF IInv, Shapes, HistShape, LeftShape
<1>5. CASE ~hist.torn
  BY <1>2, <1>3, <1>4, <1>5, BeginStep
<1>6. CASE hist.torn
  <2>1. ~(left.faults >= MaxFaults - 1)
    BY <1>1, <1>3, <1>6 DEF IInv, Spoilt
  <2>2. Shapes'
    BY <1>2 DEF IInv, Shapes, Begun
  <2>3. QED
    BY <1>2, <2>1, <2>2 DEF IInv
<1>7. QED
  BY <1>5, <1>6

LEMMA UpdateStep == ASSUME IInv, Update \/ UNCHANGED vars PROVE IInv'
<1>1. UNCHANGED <<disk, prog, touched, hist, left>>
  BY DEF Update, vars
<1>2. QED
  BY <1>1 DEF IInv, Shapes, FirstFault, OneFault, Spoilt, InConfig, InOld, Away, Holds, Renews, Moving,
     Writing, Writes, Saving, AtStep, Idle, Nothing

LEMMA PressStep == ASSUME IInv, PressKey PROVE IInv'
<1>1. prog.tool = "mconf" /\ prog.at = "shows" /\ disk' = disk /\ left' = left /\ \E v : Becomes(v)
  BY DEF PressKey, Shows
<1>2. PICK v : Becomes(v)
  BY <1>1
<1>3. Begun(prog') /\ Menuconfig(prog')
  BY <1>2, MconfBegins DEF Becomes
<1>4. hist = [good |-> hist.good, from |-> hist.from, missed |-> hist.missed, torn |-> hist.torn]
      /\ hist.torn \in BOOLEAN
  BY DEF IInv, Shapes
<1>5. HistShape /\ hist'.good = hist.good /\ hist'.torn = hist.torn
  BY <1>2, <1>4 DEF Becomes, HistShape
<1>6. LeftShape
  BY <1>1 DEF IInv, Shapes, LeftShape
<1>7. ~Moving /\ prog # Idle
  BY <1>1 DEF Moving, Writes, Idle
<1> QED
  BY <1>1, <1>3, <1>5, <1>6, <1>7, BeginStep

LEMMA CrashStep == ASSUME IInv, Crash PROVE IInv'
<1>1. /\ left = [runs |-> left.runs, faults |-> left.faults] /\ left.faults \in Nat
      /\ hist = [good |-> hist.good, from |-> hist.from, missed |-> hist.missed, torn |-> hist.torn]
      /\ hist.torn \in BOOLEAN
  BY DEF IInv, Shapes
<1>2. /\ prog' = Idle /\ left.faults > 0 /\ left' = [left EXCEPT !.faults = @ - 1]
      /\ disk' = disk /\ hist' = hist
  BY DEF Crash
<1>3. LeftShape /\ left'.faults = left.faults - 1
  BY <1>1, <1>2 DEF LeftShape
<1>4. left'.faults \in Nat
  BY <1>1, <1>2, <1>3
<1>5. HistShape /\ hist'.good = hist.good
  BY <1>1, <1>2 DEF HistShape
<1>6. Begun(prog')
  BY <1>2 DEF Begun, Idle
<1>7. QED
  BY <1>2, <1>3, <1>4, <1>5, <1>6, FaultStep

LEMMA SigintStep == ASSUME IInv, Sigint PROVE IInv'
<1> DEFINE torn == \E i \in DOMAIN prog.u.stack : prog.u.stack[i][1] = "saved"
<1>1. /\ Shows /\ ~prog.signal /\ (torn => left.faults > 0)
      /\ prog' = MconfGoesOn(mconf_signal(DB, prog.u, disk), TRUE)
      /\ hist' = [hist EXCEPT !.torn = @ \/ torn]
      /\ left' = IF ~torn THEN left ELSE [left EXCEPT !.faults = @ - 1]
      /\ disk' = disk
  BY DEF Sigint, Spend
<1>2. torn \in BOOLEAN
  OBVIOUS
<1> HIDE DEF torn
<1>3. /\ left = [runs |-> left.runs, faults |-> left.faults] /\ left.faults \in Nat
      /\ hist = [good |-> hist.good, from |-> hist.from, missed |-> hist.missed, torn |-> hist.torn]
      /\ hist.torn \in BOOLEAN
  BY DEF IInv, Shapes
<1>4. Begun(prog') /\ Menuconfig(prog') /\ ~Moving /\ prog # Idle
  <2>1. Begun(prog') /\ Menuconfig(prog')
    BY <1>1, MconfBegins
  <2>2. prog.tool = "mconf" /\ prog.at = "shows"
    BY <1>1 DEF Shows
  <2>3. ~Moving /\ prog # Idle
    BY <2>2 DEF Moving, Writes, Idle
  <2>4. QED
    BY <2>1, <2>3
<1>5. HistShape /\ hist'.good = hist.good /\ hist'.torn = (hist.torn \/ torn)
  BY <1>1, <1>2, <1>3 DEF HistShape
<1>6. CASE ~torn
  <2>1. LeftShape /\ left'.faults = left.faults
    BY <1>1, <1>3, <1>6 DEF LeftShape
  <2>2. QED
    BY <1>1, <1>4, <1>5, <1>6, <2>1, BeginStep
<1>7. CASE torn
  <2>1. LeftShape /\ left'.faults = left.faults - 1
    BY <1>1, <1>3, <1>7 DEF LeftShape
  <2>2. left'.faults \in Nat
    BY <1>1, <1>3, <1>7, <2>1
  <2>3. QED
    BY <1>1, <1>4, <1>5, <2>1, <2>2, FaultStep
<1>8. QED
  BY <1>6, <1>7

LEMMA OutcomesAre ==
  ASSUME NEW lines, NEW o \in Outcomes(lines)
  PROVE  o.whole \in BOOLEAN /\ (~o.whole => left.faults # 0)
<1>1. CASE o = [lines |-> lines, whole |-> TRUE]
  BY <1>1
<1>2. CASE o # [lines |-> lines, whole |-> TRUE]
  <2>1. left.faults # 0
    BY <1>2 DEF Outcomes
  <2>2. PICK n \in {0, Len(lines) - 1} \ {-1} : o = [lines |-> SubSeq(lines, 1, n), whole |-> FALSE]
    BY <1>2, <2>1 DEF Outcomes
  <2>3. QED
    BY <2>1, <2>2
<1>3. QED
  BY <1>1, <1>2

LEMMA SpendIs ==
  ASSUME IInv, NEW whole \in BOOLEAN, ~whole => left.faults # 0, Spend(whole)
  PROVE  /\ LeftShape /\ left'.faults \in Nat
         /\ left'.faults = IF whole THEN left.faults ELSE left.faults - 1
<1>1. left = [runs |-> left.runs, faults |-> left.faults] /\ left.faults \in Nat
  BY DEF IInv, Shapes
<1>2. CASE whole
  BY <1>1, <1>2 DEF Spend, LeftShape
<1>3. CASE ~whole
  <2>1. LeftShape /\ left'.faults = left.faults - 1
    BY <1>1, <1>3 DEF Spend, LeftShape
  <2>2. QED
    BY <1>1, <1>3, <2>1
<1>4. QED
  BY <1>2, <1>3

LEMMA SpendFault ==
  ASSUME IInv, left.faults > 0, Spend(FALSE)
  PROVE  LeftShape /\ left'.faults \in Nat /\ left'.faults = left.faults - 1
<1>1. left = [runs |-> left.runs, faults |-> left.faults] /\ left.faults \in Nat
  BY DEF IInv, Shapes
<1>2. LeftShape /\ left'.faults = left.faults - 1
  BY <1>1 DEF Spend, LeftShape
<1> QED
  BY <1>1, <1>2

LEMMA PutOther ==
  ASSUME NEW name, NEW lines, name \notin {".config", ".config.old"}, disk' = Put(name, lines)
  PROVE  \A f \in {".config", ".config.old"} :
            (f \in DOMAIN disk' <=> f \in DOMAIN disk) /\ (f \in DOMAIN disk => disk'[f] = disk[f])
BY DEF Put

LEMMA DefconfigStep == ASSUME IInv, Apart, SaveDefconfig PROVE IInv'
<1>1. PICK o \in Outcomes(conf_write_defconfig(DB, prog.st).lines) :
         disk' = Put(prog.name, o.lines) /\ Spend(o.whole)
  BY DEF SaveDefconfig
<1>2. prog.tool # "none" /\ prog.at = "defconfig" /\ prog' = Idle /\ hist' = hist
  BY DEF SaveDefconfig, Writes
<1>3. prog.name \notin {".config", ".config.old"}
  BY <1>2 DEF Apart, Saving
<1>4. o.whole \in BOOLEAN /\ (~o.whole => left.faults # 0)
  BY OutcomesAre
<1>5. LeftShape /\ left'.faults \in Nat /\ left'.faults = IF o.whole THEN left.faults ELSE left.faults - 1
  BY <1>1, <1>4, SpendIs
<1>6. left'.faults <= left.faults
  BY <1>4, <1>5 DEF IInv, Shapes
<1>7. Other(prog')
  BY <1>2 DEF Other
<1>8. QED
  BY <1>1, <1>2, <1>3, <1>5, <1>6, <1>7, PutOther, OtherStep

LEMMA AutoStep == ASSUME IInv, AutoConf PROVE IInv'
<1> DEFINE SameDisk ==
        \A f \in {".config", ".config.old"} :
            (f \in DOMAIN disk' <=> f \in DOMAIN disk) /\ (f \in DOMAIN disk => disk'[f] = disk[f])
<1>1. left.faults \in Nat /\ left = [runs |-> left.runs, faults |-> left.faults]
  BY DEF IInv, Shapes
<1>2. left' = left => LeftShape /\ left'.faults \in Nat /\ left'.faults <= left.faults
  BY <1>1 DEF LeftShape
<1>3. prog.tool # "none" /\ prog.at \in {"split", "touch", "header", "tristate", "auto"} /\ hist' = hist
  <2>1. CASE Split \/ Touch
    BY <2>1 DEF Split, Touch, Writes
  <2>2. CASE WriteNew
    BY <2>2 DEF WriteNew, Writes
  <2>3. CASE InstallHeader \/ InstallTristate \/ InstallAuto
    BY <2>3 DEF InstallHeader, InstallTristate, InstallAuto, Writes
  <2>4. QED
    BY <2>1, <2>2, <2>3 DEF AutoConf
<1>4. prog.tool \in {"conf", "mconf"} /\ AtStep(prog) /\ prog.whole \in BOOLEAN
  BY <1>3 DEF IInv, Shapes
<1>5. disk' = disk => SameDisk
  OBVIOUS
<1> HIDE DEF SameDisk
<1>6. CASE Split
  <2>1. prog' = [prog EXCEPT !.at = "touch", !.st = prog'.st, !.lines = prog'.lines]
    BY <1>4, <1>6 DEF Split, AtStep
  <2>2. Other(prog')
    BY <1>4, <2>1 DEF Other, AtStep
  <2>3. QED
    BY <1>2, <1>3, <1>5, <1>6, <2>2, OtherStep DEF Split, SameDisk
<1>7. CASE Touch
  <2>1. Other(prog')
    BY <1>3, <1>4, <1>7 DEF Touch, Other, AtStep
  <2>2. QED
    BY <1>2, <1>3, <1>5, <1>7, <2>1, OtherStep DEF Touch, SameDisk
<1>8. CASE WriteNew
  <2> DEFINE w == conf_write_autoconf(DB, prog.st)
  <2>1. PICK o \in Outcomes(w.auto) :
           /\ prog' = [prog EXCEPT !.at = "header", !.whole = o.whole, !.lines = o.lines,
                                   !.header = w.header, !.tristate = w.tristate,
                                   !.st = [w.st EXCEPT !.ret = No]]
           /\ Spend(o.whole)
    BY <1>8 DEF WriteNew
  <2>2. o.whole \in BOOLEAN /\ (~o.whole => left.faults # 0)
    BY OutcomesAre
  <2>3. Other(prog')
    BY <1>4, <2>1, <2>2 DEF Other, AtStep
  <2>4. LeftShape /\ left'.faults \in Nat /\ left'.faults = IF o.whole THEN left.faults ELSE left.faults - 1
    BY <2>1, <2>2, SpendIs
  <2>5. left'.faults <= left.faults
    BY <1>1, <2>2, <2>4
  <2>6. disk' = disk
    BY <1>8 DEF WriteNew
  <2>7. QED
    BY <1>3, <1>5, <2>3, <2>4, <2>5, <2>6, OtherStep DEF SameDisk
<1>9. CASE InstallHeader
  <2>1. Other(prog')
    BY <1>4, <1>9 DEF InstallHeader, Other, AtStep
  <2>2. SameDisk
    BY <1>9, PutOther DEF InstallHeader, SameDisk
  <2>3. QED
    BY <1>2, <1>3, <1>9, <2>1, <2>2, OtherStep DEF InstallHeader, SameDisk
<1>10. CASE InstallTristate
  <2>1. Other(prog')
    BY <1>4, <1>10 DEF InstallTristate, Other, AtStep
  <2>2. SameDisk
    BY <1>10, PutOther DEF InstallTristate, SameDisk
  <2>3. QED
    BY <1>2, <1>3, <1>10, <2>1, <2>2, OtherStep DEF InstallTristate, SameDisk
<1>11. CASE InstallAuto
  <2>1. Other(prog')
    BY <1>11 DEF InstallAuto, Other
  <2>2. SameDisk
    BY <1>11, PutOther DEF InstallAuto, SameDisk
  <2>3. QED
    BY <1>2, <1>3, <1>11, <2>1, <2>2, OtherStep DEF InstallAuto, SameDisk
<1>12. QED
  BY <1>6, <1>7, <1>8, <1>9, <1>10, <1>11 DEF AutoConf

LEMMA WriteTmpStep == ASSUME IInv, WriteTmp PROVE IInv'
<1> DEFINE w == conf_write(DB, prog.st)
<1>1. PICK o \in Outcomes(w.lines) :
         /\ prog' = [prog EXCEPT !.at = "keep", !.lines = o.lines, !.whole = o.whole,
                                 !.st = [w.st EXCEPT !.ret = No]]
         /\ Spend(o.whole)
  BY DEF WriteTmp
<1>2. o.whole \in BOOLEAN /\ (~o.whole => left.faults # 0)
  BY OutcomesAre
<1>3. LeftShape /\ left'.faults \in Nat /\ left'.faults = IF o.whole THEN left.faults ELSE left.faults - 1
  BY <1>1, <1>2, SpendIs
<1>4. /\ left.faults \in Nat /\ left.faults <= MaxFaults
      /\ hist = [good |-> hist.good, from |-> hist.from, missed |-> hist.missed, torn |-> hist.torn]
      /\ hist.torn \in BOOLEAN
  BY DEF IInv, Shapes
<1>5. prog.tool # "none" /\ prog.at = "write" /\ disk' = disk /\ hist' = hist
  BY DEF WriteTmp, Writes
<1>6. AtStep(prog) /\ prog.tool \in {"conf", "mconf"}
  BY <1>5 DEF IInv, Shapes
<1>7. /\ AtStep(prog') /\ prog'.tool = prog.tool /\ prog'.at = "keep" /\ prog'.whole = o.whole
      /\ prog'.name = prog.name /\ prog'.next = prog.next /\ prog'.signal = prog.signal
  BY <1>1, <1>6 DEF AtStep
<1>8. Shapes'
  <2>1. left'.faults <= MaxFaults
    BY <1>2, <1>3, <1>4, BoundAssumption
  <2>2. prog'.tool \in {"none", "conf", "mconf"} /\ prog'.tool # "none"
    BY <1>6, <1>7
  <2>3. hist' = [good |-> hist'.good, from |-> hist'.from, missed |-> hist'.missed, torn |-> hist'.torn]
    BY <1>4, <1>5
  <2>4. left' = [runs |-> left'.runs, faults |-> left'.faults]
    BY <1>3 DEF LeftShape
  <2>5. prog'.whole \in BOOLEAN /\ left'.faults \in Nat
    BY <1>2, <1>3, <1>7
  <2>6. hist'.torn \in BOOLEAN
    BY <1>4, <1>5
  <2> QED
    BY <1>7, <2>1, <2>2, <2>3, <2>4, <2>5, <2>6, Zenon DEF Shapes
<1>9. (InConfig' <=> InConfig) /\ (InOld' <=> InOld) /\ (Away' <=> Away)
  BY <1>5 DEF InConfig, InOld, Away, Holds
<1>10. /\ ~Moving /\ ~Moving' /\ Writing /\ Writing' /\ Saving' /\ Saving
       /\ prog # Idle /\ prog' # Idle
  BY <1>5, <1>6, <1>7 DEF Moving, Writing, Writes, Saving, Idle
<1>11. SUFFICES ASSUME left'.faults >= MaxFaults - 1
                PROVE  FirstFault' /\ OneFault' /\ Spoilt'
  BY <1>8 DEF IInv
<1>12. /\ FirstFault /\ OneFault /\ Spoilt
       /\ ~o.whole => left.faults = MaxFaults /\ left'.faults # MaxFaults
       /\ left'.faults = MaxFaults => left.faults = MaxFaults /\ o.whole
  BY <1>2, <1>3, <1>4, <1>11, BoundAssumption DEF IInv
<1>13. InConfig \/ InOld
  BY <1>10, <1>12, Zenon DEF OneFault
<1>14. (left.faults = MaxFaults => InConfig) /\ (hist.torn => InConfig \/ Away)
  BY <1>10, <1>12, Zenon DEF FirstFault, Spoilt
<1>15. FirstFault'
  BY <1>5, <1>7, <1>9, <1>10, <1>12, <1>14, Zenon DEF FirstFault
<1>16. OneFault'
  <2>1. ~Renews' => ~o.whole \/ hist.torn
    BY <1>5, <1>7, Zenon DEF Renews
  <2>2. QED
    BY <1>9, <1>10, <1>12, <1>13, <1>14, <2>1, Zenon DEF OneFault
<1>17. Spoilt'
  <2>1. SUFFICES ASSUME hist.torn
                 PROVE  prog.tool = "mconf" /\ o.whole /\ (InConfig \/ Away)
    BY <1>5, <1>7, <1>9 DEF Spoilt
  <2>2. prog.tool = "mconf" /\ (InConfig \/ Away)
    BY <1>5, <1>10, <1>12, <1>14, <2>1 DEF Spoilt
  <2>3. ~(left.faults = MaxFaults)
    BY <1>12, <2>1 DEF FirstFault
  <2>4. QED
    BY <1>2, <1>12, <2>2, <2>3
<1>18. QED
  BY <1>15, <1>16, <1>17

\* conf_write goes on to its last rename, whether or not the old file is kept.
LEMMA KeepOldGoesOn ==
  ASSUME IInv, KeepOld
  PROVE  /\ prog.tool # "none" /\ prog.at = "keep" /\ hist' = hist
         /\ AtStep(prog') /\ prog'.tool = prog.tool /\ prog'.at = "install"
         /\ prog'.whole = prog.whole /\ prog'.name = prog.name
         /\ prog.tool \in {"conf", "mconf"} /\ prog.whole \in BOOLEAN
         /\ ~Moving /\ ~Writing' /\ Writing /\ Saving' /\ Saving /\ prog # Idle /\ prog' # Idle
         /\ Moving' <=> prog.name = ".config"
<1>1. prog.tool # "none" /\ prog.at = "keep" /\ hist' = hist /\ prog' = [prog EXCEPT !.at = "install"]
  BY DEF KeepOld, Writes
<1>2. AtStep(prog) /\ prog.tool \in {"conf", "mconf"} /\ prog.whole \in BOOLEAN
  BY <1>1 DEF IInv, Shapes
<1>3. /\ AtStep(prog') /\ prog'.tool = prog.tool /\ prog'.at = "install"
      /\ prog'.whole = prog.whole /\ prog'.name = prog.name
  BY <1>1, <1>2 DEF AtStep
<1>4. /\ ~Moving /\ ~Writing' /\ Writing /\ Saving' /\ Saving /\ prog # Idle /\ prog' # Idle
      /\ Moving' <=> prog.name = ".config"
  BY <1>1, <1>2, <1>3 DEF Moving, Writing, Writes, Saving, Idle
<1> QED
  BY <1>1, <1>2, <1>3, <1>4

LEMMA KeepOldStep == ASSUME IInv, Apart, KeepOld PROVE IInv'
<1> DEFINE kept == IF prog.name \in DOMAIN disk THEN Renamed(prog.name, Old(prog.name)) ELSE disk
<1>1. \/ disk' = kept /\ left' = left
      \/ disk' = disk /\ left.faults > 0 /\ Spend(FALSE)
  BY DEF KeepOld
<1>2. prog.name # ".config.old" /\ (prog.name # ".config" => Old(prog.name) \notin {".config", ".config.old"})
  BY KeepOldGoesOn DEF Apart
<1>3. Shapes /\ left.faults \in Nat /\ left.faults <= MaxFaults /\ hist.torn \in BOOLEAN
  BY DEF IInv, Shapes
<1>4. LeftShape /\ left'.faults \in Nat /\ left'.faults <= MaxFaults
      /\ (left'.faults = left.faults \/ (left'.faults = left.faults - 1 /\ disk' = disk))
  <2>1. CASE left' = left
    <3>1. left = [runs |-> left.runs, faults |-> left.faults]
      BY <1>3 DEF Shapes
    <3>2. LeftShape
      BY <2>1, <3>1, Zenon DEF LeftShape
    <3> QED BY <1>3, <2>1, <3>2
  <2>2. CASE disk' = disk /\ left.faults > 0 /\ Spend(FALSE)
    <3>1. LeftShape /\ left'.faults \in Nat /\ left'.faults = left.faults - 1
      BY <2>2, SpendFault
    <3> QED BY <1>3, <2>2, <3>1, BoundAssumption
  <2> QED BY <1>1, <2>1, <2>2
<1>5. Shapes'
  BY <1>3, <1>4, KeepOldGoesOn, Zenon DEF Shapes, LeftShape
<1>6. disk' \in {disk, kept}
  BY <1>1
<1>7. ASSUME prog.name # ".config"
      PROVE  (InConfig' <=> InConfig) /\ (InOld' <=> InOld) /\ (Away' <=> Away)
  BY <1>2, <1>6, <1>7, KeepOldGoesOn DEF InConfig, InOld, Away, Holds, Renamed
<1>8. ASSUME prog.name = ".config", InConfig \/ Away, disk' = kept PROVE Away'
  BY <1>8, KeepOldGoesOn, NameAssumption DEF InConfig, InOld, Away, Holds, Renamed
<1>9. SUFFICES ASSUME left'.faults >= MaxFaults - 1
               PROVE  FirstFault' /\ OneFault' /\ Spoilt'
  BY <1>5 DEF IInv
<1>10. FirstFault /\ OneFault /\ Spoilt
  BY <1>3, <1>4, <1>9, BoundAssumption DEF IInv
<1>11. (Renews' <=> Renews) /\ (hist.torn => ~Renews)
  BY KeepOldGoesOn DEF Renews
<1>12. CASE left'.faults = left.faults
  <2>1. disk' = kept
    <3>1. CASE left.faults > 0 /\ Spend(FALSE)
      BY <1>3, <1>12, <3>1, SpendFault
    <3> QED BY <1>1, <3>1
  <2>2. FirstFault'
    BY <1>7, <1>8, <1>10, <1>12, <2>1, KeepOldGoesOn, Zenon DEF FirstFault
  <2>3. OneFault'
    BY <1>7, <1>8, <1>10, <1>11, <2>1, KeepOldGoesOn, Zenon DEF OneFault, Away
  <2>4. Spoilt'
    BY <1>7, <1>10, KeepOldGoesOn DEF Spoilt
  <2> QED BY <2>2, <2>3, <2>4
<1>13. CASE left'.faults = left.faults - 1 /\ disk' = disk
  <2>1. left.faults = MaxFaults /\ left'.faults # MaxFaults
    BY <1>3, <1>9, <1>13, BoundAssumption
  <2>2. InConfig /\ Renews
    BY <1>10, <2>1, KeepOldGoesOn DEF FirstFault, Renews
  <2>3. InConfig'
    BY <1>13, <2>2, KeepOldGoesOn DEF InConfig, Holds
  <2>4. FirstFault' /\ OneFault' /\ Spoilt'
    BY <1>11, <2>1, <2>2, <2>3, KeepOldGoesOn, Zenon DEF FirstFault, OneFault, Spoilt
  <2> QED BY <2>4
<1> QED
  BY <1>4, <1>12, <1>13

\* conf_write returns 1: the fault is used up, and the disk is as it was.
LEMMA GivesUpStep == ASSUME IInv, CannotOpen \/ CannotRename PROVE IInv'
<1> DEFINE u == mconf_written(DB, [prog.u EXCEPT !.st = prog.st], FALSE, disk)
<1>1. GivesUp /\ prog' \in {MconfGoesOn(u, FALSE), Idle}
  BY DEF CannotOpen, CannotRename, GivesUp
<1>2. hist' = hist \/ hist' = [hist EXCEPT !.torn = TRUE]
  BY DEF CannotOpen, CannotRename
<1> HIDE DEF u
<1>3. /\ hist = [good |-> hist.good, from |-> hist.from, missed |-> hist.missed, torn |-> hist.torn]
      /\ hist.torn \in BOOLEAN /\ left.faults \in Nat
  BY DEF IInv, Shapes
<1>4. HistShape /\ hist'.good = hist.good
  <2>1. CASE hist' = hist
    BY <1>3, <2>1, Zenon DEF HistShape
  <2>2. CASE hist' = [hist EXCEPT !.torn = TRUE]
    BY <1>3, <2>2 DEF HistShape
  <2> QED BY <1>2, <2>1, <2>2
<1>5. LeftShape /\ left'.faults \in Nat /\ left'.faults = left.faults - 1
  <2>1. left.faults > 0 /\ Spend(FALSE)
    BY <1>1 DEF GivesUp
  <2> QED BY <2>1, SpendFault
<1>6. Begun(prog') /\ Menuconfig(prog')
  <2>1. Begun(Idle) /\ Menuconfig(Idle)
    BY DEF Begun, Menuconfig, Idle
  <2> QED BY <1>1, <2>1, MconfBegins
<1>7. disk' = disk
  BY <1>1 DEF GivesUp
<1> QED
  BY <1>4, <1>5, <1>6, <1>7, FaultStep

LEMMA InstallGoesOn ==
  ASSUME IInv, Install
  PROVE  /\ prog'.tool \in {"none", "conf", "mconf"}
         /\ prog'.tool = "none" => prog' = Idle
         /\ prog'.tool # "none" =>
              /\ prog'.at \in {"shows", "write", "split"}
              /\ prog'.at # "shows" => AtStep(prog') /\ prog'.whole \in BOOLEAN
              /\ prog'.at = "write" => prog'.whole = TRUE
<1> DEFINE u == mconf_written(DB, [prog.u EXCEPT !.st = prog.st], TRUE, disk')
           goes == MconfGoesOn(u, FALSE)
           splits == [prog EXCEPT !.at = "split", !.st.changed = FALSE, !.lines = <<>>]
<1>1. prog' = CASE prog.next = "menu" /\ ~prog.signal -> goes
                [] prog.next = "split" -> splits
                [] OTHER -> Idle
  BY DEF Install
<1>2. Begun(goes) /\ Menuconfig(goes)
  BY MconfBegins
<1> HIDE DEF goes
<1>3. AtStep(prog) /\ prog.tool \in {"conf", "mconf"} /\ prog.whole \in BOOLEAN
  <2>1. prog.tool # "none" /\ prog.at = "install"
    BY DEF Install, Writes
  <2>2. QED
    BY <2>1 DEF IInv, Shapes
<1>4. /\ splits.tool = prog.tool /\ splits.at = "split" /\ splits.whole = prog.whole
      /\ AtStep(splits)
  <2> DEFINE st == [prog.st EXCEPT !.changed = FALSE]
  <2>1. splits = [prog EXCEPT !.at = "split", !.st = st, !.lines = <<>>]
    BY <1>3 DEF AtStep
  <2> HIDE DEF st, splits
  <2>2. QED
    BY <1>3, <2>1 DEF AtStep
<1> HIDE DEF splits
<1>5. CASE prog' = goes /\ ~prog.signal
  BY <1>2, <1>5 DEF Begun, Menuconfig
<1>6. CASE prog' = splits /\ prog.next = "split"
  BY <1>3, <1>4, <1>6 DEF AtStep
<1>7. CASE prog' = Idle
  BY <1>7 DEF Idle
<1>8. QED
  BY <1>1, <1>5, <1>6, <1>7

LEMMA InstallStep == ASSUME IInv, Apart, Install PROVE IInv'
<1> DEFINE renewed == prog.name = ".config" /\ prog.whole /\ ~hist.torn
<1>1. prog.tool # "none" /\ prog.at = "install" /\ left' = left /\ disk' = Put(prog.name, prog.lines)
  BY DEF Install, Writes
<1>2. hist' = IF renewed
              THEN [hist EXCEPT !.good = prog.lines, !.from = tree.name, !.missed = FALSE]
              ELSE [hist EXCEPT !.missed = ~prog.whole \/ hist.torn, !.torn = FALSE]
  BY DEF Install
<1>3. /\ prog.whole \in BOOLEAN /\ hist.torn \in BOOLEAN
      /\ hist = [good |-> hist.good, from |-> hist.from, missed |-> hist.missed, torn |-> hist.torn]
  BY <1>1 DEF IInv, Shapes
<1>4. /\ hist' = [good |-> hist'.good, from |-> hist'.from, missed |-> hist'.missed, torn |-> hist'.torn]
      /\ hist'.torn = FALSE
      /\ renewed => hist'.good = prog.lines
      /\ ~renewed => hist'.good = hist.good
  <2>1. CASE renewed
    BY <1>2, <1>3, <2>1
  <2>2. CASE ~renewed
    BY <1>2, <1>3, <2>2
  <2>3. QED
    BY <2>1, <2>2
<1>5. Shapes'
  <2>1. /\ prog'.tool \in {"none", "conf", "mconf"}
        /\ prog'.tool = "none" => prog' = Idle
        /\ prog'.tool # "none" /\ prog'.at \notin {"asks", "shows"} => AtStep(prog') /\ prog'.whole \in BOOLEAN
    BY InstallGoesOn
  <2>2. Shapes
    BY DEF IInv
  <2>3. QED
    BY <1>1, <1>3, <1>4, <2>1, <2>2, Zenon DEF Shapes
<1>6. /\ Saving /\ prog # Idle /\ (Moving <=> prog.name = ".config")
      /\ ~Moving' /\ (Saving' => prog'.whole = TRUE) /\ (Writing' => prog'.whole = TRUE /\ prog' # Idle)
  <2>1. Saving /\ prog # Idle /\ (Moving <=> prog.name = ".config")
    BY <1>1 DEF Saving, Moving, Writes, Idle
  <2>2. ~Moving' /\ (Saving' => prog'.whole = TRUE) /\ (Writing' => prog'.whole = TRUE /\ prog' # Idle)
    <3>1. /\ prog'.tool # "none" => prog'.at \in {"shows", "write", "split"}
          /\ prog'.tool # "none" /\ prog'.at = "write" => prog'.whole = TRUE
      BY InstallGoesOn
    <3>2. prog' = Idle => prog'.tool = "none"
      BY DEF Idle
    <3>3. ~Moving'
      BY <3>1 DEF Moving, Writes
    <3>4. Saving' => prog'.whole = TRUE
      BY <3>1 DEF Saving
    <3>5. Writing' => prog'.whole = TRUE /\ prog' # Idle
      BY <3>1, <3>2 DEF Writing, Writes
    <3>6. QED
      BY <3>3, <3>4, <3>5
  <2>3. QED
    BY <2>1, <2>2
<1>7. prog.name # ".config.old"
  BY <1>6 DEF Apart
<1> HIDE DEF renewed
<1>8. renewed => InConfig'
  BY <1>1, <1>4 DEF renewed, InConfig, Holds, Put
<1>9. ~renewed => (InOld' <=> InOld)
  BY <1>1, <1>4, <1>7 DEF InOld, Holds, Put
<1>10. prog.name # ".config" => (InConfig' <=> InConfig) /\ ~renewed
  BY <1>1, <1>4 DEF renewed, InConfig, Holds, Put
<1>11. renewed <=> prog.name = ".config" /\ Renews
  BY DEF renewed, Renews
<1>12. SUFFICES ASSUME left'.faults >= MaxFaults - 1
                PROVE  FirstFault' /\ OneFault' /\ Spoilt'
  BY <1>5 DEF IInv
<1>13. FirstFault /\ OneFault /\ Spoilt
  BY <1>1, <1>12 DEF IInv
<1>15. FirstFault'
  <2>1. SUFFICES ASSUME left.faults = MaxFaults PROVE ~hist.torn /\ InConfig'
    BY <1>1, <1>4, <1>6, Zenon DEF FirstFault
  <2>2. ~hist.torn /\ prog.whole /\ (~Moving => InConfig)
    BY <1>6, <1>13, <2>1, Zenon DEF FirstFault
  <2>3. QED
    BY <1>6, <1>8, <1>10, <1>11, <2>2, Zenon DEF Renews
<1>16. OneFault'
  <2>1. InConfig' \/ InOld'
    BY <1>6, <1>8, <1>9, <1>10, <1>11, <1>13, Zenon DEF OneFault
  <2>2. Writing' => Renews'
    BY <1>4, <1>6, Zenon DEF Renews
  <2>3. QED
    BY <1>6, <2>1, <2>2, Zenon DEF OneFault
<1>17. Spoilt'
  BY <1>4, Zenon DEF Spoilt
<1>18. QED
  BY <1>15, <1>16, <1>17

-----------------------------------------------------------------------------
LEMMA InitIInv == Init => IInv
<1> SUFFICES ASSUME Init PROVE IInv
  OBVIOUS
<1>1. /\ prog = Idle /\ left = [runs |-> MaxRuns, faults |-> MaxFaults]
      /\ hist = [good |-> Nothing, from |-> tree.name, missed |-> FALSE, torn |-> FALSE]
  BY DEF Init
<1>2. prog.tool = "none" /\ hist.good = Nothing /\ hist.torn = FALSE /\ left.faults = MaxFaults
  BY <1>1 DEF Idle
<1>3. Shapes
  BY <1>1, <1>2, BoundAssumption DEF Shapes
<1>4. ~Moving /\ ~Saving /\ ~Writing /\ InConfig
  BY <1>2 DEF Moving, Saving, Writing, Writes, InConfig
<1>5. QED
  BY <1>2, <1>3, <1>4 DEF IInv, FirstFault, OneFault, Spoilt

LEMMA NextIInv == ASSUME IInv, Apart, [Next]_vars PROVE IInv'
<1>1. CASE StartConf \/ StartMconf
  BY <1>1, StartStep
<1>2. CASE Answer
  BY <1>2, AnswerStep
<1>3. CASE WriteTmp
  BY <1>3, WriteTmpStep
<1>4. CASE KeepOld
  BY <1>4, KeepOldStep
<1>5. CASE Install
  BY <1>5, InstallStep
<1>6. CASE SaveDefconfig
  BY <1>6, DefconfigStep
<1>7. CASE AutoConf
  BY <1>7, AutoStep
<1>8. CASE PressKey
  BY <1>8, PressStep
<1>9. CASE Sigint
  BY <1>9, SigintStep
<1>10. CASE Crash
  BY <1>10, CrashStep
<1>11. CASE Update \/ UNCHANGED vars
  BY <1>11, UpdateStep
<1>12. CASE CannotOpen \/ CannotRename
  BY <1>12, GivesUpStep
<1>13. QED
  BY <1>1, <1>2, <1>3, <1>4, <1>5, <1>6, <1>7, <1>8, <1>9, <1>10, <1>11, <1>12 DEF Next, Save

(* Until a second crash or failed write, the last configuration that was   *)
(* saved whole is in .config or in .config.old whenever no tool runs, as   *)
(* long as the user saves nothing else under these two names.  Two faults  *)
(* can lose it: each of two savings in a row is cut short by a full disk,  *)
(* and the second renames the first to .config.old.                        *)
THEOREM SavedSurvives == Spec /\ []Apart => [](left.faults >= MaxFaults - 1 => LastSavedSurvives)
<1>1. IInv => (left.faults >= MaxFaults - 1 => LastSavedSurvives)
  <2>1. SUFFICES ASSUME IInv, left.faults >= MaxFaults - 1, prog = Idle
                 PROVE  \/ hist.good = Nothing
                        \/ \E f \in {".config", ".config.old"} \cap DOMAIN disk : disk[f] = hist.good
    BY DEF LastSavedSurvives
  <2>2. ~Moving
    BY <2>1 DEF Moving, Writes, Idle
  <2>3. InConfig \/ InOld
    BY <2>1, <2>2 DEF IInv, OneFault
  <2>4. QED
    BY <2>3 DEF InConfig, InOld, Holds
<1>2. QED
  BY <1>1, InitIInv, NextIInv, PTL DEF Spec

-----------------------------------------------------------------------------
(* The build: what conf_write_autoconf does to the files it reads.         *)

\* No configuration is saved as auto.conf, and none is kept under that name.
NotAuto == Saving => "auto.conf" \notin {prog.name, Old(prog.name)}

AutoFile == There("auto.conf")
Building == prog.tool # "none" /\ prog.at \in {"touch", "header", "tristate", "auto"}

\* The record of the program that writes, in every step of it.
Shaped == prog.tool # "none" /\ prog.at \notin {"asks", "shows"} => AtStep(prog)

\* While files are touched, those that are done and those that are still to be
\* touched make up for all lines that will be others.
Telling ==
  Writes("touch") =>
    LET w == conf_write_autoconf(DB, prog.st)
    IN /\ prog.lines \in Seq(STRING)
       /\ BuildSees(DB, AutoFile, touched \cup Range(prog.lines), w.header, w.tristate, w.auto)

\* Afterwards everything is touched, and the files are in place one by one.
Placing ==
  /\ Writes("header") \/ Writes("tristate") \/ Writes("auto") =>
       (prog.whole => BuildSees(DB, AutoFile, touched, prog.header, prog.tristate, prog.lines))
  /\ Writes("tristate") \/ Writes("auto") => There("autoconf.h") = prog.header
  /\ Writes("auto") => There("tristate.conf") = prog.tristate

AutoInv == Shaped /\ Telling /\ Placing

LEMMA PutThere ==
  ASSUME NEW name, NEW lines, disk' = Put(name, lines), NEW other
  PROVE  There(other)' = IF other = name THEN lines ELSE There(other)
BY DEF There, Put

\* A step after which nothing is being built.
LEMMA NotBuilding == ASSUME Shaped', ~Building' PROVE AutoInv'
BY DEF AutoInv, Telling, Placing, Building, Writes

LEMMA BegunIsShaped == ASSUME Begun(prog') PROVE Shaped' /\ ~Building'
BY DEF Begun, Shaped, Building

LEMMA IdleIsShaped == ASSUME prog' = Idle PROVE Shaped' /\ ~Building'
BY DEF Idle, Shaped, Building

(* Starting, asking, showing, stopping: steps that leave the disk alone.   *)
LEMMA QuietAuto ==
  ASSUME AutoInv, StartConf \/ StartMconf \/ Answer \/ PressKey \/ Sigint \/ Crash
  PROVE  AutoInv' /\ AutoFile' = AutoFile
<1>1. disk' = disk
  BY DEF StartConf, StartMconf, Answer, AnswerYesNo, AnswerValue, AnswerChoice, Random, GoOn,
     PressKey, Sigint, Crash
<1>2. AutoFile' = AutoFile
  BY <1>1 DEF AutoFile, There
<1>3. CASE StartConf
  <2>1. PICK s \in Starts[tree.name] : prog' = ConfGoesOn(conf_main(DB, disk, s), s.file)
    BY <1>3 DEF StartConf
  <2>2. QED
    BY <1>2, <2>1, ConfBegins, BegunIsShaped, NotBuilding
<1>4. CASE StartMconf
  <2>1. PICK single \in Menus[tree.name] : prog' = MconfGoesOn(mconf_main(DB, disk, single), FALSE)
    BY <1>4 DEF StartMconf
  <2>2. QED
    BY <1>2, <2>1, MconfBegins, BegunIsShaped, NotBuilding
<1>5. CASE Answer
  <2>1. \E c : GoOn(c)
    BY <1>5 DEF Answer, AnswerYesNo, AnswerValue, AnswerChoice, Random
  <2>2. Begun(prog')
    BY <2>1, ConfBegins DEF GoOn
  <2>3. QED
    BY <1>2, <2>2, BegunIsShaped, NotBuilding
<1>6. CASE PressKey
  <2>1. PICK v : Becomes(v)
    BY <1>6 DEF PressKey
  <2>2. Begun(prog')
    BY <2>1, MconfBegins DEF Becomes
  <2>3. QED
    BY <1>2, <2>2, BegunIsShaped, NotBuilding
<1>7. CASE Sigint
  <2>1. Begun(prog')
    BY <1>7, MconfBegins DEF Sigint
  <2>2. QED
    BY <1>2, <2>1, BegunIsShaped, NotBuilding
<1>8. CASE Crash
  BY <1>2, <1>8, IdleIsShaped, NotBuilding DEF Crash
<1>9. QED
  BY <1>3, <1>4, <1>5, <1>6, <1>7, <1>8

(* A new version of the source comes while no tool runs.                   *)
LEMMA UpdateAuto ==
  ASSUME AutoInv, Update \/ UNCHANGED vars
  PROVE  AutoInv' /\ AutoFile' = AutoFile
<1>1. UNCHANGED <<disk, prog, touched, hist, left>>
  BY DEF Update, vars
<1>2. AutoFile' = AutoFile /\ Shaped'
  BY <1>1 DEF AutoInv, AutoFile, There, Shaped, AtStep
<1>3. CASE Update
  <2>1. ~Building'
    BY <1>1, <1>3 DEF Update, Idle, Building
  <2>2. QED
    BY <1>2, <2>1, NotBuilding
<1>4. CASE UNCHANGED vars
  BY <1>2, <1>4 DEF AutoInv, Shaped, AtStep, Telling, Placing, Writes, AutoFile, There,
     DB, vars
<1>5. QED
  BY <1>3, <1>4

(* Saving: no file of these is the one the build reads.                    *)
LEMMA SaveAuto ==
  ASSUME AutoInv, NotAuto, Save
  PROVE  AutoInv' /\ AutoFile' = AutoFile
<1>1. CASE WriteTmp
  <2>1. AtStep(prog) /\ prog.tool # "none" /\ disk' = disk
    BY <1>1 DEF AutoInv, Shaped, WriteTmp, Writes
  <2>2. \E l, w, s : prog' = [prog EXCEPT !.at = "keep", !.lines = l, !.whole = w, !.st = s]
    BY <1>1 DEF WriteTmp
  <2>3. AtStep(prog') /\ prog'.at = "keep"
    BY <2>1, <2>2 DEF AtStep
  <2>4. QED
    BY <2>1, <2>3, NotBuilding DEF Shaped, Building, AutoFile, There
<1>2. CASE KeepOld
  <2>1. /\ AtStep(prog) /\ prog.tool # "none" /\ Saving /\ prog' = [prog EXCEPT !.at = "install"]
        /\ disk' \in {disk, Renamed(prog.name, Old(prog.name))}
    BY <1>2 DEF AutoInv, Shaped, KeepOld, Writes, Saving
  <2>2. AtStep(prog') /\ prog'.at = "install"
    BY <2>1 DEF AtStep
  <2>3. AutoFile' = AutoFile
    BY <1>2, <2>1 DEF NotAuto, KeepOld, Renamed, AutoFile, There
  <2>4. QED
    BY <2>2, <2>3, NotBuilding DEF Shaped, Building
<1>3. CASE Install
  <2> DEFINE u == mconf_written(DB, [prog.u EXCEPT !.st = prog.st], TRUE, disk')
  <2>1. AtStep(prog) /\ prog.tool # "none" /\ Saving /\ disk' = Put(prog.name, prog.lines)
    BY <1>3 DEF AutoInv, Shaped, Install, Writes, Saving
  <2>2. \/ prog' = MconfGoesOn(u, FALSE)
        \/ prog' = [prog EXCEPT !.at = "split", !.st.changed = FALSE, !.lines = <<>>]
        \/ prog' = Idle
    BY <1>3 DEF Install
  <2> HIDE DEF u
  <2>3. ASSUME prog' = [prog EXCEPT !.at = "split", !.st.changed = FALSE, !.lines = <<>>]
        PROVE  Shaped' /\ ~Building'
    <3> DEFINE st == [prog.st EXCEPT !.changed = FALSE]
    <3>1. prog' = [prog EXCEPT !.at = "split", !.st = st, !.lines = <<>>]
      BY <2>1, <2>3 DEF AtStep
    <3> HIDE DEF st
    <3>2. AtStep(prog') /\ prog'.at = "split"
      BY <2>1, <3>1 DEF AtStep
    <3>3. QED
      BY <3>2 DEF Shaped, Building
  <2>4. Shaped' /\ ~Building'
    BY <2>2, <2>3, MconfBegins, BegunIsShaped, IdleIsShaped
  <2>5. AutoFile' = AutoFile
    BY <2>1, PutThere DEF NotAuto, AutoFile
  <2>6. QED
    BY <2>4, <2>5, NotBuilding
<1>4. CASE SaveDefconfig
  <2>1. \E lines : disk' = Put(prog.name, lines)
    BY <1>4 DEF SaveDefconfig
  <2>2. Saving /\ prog' = Idle
    BY <1>4 DEF SaveDefconfig, Writes, Saving
  <2>3. AutoFile' = AutoFile
    BY <2>1, <2>2, PutThere DEF NotAuto, AutoFile
  <2>4. QED
    BY <2>2, <2>3, IdleIsShaped, NotBuilding
<1>5. CASE CannotOpen \/ CannotRename
  <2> DEFINE u == mconf_written(DB, [prog.u EXCEPT !.st = prog.st], FALSE, disk)
  <2>1. prog' \in {MconfGoesOn(u, FALSE), Idle} /\ disk' = disk
    BY <1>5 DEF CannotOpen, CannotRename, GivesUp
  <2> HIDE DEF u
  <2>2. Shaped' /\ ~Building'
    BY <2>1, MconfBegins, BegunIsShaped, IdleIsShaped
  <2>3. QED
    BY <2>1, <2>2, NotBuilding DEF AutoFile, There
<1>6. QED
  BY <1>1, <1>2, <1>3, <1>4, <1>5 DEF Save

\* More touches are as good.
LEMMA MoreTouches ==
  ASSUME NEW old, NEW names, NEW more, names \subseteq more, NEW header, NEW tristate, NEW new,
         NEW db, BuildSees(db, old, names, header, tristate, new)
  PROVE  BuildSees(db, old, more, header, tristate, new)
BY DEF BuildSees

LEMMA HeadAndTail ==
  ASSUME NEW s \in Seq(STRING), s # <<>>
  PROVE  /\ Tail(s) \in Seq(STRING)
         /\ Range(s) \subseteq {Head(s)} \cup Range(Tail(s))
<1>1. Tail(s) \in Seq(STRING) /\ Len(Tail(s)) = Len(s) - 1 /\ Len(s) \in Nat
      /\ \A i \in 1..Len(s) - 1 : Tail(s)[i] = s[i + 1]
  OBVIOUS
<1>2. ASSUME NEW i \in 1..Len(s) PROVE s[i] \in {Head(s)} \cup Range(Tail(s))
  <2>1. CASE i = 1
    BY <2>1
  <2>2. CASE i # 1
    <3>1. i - 1 \in DOMAIN Tail(s) /\ Tail(s)[i - 1] = s[i]
      BY <1>1, <2>2
    <3>2. QED
      BY <3>1 DEF Range
  <2>3. QED
    BY <2>1, <2>2
<1>3. QED
  BY <1>1, <1>2 DEF Range

(* Building.                                                               *)
LEMMA BuildAuto ==
  ASSUME AutoInv, SplitTellsAll, AutoConf
  PROVE  /\ AutoInv'
         /\ AutoFile' # AutoFile /\ prog.whole =>
              BuildSees(DB, AutoFile, touched, There("autoconf.h"), There("tristate.conf"), AutoFile')
<1>1. prog.tool # "none" /\ prog.at \notin {"asks", "shows"} /\ tree' = tree
  BY DEF AutoConf, Split, Touch, WriteNew, InstallHeader, InstallTristate, InstallAuto, Writes, SameSource
<1>2. AtStep(prog) /\ DB' = DB
  BY <1>1 DEF AutoInv, Shaped, DB
<1>4. CASE Split
  <2> DEFINE s == conf_split_config(DB, prog.st, "auto.conf" \in DOMAIN disk, There("auto.conf"))
             st == [s.st EXCEPT !.ret = No]
  <2>1. prog' = [prog EXCEPT !.at = "touch", !.st = st, !.lines = s.touched] /\ disk' = disk
        /\ touched' = touched
    BY <1>4 DEF Split
  <2>2. LET w == conf_write_autoconf(DB, st)
        IN /\ s.touched \in Seq(STRING)
           /\ BuildSees(DB, AutoFile, Range(s.touched), w.header, w.tristate, w.auto)
    BY <1>4 DEF Split, SplitTellsAll, AutoFile
  <2> HIDE DEF s, st
  <2>3. AtStep(prog') /\ prog'.at = "touch" /\ prog'.st = st /\ prog'.lines = s.touched
    BY <1>2, <2>1 DEF AtStep
  <2>4. AutoFile' = AutoFile
    BY <2>1 DEF AutoFile, There
  <2>5. Range(s.touched) \subseteq touched \cup Range(s.touched)
    OBVIOUS
  <2>6. Telling'
    BY <1>2, <2>1, <2>2, <2>3, <2>4, <2>5, MoreTouches DEF Telling
  <2>7. QED
    BY <2>3, <2>4, <2>6 DEF AutoInv, Shaped, Placing, Writes
<1>5. CASE Touch
  <2>1. /\ prog' = [prog EXCEPT !.lines = Tail(@)] /\ prog.lines # <<>> /\ disk' = disk
        /\ touched' = touched \cup {Head(prog.lines)} /\ Writes("touch")
    BY <1>5 DEF Touch
  <2>2. /\ AtStep(prog') /\ prog'.at = "touch" /\ prog'.st = prog.st
        /\ prog'.lines = Tail(prog.lines)
    BY <1>2, <2>1 DEF AtStep, Writes
  <2>3. AutoFile' = AutoFile
    BY <2>1 DEF AutoFile, There
  <2>4. prog.lines \in Seq(STRING)
    BY <2>1 DEF AutoInv, Telling
  <2>5. Tail(prog.lines) \in Seq(STRING)
        /\ touched \cup Range(prog.lines) \subseteq touched' \cup Range(Tail(prog.lines))
    BY <2>1, <2>4, HeadAndTail
  <2>6. LET w == conf_write_autoconf(DB, prog.st)
        IN BuildSees(DB, AutoFile, touched' \cup Range(Tail(prog.lines)), w.header, w.tristate, w.auto)
    BY <2>1, <2>5, MoreTouches DEF AutoInv, Telling
  <2>7. Telling'
    BY <1>2, <2>2, <2>3, <2>5, <2>6 DEF Telling
  <2>8. QED
    BY <2>2, <2>3, <2>7 DEF AutoInv, Shaped, Placing, Writes
<1>6. CASE WriteNew
  <2> DEFINE w == conf_write_autoconf(DB, prog.st)
  <2>1. PICK o \in Outcomes(w.auto) :
           prog' = [prog EXCEPT !.at = "header", !.whole = o.whole, !.lines = o.lines,
                                !.header = w.header, !.tristate = w.tristate,
                                !.st = [w.st EXCEPT !.ret = No]]
    BY <1>6 DEF WriteNew
  <2>2. o.whole => o.lines = w.auto
    BY <2>1 DEF Outcomes
  <2>3. disk' = disk /\ touched' = touched /\ prog.lines = <<>> /\ Writes("touch")
    BY <1>6 DEF WriteNew, SameSource
  <2>4. BuildSees(DB, AutoFile, touched \cup Range(<<>>), w.header, w.tristate, w.auto)
    BY <2>3 DEF AutoInv, Telling
  <2>5. touched \cup Range(<<>>) = touched
    BY DEF Range
  <2> HIDE DEF w
  <2>6. /\ AtStep(prog') /\ prog'.at = "header" /\ prog'.whole = o.whole /\ prog'.lines = o.lines
        /\ prog'.header = w.header /\ prog'.tristate = w.tristate
    BY <1>2, <2>1 DEF AtStep
  <2>7. AutoFile' = AutoFile
    BY <2>3 DEF AutoFile, There
  <2>8. Placing'
    BY <1>2, <2>2, <2>3, <2>4, <2>5, <2>6, <2>7 DEF Placing, Writes
  <2>9. QED
    BY <2>6, <2>7, <2>8 DEF AutoInv, Shaped, Telling, Writes
<1>7. CASE InstallHeader
  <2>1. /\ prog' = [prog EXCEPT !.at = "tristate"] /\ disk' = Put("autoconf.h", prog.header)
        /\ touched' = touched /\ Writes("header")
    BY <1>7 DEF InstallHeader, SameSource
  <2>2. /\ AtStep(prog') /\ prog'.at = "tristate" /\ prog'.whole = prog.whole
        /\ prog'.lines = prog.lines /\ prog'.header = prog.header /\ prog'.tristate = prog.tristate
    BY <1>2, <2>1 DEF AtStep
  <2>3. AutoFile' = AutoFile /\ There("autoconf.h")' = prog.header
    BY <2>1, PutThere DEF AutoFile
  <2>4. Placing'
    BY <1>2, <2>1, <2>2, <2>3 DEF AutoInv, Placing, Writes
  <2>5. QED
    BY <2>2, <2>3, <2>4 DEF AutoInv, Shaped, Telling, Writes
<1>8. CASE InstallTristate
  <2>1. /\ prog' = [prog EXCEPT !.at = "auto"] /\ disk' = Put("tristate.conf", prog.tristate)
        /\ touched' = touched /\ Writes("tristate")
    BY <1>8 DEF InstallTristate, SameSource
  <2>2. /\ AtStep(prog') /\ prog'.at = "auto" /\ prog'.whole = prog.whole
        /\ prog'.lines = prog.lines /\ prog'.header = prog.header /\ prog'.tristate = prog.tristate
    BY <1>2, <2>1 DEF AtStep
  <2>3. /\ AutoFile' = AutoFile /\ There("autoconf.h")' = There("autoconf.h")
        /\ There("tristate.conf")' = prog.tristate
    BY <2>1, PutThere DEF AutoFile
  <2>4. Placing'
    BY <1>2, <2>1, <2>2, <2>3 DEF AutoInv, Placing, Writes
  <2>5. QED
    BY <2>2, <2>3, <2>4 DEF AutoInv, Shaped, Telling, Writes
<1>9. CASE InstallAuto
  <2>1. prog' = Idle /\ disk' = Put("auto.conf", prog.lines) /\ Writes("auto")
    BY <1>9 DEF InstallAuto
  <2>2. AutoFile' = prog.lines
    BY <2>1, PutThere DEF AutoFile
  <2>3. prog.whole => BuildSees(DB, AutoFile, touched, There("autoconf.h"), There("tristate.conf"), prog.lines)
    BY <2>1 DEF AutoInv, Placing
  <2>4. QED
    BY <2>1, <2>2, <2>3, IdleIsShaped, NotBuilding
<1>10. QED
  BY <1>4, <1>5, <1>6, <1>7, <1>8, <1>9 DEF AutoConf

(* auto.conf comes last, in every run and whatever crash or full disk came *)
(* before, if conf_split_config touches what conf_write_autoconf changes   *)
(* (SplitTellsAll, which MCKconfig checks) and the user saves nothing as   *)
(* auto.conf.                                                              *)
THEOREM AutoConfIsLast == Spec /\ []SplitTellsAll /\ []NotAuto => AutoConfLast
<1>1. Init => AutoInv
  BY DEF Init, Idle, AutoInv, Shaped, Telling, Placing, Writes
<1>2. ASSUME AutoInv, SplitTellsAll, NotAuto, [Next]_vars
      PROVE  /\ AutoInv'
             /\ AutoFile' # AutoFile /\ prog.whole =>
                  BuildSees(DB, AutoFile, touched, There("autoconf.h"), There("tristate.conf"), AutoFile')
  BY <1>2, QuietAuto, UpdateAuto, SaveAuto, BuildAuto DEF Next
<1>3. AutoInv /\ SplitTellsAll /\ NotAuto /\ [Next]_vars => AutoInv'
  BY <1>2
<1>4. AutoInv /\ SplitTellsAll /\ NotAuto /\ [Next]_vars =>
        [(There("auto.conf")' # There("auto.conf") /\ prog.whole) =>
            BuildSees(DB, There("auto.conf"), touched, There("autoconf.h"), There("tristate.conf"),
                      There("auto.conf")')]_vars
  BY <1>2 DEF AutoFile
<1>5. QED
  BY <1>1, <1>3, <1>4, PTL DEF Spec, AutoConfLast

---------------------------------------------------------------------------
\* The dialogs of menuconfig (Dialog).  First the loops, whatever a round does.

\* Each set of natural numbers that is not empty has a least element.
LEMMA Least == ASSUME NEW T, T \subseteq Nat, T # {}
               PROVE \E x \in T : \A y \in T : x <= y
<1> DEFINE R == OpToRel(<, Nat)
<1>1. IsWellFoundedOn(R, Nat)
  BY NatLessThanWellFounded
<1>2. \E x \in T : \A y \in T : ~(<<y, x>> \in R)
  <2> HIDE DEF R
  <2> QED BY <1>1, WFMin
<1>3. PICK x \in T : \A y \in T : ~(<<y, x>> \in R)
  BY <1>2
<1>4. \A y \in T : ~(y < x)
  BY <1>3 DEF OpToRel
<1> QED BY <1>4

\* Induction over the natural numbers, for a set.
LEMMA Induct == ASSUME NEW T, T \subseteq Nat, 0 \in T, \A n \in T : n + 1 \in T PROVE T = Nat
<1>1. SUFFICES ASSUME Nat \ T # {} PROVE FALSE OBVIOUS
<1>2. PICK x \in Nat \ T : \A y \in Nat \ T : x <= y BY <1>1, Least
<1>3. x # 0 BY <1>2
<1>4. x - 1 \in Nat BY <1>2, <1>3
<1>5. x - 1 \in T BY <1>2, <1>4
<1>6. x - 1 + 1 \in T BY <1>5
<1> QED BY <1>6, <1>2

\* The line the cursor goes to is one of those the letter is found on.
LEMMA MinIn == ASSUME NEW S, S \subseteq Nat, S # {} PROVE Min(S) \in S
BY Least DEF Min

IsLoop(loop, n, b, f) == f = [i \in 0..n |-> IF i = 0 THEN b ELSE Round(loop, f[i - 1])]

\* A loop of any number of rounds has a sequence of boxes it goes through.
LEMMA LoopExists == ASSUME NEW loop, NEW b, NEW n \in Nat
                    PROVE \E f : IsLoop(loop, n, b, f)
<1> DEFINE T == {k \in Nat : \E f : IsLoop(loop, k, b, f)}
<1>1. 0 \in T
  <2>1. IsLoop(loop, 0, b, [i \in 0..0 |-> b])
    BY DEF IsLoop
  <2> QED BY <2>1
<1>2. ASSUME NEW k \in T PROVE k + 1 \in T
  <2>1. PICK f : IsLoop(loop, k, b, f)
    OBVIOUS
  <2> DEFINE g == [i \in 0..(k + 1) |-> IF i = k + 1 THEN Round(loop, f[k]) ELSE f[i]]
  <2>2. ASSUME NEW i \in 0..(k + 1) PROVE g[i] = IF i = 0 THEN b ELSE Round(loop, g[i - 1])
    BY <2>1 DEF IsLoop
  <2>3. g = [i \in 0..(k + 1) |-> IF i = 0 THEN b ELSE Round(loop, g[i - 1])]
    BY <2>2
  <2> HIDE DEF g
  <2>4. IsLoop(loop, k + 1, b, g)
    BY <2>3 DEF IsLoop
  <2> QED BY <2>4
<1> HIDE DEF T
<1>3. T \subseteq Nat
  BY DEF T
<1>4. T = Nat
  BY <1>1, <1>2, <1>3, Induct
<1>5. n \in T BY <1>4
<1> QED BY <1>5 DEF T

\* Repeat is the last box of such a sequence.
LEMMA LoopIs == ASSUME NEW loop, NEW b, NEW n \in Nat \ {0}
                PROVE \E f : IsLoop(loop, n, b, f) /\ Repeat(loop, n, b) = f[n]
<1>1. \E f : IsLoop(loop, n, b, f) BY LoopExists
<1> DEFINE F == CHOOSE f : f = [i \in 0..n |-> IF i = 0 THEN b ELSE Round(loop, f[i - 1])]
<1>2. IsLoop(loop, n, b, F)
  BY <1>1 DEF IsLoop
<1>3. Repeat(loop, n, b) = F[n]
  BY DEF Repeat
<1> QED BY <1>2, <1>3

\* What holds of a box and is kept by each round holds after the loop; the
\* second form is for what the first round brings about.
LEMMA RepeatKeeps ==
    ASSUME NEW loop, NEW n \in Int, NEW S, NEW b \in S, \A c \in S : Round(loop, c) \in S
    PROVE  Repeat(loop, n, b) \in S
<1>1. CASE n <= 0
  BY <1>1 DEF Repeat
<1>2. CASE n > 0
  <2>1. PICK f : IsLoop(loop, n, b, f) /\ Repeat(loop, n, b) = f[n]
    BY <1>2, LoopIs
  <2> DEFINE T == {i \in Nat : i <= n => f[i] \in S}
  <2>2. 0 \in T
    BY <1>2, <2>1 DEF IsLoop
  <2>3. ASSUME NEW i \in T PROVE i + 1 \in T
    <3>1. CASE i + 1 <= n
      <4>1. f[i] \in S
        BY <3>1
      <4>2. f[i + 1] = Round(loop, f[i])
        BY <2>1, <3>1 DEF IsLoop
      <4> QED BY <4>1, <4>2
    <3> QED BY <3>1
  <2>4. T \subseteq Nat
    OBVIOUS
  <2> HIDE DEF T
  <2>5. T = Nat
    BY <2>2, <2>3, <2>4, Induct
  <2>6. n \in T
    BY <1>2, <2>5
  <2> QED BY <1>2, <2>1, <2>6 DEF T
<1> QED BY <1>1, <1>2

LEMMA RepeatReaches ==
    ASSUME NEW loop, NEW n \in Nat \ {0}, NEW S, NEW b,
           Round(loop, b) \in S, \A c \in S : Round(loop, c) \in S
    PROVE  Repeat(loop, n, b) \in S
<1>1. PICK f : IsLoop(loop, n, b, f) /\ Repeat(loop, n, b) = f[n]
  BY LoopIs
<1> DEFINE T == {i \in Nat : i + 1 <= n => f[i + 1] \in S}
<1>2. 0 \in T
  <2>1. f[0] = b /\ f[0 + 1] = Round(loop, f[0])
    BY <1>1 DEF IsLoop
  <2> QED BY <2>1
<1>3. ASSUME NEW i \in T PROVE i + 1 \in T
  <2>1. CASE i + 2 <= n
    <3>1. f[i + 1] \in S
      BY <2>1
    <3>2. f[(i + 1) + 1] = Round(loop, f[i + 1])
      BY <1>1, <2>1 DEF IsLoop
    <3> QED BY <3>1, <3>2
  <2> QED BY <2>1
<1>4. T \subseteq Nat
  OBVIOUS
<1> HIDE DEF T
<1>5. T = Nat
  BY <1>2, <1>3, <1>4, Induct
<1>6. n - 1 \in T
  BY <1>5
<1> QED BY <1>1, <1>6 DEF T

---------------------------------------------------------------------------
\* Menus.

\* The boxes of a menu with these items in a window of max lines.
MenuBoxes(items, max) ==
    [kind : {"menu"}, items : {items}, active : Int, saved : Int, choice : Int, scroll : Int,
     first : Int, max : {max}, rows : [0..(max - 1) -> Int], button : 0..4, resized : BOOLEAN,
     res : {Waiting}]

\* The lines from scroll on are drawn, and the cursor is on one of them.
Drawn(b) ==
    /\ b.scroll >= 0 /\ b.scroll + b.max <= Len(b.items)
    /\ b.max > 0 => b.choice \in 0..(b.max - 1)
    /\ \A i \in 0..(b.max - 1) : b.rows[i] = b.scroll + i
TrueMenus(items, max) == {b \in MenuBoxes(items, max) : b.resized \/ Drawn(b)}

\* ScrollBy, field by field.
LEMMA MenuScrolls ==
    ASSUME NEW items, Len(items) \in Nat, NEW max \in Nat,
           NEW b \in MenuBoxes(items, max), NEW d \in {-1, 1}
    PROVE  /\ ScrollBy(b, d) \in MenuBoxes(items, max)
           /\ ScrollBy(b, d).resized = b.resized
           /\ ScrollBy(b, d).scroll = b.scroll + d
           /\ ScrollBy(b, d).choice = b.choice
           /\ \A i \in 0..(max - 1) : ScrollBy(b, d).rows[i] =
                 IF i + d \in 0..(max - 1) THEN b.rows[i + d] ELSE b.scroll + d + i
<1> DEFINE rows == [i \in 0..(max - 1) |->
                      IF i + d \in 0..(max - 1) THEN b.rows[i + d] ELSE b.scroll + d + i]
<1>1. ScrollBy(b, d) = [b EXCEPT !.scroll = b.scroll + d, !.rows = rows]
  BY DEF ScrollBy, MenuBoxes
<1>2. rows \in [0..(max - 1) -> Int]
  BY DEF MenuBoxes
<1> HIDE DEF rows
<1> DEFINE e == [b EXCEPT !.scroll = b.scroll + d]
<1>3. b.scroll + d \in Int
  BY d \in Int DEF MenuBoxes
<1>4. e \in MenuBoxes(items, max)
  BY <1>3 DEF MenuBoxes
<1>5. e.scroll = b.scroll + d /\ e.choice = b.choice /\ e.resized = b.resized
  BY DEF MenuBoxes
<1>6. ScrollBy(b, d) = [e EXCEPT !.rows = rows]
  BY <1>1
<1> HIDE DEF e
<1>7. /\ ScrollBy(b, d) \in MenuBoxes(items, max)
      /\ ScrollBy(b, d).resized = e.resized
      /\ ScrollBy(b, d).scroll = e.scroll
      /\ ScrollBy(b, d).choice = e.choice
      /\ ScrollBy(b, d).rows = rows
  BY <1>2, <1>4, <1>6 DEF MenuBoxes
<1> QED BY <1>5, <1>7 DEF rows

\* A menu that is scrolled within its items shows the ones it acts on.
LEMMA MenuScrollsTrue ==
    ASSUME NEW items, Len(items) \in Nat, NEW max \in Nat,
           NEW b \in TrueMenus(items, max), NEW d \in {-1, 1},
           ~b.resized => b.scroll + d \in 0..(Len(items) - max)
    PROVE  ScrollBy(b, d) \in TrueMenus(items, max)
<1>1. b \in MenuBoxes(items, max) /\ (b.resized \/ Drawn(b))
  BY DEF TrueMenus
<1> DEFINE e == ScrollBy(b, d)
<1>2. /\ e \in MenuBoxes(items, max) /\ e.resized = b.resized
      /\ e.scroll = b.scroll + d
      /\ e.choice = b.choice
      /\ \A i \in 0..(max - 1) :
            e.rows[i] = IF i + d \in 0..(max - 1) THEN b.rows[i + d] ELSE b.scroll + d + i
  BY <1>1, MenuScrolls
<1> HIDE DEF e
<1>3. e.max = max /\ e.items = items /\ b.max = max /\ b.items = items /\ b.scroll \in Int
      /\ b.choice \in Int
  BY <1>1, <1>2 DEF MenuBoxes
<1>4. ASSUME Drawn(b), b.scroll + d \in 0..(Len(items) - max) PROVE Drawn(e)
  <2>1. ASSUME NEW i \in 0..(max - 1) PROVE e.rows[i] = b.scroll + d + i
    <3>1. \A j \in 0..(max - 1) : b.rows[j] = b.scroll + j
      BY <1>3, <1>4 DEF Drawn
    <3>2. e.rows[i] = IF i + d \in 0..(max - 1) THEN b.rows[i + d] ELSE b.scroll + d + i
      BY <1>2
    <3>3. CASE i + d \in 0..(max - 1)
      <4>1. e.rows[i] = b.rows[i + d] /\ b.rows[i + d] = b.scroll + (i + d)
        BY <3>1, <3>2, <3>3
      <4> QED BY <1>3, <4>1
    <3>4. CASE ~(i + d \in 0..(max - 1))
      BY <3>2, <3>4
    <3> QED BY <3>3, <3>4
  <2>2. max > 0 => b.choice \in 0..(max - 1)
    BY <1>3, <1>4 DEF Drawn
  <2>3. e.scroll >= 0 /\ e.scroll + e.max <= Len(e.items)
    BY <1>2, <1>3, <1>4
  <2>4. \A i \in 0..(max - 1) : e.rows[i] = e.scroll + i
    BY <1>2, <2>1
  <2> QED BY <1>2, <1>3, <2>2, <2>3, <2>4 DEF Drawn
<1>5. e.resized \/ Drawn(e)
  BY <1>1, <1>2, <1>4
<1>6. e \in TrueMenus(items, max)
  BY <1>2, <1>5 DEF TrueMenus
<1> QED BY <1>6 DEF e

\* A cursor that is set to a line of the window.
LEMMA MenuPoints ==
    ASSUME NEW items, Len(items) \in Nat, NEW max \in Nat,
           NEW b \in TrueMenus(items, max), NEW c \in Int,
           ~b.resized => c \in 0..(max - 1)
    PROVE  [b EXCEPT !.choice = c] \in TrueMenus(items, max)
<1>1. b \in MenuBoxes(items, max) /\ (b.resized \/ Drawn(b))
  BY DEF TrueMenus
<1> DEFINE e == [b EXCEPT !.choice = c]
<1>2. e \in MenuBoxes(items, max)
  BY <1>1 DEF MenuBoxes
<1>3. /\ e.scroll = b.scroll /\ e.max = b.max /\ e.items = b.items /\ e.rows = b.rows
      /\ e.choice = c /\ b.max = max
  BY <1>1 DEF MenuBoxes
<1>4. e.resized = b.resized
  BY <1>1 DEF MenuBoxes
<1> HIDE DEF e
<1>5. ASSUME ~b.resized PROVE Drawn(e)
  <2>1. Drawn(b) /\ c \in 0..(max - 1)
    BY <1>1, <1>5
  <2> QED BY <1>3, <2>1 DEF Drawn
<1>6. e.resized \/ Drawn(e)
  BY <1>4, <1>5
<1>7. e \in TrueMenus(items, max)
  BY <1>2, <1>6 DEF TrueMenus
<1> QED BY <1>7 DEF e

\* The line of the cursor is drawn with the item that is there.
LEMMA MenuRedraws ==
    ASSUME NEW items, Len(items) \in Nat, NEW max \in Nat, NEW b \in TrueMenus(items, max)
    PROVE  Redraw(b) \in TrueMenus(items, max)
<1>1. b \in MenuBoxes(items, max) /\ (b.resized \/ Drawn(b))
  BY DEF TrueMenus
<1> DEFINE rows == [b.rows EXCEPT ![b.choice] = b.scroll + b.choice]
           e == Redraw(b)
<1>2. e = [b EXCEPT !.rows = rows]
  BY <1>1 DEF Redraw, MenuBoxes
<1>3. rows \in [0..(max - 1) -> Int]
  <2>1. b.rows \in [0..(max - 1) -> Int] /\ b.scroll + b.choice \in Int
    BY <1>1 DEF MenuBoxes
  <2> QED BY <2>1
<1>4. ASSUME Drawn(b), NEW i \in 0..(max - 1) PROVE rows[i] = b.scroll + i
  BY <1>1, <1>4 DEF MenuBoxes, Drawn
<1> HIDE DEF rows, e
<1>5. e \in MenuBoxes(items, max)
  BY <1>1, <1>2, <1>3 DEF MenuBoxes
<1>6. /\ e.scroll = b.scroll /\ e.max = b.max /\ e.items = b.items /\ e.choice = b.choice
      /\ e.rows = rows /\ b.max = max
  BY <1>1, <1>2 DEF MenuBoxes
<1>7. e.resized = b.resized
  BY <1>1, <1>2 DEF MenuBoxes
<1>8. ASSUME Drawn(b) PROVE Drawn(e)
  BY <1>4, <1>6, <1>8 DEF Drawn
<1>9. e.resized \/ Drawn(e)
  BY <1>1, <1>7, <1>8
<1>10. e \in TrueMenus(items, max)
  BY <1>5, <1>9 DEF TrueMenus
<1> QED BY <1>10 DEF e

\* The keys that move one line, and the rounds of those that page.
LEMMA MenuRounds ==
    ASSUME NEW items, Len(items) \in Nat, NEW max \in Nat \ {0}, NEW b \in TrueMenus(items, max)
    PROVE  /\ PageUp(b) \in TrueMenus(items, max)
           /\ PageDown(b) \in TrueMenus(items, max)
           /\ MenuUp(b) \in TrueMenus(items, max)
           /\ MenuDown(b) \in TrueMenus(items, max)
<1>1. b \in MenuBoxes(items, max) /\ (b.resized \/ Drawn(b))
  BY DEF TrueMenus
<1>2. b.max = max /\ b.items = items /\ b.scroll \in Int /\ b.choice \in Int
  BY <1>1 DEF MenuBoxes
<1>3. ~b.resized => /\ b.scroll \in 0..(Len(items) - max)
                    /\ max > 0 => b.choice \in 0..(max - 1)
  BY <1>1, <1>2 DEF Drawn
<1>4. ASSUME ~b.resized => max > 0
      PROVE  [b EXCEPT !.choice = Larger(b.choice - 1, 0)] \in TrueMenus(items, max)
  <2>1. Larger(b.choice - 1, 0) \in Int /\ (~b.resized => Larger(b.choice - 1, 0) \in 0..(max - 1))
    BY <1>2, <1>3, <1>4 DEF Larger
  <2> QED BY <2>1, MenuPoints
<1>5. ASSUME max > 0
      PROVE  [b EXCEPT !.choice = Smaller(b.choice + 1, max - 1)] \in TrueMenus(items, max)
  <2>1. /\ Smaller(b.choice + 1, max - 1) \in Int
        /\ ~b.resized => Smaller(b.choice + 1, max - 1) \in 0..(max - 1)
    BY <1>2, <1>3, <1>5 DEF Smaller
  <2> QED BY <2>1, MenuPoints
<1>6. ASSUME b.scroll > 0 PROVE ScrollBy(b, -1) \in TrueMenus(items, max)
  BY <1>2, <1>3, <1>6, MenuScrollsTrue
<1>7. ASSUME b.scroll + max < Len(items) PROVE ScrollBy(b, 1) \in TrueMenus(items, max)
  BY <1>2, <1>3, <1>7, MenuScrollsTrue
<1> QED BY <1>2, <1>4, <1>5, <1>6, <1>7 DEF PageUp, PageDown, MenuUp, MenuDown

HasLen(items) == Len(items) \in Nat /\ (items # <<>> => Len(items) > 0)
GoodMenu(b) ==
    /\ HasLen(b.items) /\ b.max \in Nat /\ (b.items # <<>> => b.max > 0)
    /\ b \in TrueMenus(b.items, b.max)

\* Each key that moves the cursor of a menu with items, a letter included.
LEMMA MenuMoves ==
    ASSUME NEW items, Len(items) \in Nat, NEW max \in Nat \ {0}, NEW b \in TrueMenus(items, max),
           NEW key, NEW hits, hits \subseteq 0..(max - 1), hits # {} \/ key \in MoveKeys
    PROVE  MenuMove(b, key, hits) \in TrueMenus(items, max)
<1> DEFINE S == TrueMenus(items, max)
           later == {i \in hits : i > b.choice}
           hit == Min(IF later # {} THEN later ELSE hits)
<1>7. b \in S /\ max \in Int
  OBVIOUS
<1>1. CASE hits # {}
  <2>1. MenuMove(b, key, hits) = [b EXCEPT !.choice = hit]
    BY <1>1 DEF MenuMove
  <2>2. hit \in 0..(max - 1)
    <3>1. CASE later # {}
      <4>1. later \subseteq hits /\ hits \subseteq Nat
        OBVIOUS
      <4>2. Min(later) \in later
        BY <3>1, <4>1, MinIn
      <4> QED BY <3>1, <4>2
    <3>2. CASE later = {}
      <4>1. hits \subseteq Nat
        OBVIOUS
      <4>2. Min(hits) \in hits
        BY <1>1, <4>1, MinIn
      <4> QED BY <3>2, <4>2
    <3> QED BY <3>1, <3>2
  <2> HIDE DEF hit
  <2>3. [b EXCEPT !.choice = hit] \in S
    BY <2>2, MenuPoints
  <2> QED BY <2>1, <2>3
<1>2. CASE hits = {} /\ key = "up"
  BY <1>2, MenuRounds DEF MenuMove
<1>3. CASE hits = {} /\ key = "down"
  BY <1>3, MenuRounds DEF MenuMove
<1>4. b.max = max
  BY DEF TrueMenus, MenuBoxes
<1>5. CASE hits = {} /\ key = "pgup"
  <2>1. ASSUME NEW c \in S PROVE Round("page up", c) \in S
    BY MenuRounds DEF Round
  <2> HIDE DEF S
  <2>2. Repeat("page up", max, b) \in S
    BY <1>7, <2>1, RepeatKeeps
  <2> QED BY <1>4, <1>5, <2>2 DEF MenuMove, S
<1>6. CASE hits = {} /\ key = "pgdn"
  <2>1. ASSUME NEW c \in S PROVE Round("page down", c) \in S
    BY MenuRounds DEF Round
  <2> HIDE DEF S
  <2>2. Repeat("page down", max, b) \in S
    BY <1>7, <2>1, RepeatKeeps
  <2> QED BY <1>4, <1>6, <2>2 DEF MenuMove, S
<1> QED BY <1>1, <1>2, <1>3, <1>5, <1>6 DEF MoveKeys

\* The code at do_resize: a menu that opens is drawn from its first item.
LEMMA MenuPlaced ==
    ASSUME NEW items, HasLen(items), NEW old \in Nat, NEW b \in MenuBoxes(items, old),
           NEW height \in Nat, height >= 15
    PROVE  LET max == Smaller(height - 14, Len(items))
               e == PlaceMenu(b, height)
           IN /\ max \in Nat /\ (items # <<>> => max > 0)
              /\ e \in MenuBoxes(items, max) /\ e.resized = b.resized
              /\ (/\ b.active \in -1..(Len(items) - 1)
                  /\ b.choice = 0 /\ b.first = 0) => Drawn(e)
<1> DEFINE n == Len(items)
           max == Smaller(height - 14, n)
           target == IF b.active = -1 THEN b.choice ELSE b.active
           keep == b.saved >= 0 /\ b.saved <= target /\ target < b.saved + max /\ b.saved + max <= n
           choice == IF keep THEN target - b.saved ELSE target
           middle == IF choice >= n - max \div 2 THEN n - max ELSE choice - max \div 2
           far == choice >= max
           From(else) == IF far THEN middle ELSE IF keep THEN b.saved ELSE else
           cursor == IF far THEN choice - middle ELSE choice
           rows == [i \in 0..(max - 1) |-> From(b.first) + i]
           e == PlaceMenu(b, height)
<1>1. max \in Nat /\ (items # <<>> => max > 0) /\ max <= n /\ n \in Nat
  BY DEF HasLen, Smaller
<1>2. b.items = items /\ b.choice \in Int /\ b.active \in Int /\ b.saved \in Int /\ b.first \in Int
  BY DEF MenuBoxes
<1>3. e = [b EXCEPT !.max = max, !.first = From(b.first), !.scroll = From(0), !.choice = cursor,
                    !.rows = rows]
  BY <1>2 DEF PlaceMenu, MenuBoxes
<1> HIDE DEF max, e
<1>4. From(0) \in Int /\ From(b.first) \in Int /\ cursor \in Int
  BY <1>1, <1>2
<1>5. ASSUME b.active \in -1..(n - 1), b.choice = 0, b.first = 0
      PROVE  /\ From(0) >= 0 /\ From(0) + max <= n
             /\ max > 0 => cursor \in 0..(max - 1)
             /\ From(b.first) = From(0)
  <2>1. target \in 0..n /\ (n > 0 => target < n)
    BY <1>1, <1>5
  <2>2. max > 0 => 0 <= max \div 2 /\ 2 * (max \div 2) <= max /\ max <= 2 * (max \div 2) + 1
    BY <1>1
  <2> DEFINE half == max \div 2
  <2>3. max = 0 => half = 0
    BY <1>1
  <2>4. half \in Int
    BY <1>1
  <2> HIDE DEF half, target
  <2>5. keep => /\ b.saved \in Nat /\ b.saved + max <= n /\ choice \in 0..(max - 1)
                /\ ~far
    BY <1>1, <1>2, <2>1
  <2>6. CASE keep
    BY <1>1, <1>2, <1>5, <2>1, <2>5, <2>6
  <2>7. CASE ~keep
    <3>1. choice = target
      BY <2>7
    <3> HIDE DEF keep, choice
    <3>2. CASE far
      BY <1>1, <1>5, <2>1, <2>2, <2>3, <2>4, <2>7, <3>1, <3>2 DEF half
    <3>3. CASE ~far
      BY <1>1, <1>5, <2>1, <2>7, <3>1, <3>3
    <3> QED BY <3>2, <3>3
  <2> QED BY <2>6, <2>7
<1>6. rows \in [0..(max - 1) -> Int]
  BY <1>1, <1>4
<1>7. ASSUME NEW i \in 0..(max - 1) PROVE rows[i] = From(b.first) + i
  OBVIOUS
<1> HIDE DEF From, cursor, rows, target, keep, choice, middle, far
<1> DEFINE e1 == [b EXCEPT !.first = From(b.first), !.scroll = From(0), !.choice = cursor]
           e2 == [e1 EXCEPT !.max = max, !.rows = rows]
<1>8. e1 \in MenuBoxes(items, old)
  BY <1>4 DEF MenuBoxes
<1>9. /\ e1.scroll = From(0) /\ e1.choice = cursor /\ e1.resized = b.resized
      /\ e1.items = items
  BY DEF MenuBoxes
<1>10. e = e2
  BY <1>3 DEF MenuBoxes
<1> HIDE DEF e1
<1>11. e2 \in MenuBoxes(items, max)
  BY <1>6, <1>8 DEF MenuBoxes
<1>12. /\ e2.scroll = e1.scroll /\ e2.choice = e1.choice /\ e2.resized = e1.resized
       /\ e2.items = e1.items /\ e2.max = max /\ e2.rows = rows
  BY <1>8 DEF MenuBoxes
<1> HIDE DEF e2
<1>13. ASSUME b.active \in -1..(n - 1), b.choice = 0, b.first = 0 PROVE Drawn(e)
  BY <1>1, <1>5, <1>7, <1>9, <1>10, <1>12, <1>13 DEF Drawn
<1>14. e \in MenuBoxes(items, max) /\ e.resized = b.resized
  BY <1>9, <1>10, <1>11, <1>12
<1> QED BY <1>1, <1>13, <1>14 DEF max, e

\* Each key in a menu, and a change of the size of its terminal.
LEMMA MenuKeys ==
    ASSUME NEW b, GoodMenu(b), NEW key, NEW height \in Nat,
           MenuKey(b, key, height).res = Waiting
    PROVE  GoodMenu(MenuKey(b, key, height))
<1> DEFINE items == b.items
           max == b.max
           hits == IF key \in {"y", "n", "m", "h"} THEN {} ELSE Hits(b, key)
           e == MenuKey(b, key, height)
           ends == {" ", "s", "y", "n", "m", "/", "h", "?", "z", "enter"}
<1>1. HasLen(items) /\ max \in Nat /\ (items # <<>> => max > 0) /\ b \in TrueMenus(items, max)
  BY DEF GoodMenu
<1>2. Len(items) \in Nat
  BY <1>1 DEF HasLen
<1>3. b \in MenuBoxes(items, max) /\ (b.resized \/ Drawn(b))
  BY <1>1 DEF TrueMenus
<1>4. ASSUME NEW c \in TrueMenus(items, max) PROVE GoodMenu(c)
  <2>1. c.items = items /\ c.max = max
    BY DEF TrueMenus, MenuBoxes
  <2> QED BY <1>1, <2>1 DEF GoodMenu
<1>5. CASE b.items # <<>> /\ (hits # {} \/ key \in MoveKeys)
  <2>1. hits \subseteq 0..(max - 1)
    BY DEF Hits
  <2>2. e = Redraw(MenuMove(b, key, hits))
    BY <1>5 DEF MenuKey
  <2> HIDE DEF hits, e
  <2>3. max \in Nat \ {0}
    BY <1>1, <1>5
  <2>4. MenuMove(b, key, hits) \in TrueMenus(items, max)
    BY <1>1, <1>2, <1>5, <2>1, <2>3, MenuMoves
  <2>5. e \in TrueMenus(items, max)
    BY <1>2, <2>2, <2>3, <2>4, MenuRedraws
  <2> QED BY <1>4, <2>5 DEF e
<1>6. CASE ~(b.items # <<>> /\ (hits # {} \/ key \in MoveKeys))
  <2>1. e = CASE key \in ButtonKeys -> [b EXCEPT !.button = NextButton(b.button, key, 5)]
              [] key \in ends -> [b EXCEPT !.saved = b.scroll, !.res = MenuResult(b, key)]
              [] key \in {"e", "x", "esc"} -> [b EXCEPT !.res = Esc]
              [] key = "resize" -> PlaceMenu([b EXCEPT !.resized = TRUE], height)
              [] OTHER -> b
    BY <1>3, <1>6 DEF MenuKey, MenuBoxes
  <2> HIDE DEF e, hits
  <2>2. CASE key \in ButtonKeys
    <3>1. e = [b EXCEPT !.button = NextButton(b.button, key, 5)]
      BY <2>1, <2>2 DEF ButtonKeys
    <3>2. NextButton(b.button, key, 5) \in 0..4
      <4>1. b.button + (IF key = "left" THEN 5 - 1 ELSE 1) \in Nat
        BY <1>3 DEF MenuBoxes
      <4> QED BY <4>1 DEF NextButton
    <3>3. e \in MenuBoxes(items, max)
      BY <1>3, <3>1, <3>2 DEF MenuBoxes
    <3>4. /\ e.resized = b.resized /\ e.scroll = b.scroll /\ e.choice = b.choice
          /\ e.items = b.items /\ e.max = b.max /\ e.rows = b.rows
      BY <1>3, <3>1 DEF MenuBoxes
    <3>5. e \in TrueMenus(items, max)
      BY <1>3, <3>3, <3>4 DEF TrueMenus, Drawn
    <3> QED BY <1>4, <3>5 DEF e
  <2>3. CASE key \in ends
    <3>1. e = [b EXCEPT !.saved = b.scroll, !.res = MenuResult(b, key)]
      BY <2>1, <2>3 DEF ButtonKeys
    <3>2. e.res = MenuResult(b, key)
      BY <1>3, <3>1 DEF MenuBoxes
    <3>3. b.button + 1 \in 1..5
      BY <1>3 DEF MenuBoxes
    <3>4. <<"select", "exit", "help", "save", "load">>[b.button + 1] # Waiting
      BY <3>3 DEF Waiting
    <3>5. MenuResult(b, key) # Waiting
      BY <3>4 DEF MenuResult, Waiting
    <3> QED BY <3>2, <3>5 DEF e
  <2>4. CASE key \in {"e", "x", "esc"}
    <3>1. e = [b EXCEPT !.res = Esc]
      BY <2>1, <2>4 DEF ButtonKeys
    <3>2. e.res = Esc
      BY <1>3, <3>1 DEF MenuBoxes
    <3> QED BY <3>2 DEF e, Esc, Waiting
  <2>5. CASE key = "resize"
    <3> DEFINE c == [b EXCEPT !.resized = TRUE]
    <3>1. e = PlaceMenu(c, height)
      BY <2>1, <2>5 DEF ButtonKeys
    <3>2. c \in MenuBoxes(items, max) /\ c.resized
      BY <1>3 DEF MenuBoxes
    <3> HIDE DEF c
    <3>3. CASE height < 15
      <4>1. e = [c EXCEPT !.res = TooSmall]
        BY <3>1, <3>3 DEF PlaceMenu
      <4>2. e.res = TooSmall
        BY <3>2, <4>1 DEF MenuBoxes
      <4> QED BY <4>2 DEF e, TooSmall, Waiting
    <3>4. CASE height >= 15
      <4> DEFINE new == Smaller(height - 14, Len(items))
      <4>1. /\ new \in Nat /\ (items # <<>> => new > 0)
            /\ e \in MenuBoxes(items, new) /\ e.resized
        BY <1>1, <3>1, <3>2, <3>4, MenuPlaced
      <4> HIDE DEF new
      <4>2. e.items = items /\ e.max = new
        BY <4>1 DEF MenuBoxes
      <4>3. e \in TrueMenus(items, new)
        BY <4>1 DEF TrueMenus
      <4>4. GoodMenu(e)
        BY <1>1, <4>1, <4>2, <4>3 DEF GoodMenu
      <4> QED BY <4>4 DEF e
    <3> QED BY <3>3, <3>4
  <2>6. CASE key \notin ButtonKeys \cup ends \cup {"e", "x", "esc", "resize"}
    <3>1. e = b
      BY <2>1, <2>6
    <3> QED BY <3>1 DEF e
  <2> QED BY <2>2, <2>3, <2>4, <2>5, <2>6
<1> QED BY <1>5, <1>6

\* A menu as its callers open it.
LEMMA MenuOpens == ASSUME NEW b, CalledMenu(b) PROVE GoodMenu(b) /\ b.kind = "menu"
<1>1. /\ b.items \in Seq(Range(b.items)) /\ b.active \in -1..(Len(b.items) - 1) /\ b.saved \in Int
  BY DEF CalledMenu
<1>2. PICK lines \in 1..(Len(b.items) + 1) : b = OpenMenu(b.items, b.active, b.saved, 14 + lines)
  BY DEF CalledMenu
<1> DEFINE items == b.items
           new == [kind |-> "menu", items |-> items, active |-> b.active, saved |-> b.saved,
                   choice |-> 0, scroll |-> 0, first |-> 0, max |-> 0, rows |-> <<>>,
                   button |-> 0, resized |-> FALSE, res |-> Waiting]
           max == Smaller(14 + lines - 14, Len(items))
<1>3. HasLen(items)
  BY <1>1 DEF HasLen
<1>4. 14 + lines \in Nat /\ 14 + lines >= 15
  BY <1>1
<1>5. b = PlaceMenu(new, 14 + lines)
  BY <1>2 DEF OpenMenu
<1>6. <<>> \in [0..(0 - 1) -> Int]
  OBVIOUS
<1>7. new \in MenuBoxes(items, 0)
  BY <1>1, <1>6 DEF MenuBoxes
<1>8. new.active = b.active /\ new.choice = 0 /\ new.first = 0 /\ ~new.resized
  OBVIOUS
<1> HIDE DEF new
<1>9. /\ max \in Nat /\ (items # <<>> => max > 0)
      /\ b \in MenuBoxes(items, max)
      /\ new.active \in -1..(Len(items) - 1) /\ new.choice = 0 /\ new.first = 0 => Drawn(b)
  BY <1>3, <1>4, <1>5, <1>7, MenuPlaced
<1>10. b.max = max /\ b.kind = "menu"
  BY <1>9 DEF MenuBoxes
<1>11. b \in TrueMenus(items, max)
  BY <1>1, <1>8, <1>9 DEF TrueMenus
<1> QED BY <1>3, <1>9, <1>10, <1>11 DEF GoodMenu

\* What the invariant of a menu is for.
LEMMA MenuTrue == ASSUME NEW b, GoodMenu(b), ~b.resized PROVE MenuShows(b)
<1>1. /\ HasLen(b.items) /\ b.max \in Nat /\ (b.items # <<>> => b.max > 0)
      /\ b \in MenuBoxes(b.items, b.max) /\ Drawn(b)
  BY DEF GoodMenu, TrueMenus
<1>2. DOMAIN b.rows = 0..(b.max - 1) /\ b.scroll \in Int
  BY <1>1 DEF MenuBoxes
<1>3. ASSUME NEW i \in 0..(b.max - 1)
      PROVE  b.rows[i] = b.scroll + i /\ b.rows[i] \in 0..(Len(b.items) - 1)
  <2>1. b.rows[i] = b.scroll + i /\ b.scroll >= 0 /\ b.scroll + b.max <= Len(b.items)
    BY <1>1 DEF Drawn
  <2>2. Len(b.items) \in Nat /\ b.max \in Nat /\ b.scroll \in Int
    BY <1>1, <1>2 DEF HasLen
  <2> QED BY <2>1, <2>2
<1>4. b.items # <<>> => b.choice \in 0..(b.max - 1)
  BY <1>1 DEF Drawn
<1> QED BY <1>2, <1>3, <1>4 DEF MenuShows

---------------------------------------------------------------------------
\* Lists.

\* The boxes of a list with these items in a window of max lines.
ListBoxes(items, height, max) ==
    [kind : {"list"}, items : {items}, height : {height}, choice : Int, scroll : Int,
     max : {max}, rows : [0..(max - 1) -> Int], button : 0..1, res : {Waiting}]
TrueLists(items, height, max) ==
    {b \in ListBoxes(items, height, max) : items = <<>> \/ Drawn(b)}
GoodList(b) ==
    /\ HasLen(b.items) /\ b.height \in Nat \ {0} /\ b.max = Smaller(b.height, Len(b.items))
    /\ b \in TrueLists(b.items, b.height, b.max)

\* The line of the cursor is drawn with the item that is there.
LEMMA ListRedraws ==
    ASSUME NEW items, NEW height, NEW max \in Nat, NEW b \in TrueLists(items, height, max)
    PROVE  Redraw(b) \in TrueLists(items, height, max)
<1>1. b \in ListBoxes(items, height, max) /\ (items = <<>> \/ Drawn(b))
  BY DEF TrueLists
<1> DEFINE rows == [b.rows EXCEPT ![b.choice] = b.scroll + b.choice]
           e == Redraw(b)
<1>2. e = [b EXCEPT !.rows = rows]
  BY <1>1 DEF Redraw, ListBoxes
<1>3. rows \in [0..(max - 1) -> Int]
  <2>1. b.rows \in [0..(max - 1) -> Int] /\ b.scroll + b.choice \in Int
    BY <1>1 DEF ListBoxes
  <2> QED BY <2>1
<1>4. ASSUME Drawn(b), NEW i \in 0..(max - 1) PROVE rows[i] = b.scroll + i
  BY <1>1, <1>4 DEF ListBoxes, Drawn
<1> HIDE DEF rows, e
<1>5. e \in ListBoxes(items, height, max)
  BY <1>1, <1>2, <1>3 DEF ListBoxes
<1>6. /\ e.scroll = b.scroll /\ e.max = b.max /\ e.items = b.items /\ e.choice = b.choice
      /\ e.rows = rows /\ b.max = max
  BY <1>1, <1>2 DEF ListBoxes
<1>7. ASSUME Drawn(b) PROVE Drawn(e)
  BY <1>4, <1>6, <1>7 DEF Drawn
<1>8. e \in TrueLists(items, height, max)
  BY <1>1, <1>5, <1>7 DEF TrueLists
<1> QED BY <1>8 DEF e

\* A list that is scrolled within its items shows the ones it acts on.
LEMMA ListScrolls ==
    ASSUME NEW items, Len(items) \in Nat, NEW height, NEW max \in Nat,
           NEW b \in TrueLists(items, height, max), NEW d \in {-1, 1},
           items # <<>> => b.scroll + d \in 0..(Len(items) - max)
    PROVE  ScrollBy(b, d) \in TrueLists(items, height, max)
<1>1. b \in ListBoxes(items, height, max) /\ (items = <<>> \/ Drawn(b))
  BY DEF TrueLists
<1> DEFINE rows == [i \in 0..(max - 1) |->
                      IF i + d \in 0..(max - 1) THEN b.rows[i + d] ELSE b.scroll + d + i]
           mid == [b EXCEPT !.scroll = b.scroll + d]
           e == ScrollBy(b, d)
<1>2. e = [b EXCEPT !.scroll = b.scroll + d, !.rows = rows]
  BY <1>1 DEF ScrollBy, ListBoxes
<1>3. rows \in [0..(max - 1) -> Int]
  BY <1>1 DEF ListBoxes
<1>4. b.scroll \in Int /\ b.scroll + d \in Int /\ b.items = items /\ b.max = max
  BY <1>1, d \in Int DEF ListBoxes
<1>5. ASSUME Drawn(b), NEW i \in 0..(max - 1) PROVE rows[i] = b.scroll + d + i
  <2>1. \A j \in 0..(max - 1) : b.rows[j] = b.scroll + j
    BY <1>4, <1>5 DEF Drawn
  <2>2. CASE i + d \in 0..(max - 1)
    <3>1. rows[i] = b.rows[i + d] /\ b.rows[i + d] = b.scroll + (i + d)
      BY <2>1, <2>2
    <3> QED BY <1>4, <3>1
  <2>3. CASE ~(i + d \in 0..(max - 1))
    BY <2>3
  <2> QED BY <2>2, <2>3
<1> HIDE DEF rows
<1>6. mid \in ListBoxes(items, height, max)
  BY <1>1, <1>4 DEF ListBoxes
<1>7. mid.scroll = b.scroll + d /\ mid.choice = b.choice
  BY <1>1 DEF ListBoxes
<1>8. e = [mid EXCEPT !.rows = rows]
  BY <1>2
<1> HIDE DEF mid, e
<1>9. /\ e \in ListBoxes(items, height, max)
      /\ e.scroll = mid.scroll /\ e.choice = mid.choice /\ e.rows = rows
      /\ e.items = items /\ e.max = max
  BY <1>3, <1>6, <1>8 DEF ListBoxes
<1>10. ASSUME items # <<>> PROVE Drawn(e)
  <2>1. Drawn(b)
    BY <1>1, <1>10
  <2>2. max > 0 => b.choice \in 0..(max - 1)
    BY <1>4, <2>1 DEF Drawn
  <2>3. e.scroll >= 0 /\ e.scroll + e.max <= Len(e.items)
    BY <1>4, <1>7, <1>9, <1>10
  <2>4. \A i \in 0..(max - 1) : e.rows[i] = e.scroll + i
    BY <1>5, <1>7, <1>9, <2>1
  <2> QED BY <1>7, <1>9, <2>2, <2>3, <2>4 DEF Drawn
<1>11. e \in TrueLists(items, height, max)
  BY <1>9, <1>10 DEF TrueLists
<1> QED BY <1>11 DEF e

\* A cursor that is set to a line of the window.
LEMMA ListPoints ==
    ASSUME NEW items, NEW height, NEW max \in Nat,
           NEW b \in TrueLists(items, height, max), NEW c \in Int,
           items # <<>> => c \in 0..(max - 1)
    PROVE  [b EXCEPT !.choice = c] \in TrueLists(items, height, max)
<1>1. b \in ListBoxes(items, height, max) /\ (items = <<>> \/ Drawn(b))
  BY DEF TrueLists
<1> DEFINE e == [b EXCEPT !.choice = c]
<1>2. e \in ListBoxes(items, height, max)
  BY <1>1 DEF ListBoxes
<1>3. /\ e.scroll = b.scroll /\ e.max = b.max /\ e.items = b.items /\ e.rows = b.rows
      /\ e.choice = c /\ b.max = max
  BY <1>1 DEF ListBoxes
<1> HIDE DEF e
<1>4. ASSUME items # <<>> PROVE Drawn(e)
  <2>1. Drawn(b) /\ c \in 0..(max - 1)
    BY <1>1, <1>4
  <2> QED BY <1>3, <2>1 DEF Drawn
<1>5. e \in TrueLists(items, height, max)
  BY <1>2, <1>4 DEF TrueLists
<1> QED BY <1>5 DEF e

\* The code at do_resize, of a list that was drawn or is about to be.
LEMMA ListPlaced ==
    ASSUME NEW items, HasLen(items), NEW height \in Nat \ {0}, NEW old,
           NEW b \in ListBoxes(items, height, old),
           items # <<>> => \/ b.choice >= height /\ b.choice < Len(items)
                           \/ /\ b.choice \in 0..(Smaller(height, Len(items)) - 1)
                              /\ b.scroll \in 0..(Len(items) - Smaller(height, Len(items)))
    PROVE  GoodList(PlaceList(b))
<1> DEFINE max == Smaller(height, Len(items))
           beyond == b.choice >= height
           scroll == IF beyond THEN b.choice - height + 1 ELSE b.scroll
           choice == IF beyond THEN height - 1 ELSE b.choice
           rows == [i \in 0..(max - 1) |-> scroll + i]
           e == PlaceList(b)
<1>1. max \in Nat /\ Len(items) \in Nat /\ max <= height
  BY DEF HasLen, Smaller
<1>2. b.items = items /\ b.height = height /\ b.choice \in Int /\ b.scroll \in Int
  BY DEF ListBoxes
<1>3. e = [b EXCEPT !.max = max, !.scroll = scroll, !.choice = choice, !.rows = rows]
  BY <1>2 DEF PlaceList, ListBoxes
<1>4. scroll \in Int /\ choice \in Int
  BY <1>2
<1>5. items # <<>> => /\ scroll >= 0 /\ scroll + max <= Len(items)
                      /\ choice \in 0..(max - 1)
  <2>1. CASE beyond
    <3>1. items # <<>> => b.choice < Len(items)
      BY <1>1, <1>2, <2>1
    <3>2. items # <<>> => max = height
      BY <1>1, <1>2, <2>1, <3>1 DEF Smaller
    <3> HIDE DEF max
    <3> QED BY <1>1, <1>2, <2>1, <3>1, <3>2
  <2>2. CASE ~beyond
    BY <1>1, <1>2, <2>2
  <2> QED BY <2>1, <2>2
<1>6. rows \in [0..(max - 1) -> Int] /\ \A i \in 0..(max - 1) : rows[i] = scroll + i
  BY <1>1, <1>4
<1> HIDE DEF max, scroll, choice, rows, e, beyond
<1> DEFINE e1 == [b EXCEPT !.scroll = scroll, !.choice = choice]
           e2 == [e1 EXCEPT !.max = max, !.rows = rows]
<1>7. e1 \in ListBoxes(items, height, old) /\ e1.scroll = scroll /\ e1.choice = choice
  BY <1>4 DEF ListBoxes
<1>8. e = e2
  BY <1>3 DEF ListBoxes
<1> HIDE DEF e1
<1>9. e2 \in ListBoxes(items, height, max)
  BY <1>6, <1>7 DEF ListBoxes
<1>10. /\ e2.scroll = e1.scroll /\ e2.choice = e1.choice /\ e2.items = items
       /\ e2.max = max /\ e2.rows = rows /\ e2.height = height
  BY <1>7 DEF ListBoxes
<1> HIDE DEF e2
<1>11. ASSUME items # <<>> PROVE Drawn(e)
  BY <1>5, <1>6, <1>7, <1>8, <1>10, <1>11 DEF Drawn
<1>12. e \in TrueLists(items, height, max)
  BY <1>8, <1>9, <1>11 DEF TrueLists
<1>13. GoodList(e)
  BY <1>8, <1>10, <1>12 DEF GoodList, max
<1> QED BY <1>13 DEF e

\* The keys that move one line.
LEMMA ListMoves ==
    ASSUME NEW items, HasLen(items), NEW height \in Nat \ {0}, NEW max,
           max = Smaller(height, Len(items)), NEW b \in TrueLists(items, height, max)
    PROVE  /\ ListUp(b) \in TrueLists(items, height, max)
           /\ ListDown(b) \in TrueLists(items, height, max)
<1>1. b \in ListBoxes(items, height, max) /\ (items = <<>> \/ Drawn(b))
  BY DEF TrueLists
<1>2. b.max = max /\ b.items = items /\ b.scroll \in Int /\ b.choice \in Int
  BY <1>1 DEF ListBoxes
<1>3. max \in Nat /\ Len(items) \in Nat /\ (items # <<>> => max > 0) /\ max <= Len(items)
  BY DEF HasLen, Smaller
<1>4. items # <<>> => /\ b.scroll \in 0..(Len(items) - max)
                      /\ b.choice \in 0..(max - 1)
  BY <1>1, <1>2, <1>3 DEF Drawn
<1>5. ASSUME b.choice > 0
      PROVE  Redraw([b EXCEPT !.choice = b.choice - 1]) \in TrueLists(items, height, max)
  <2>1. b.choice - 1 \in Int /\ (items # <<>> => b.choice - 1 \in 0..(max - 1))
    BY <1>2, <1>3, <1>4, <1>5
  <2>2. [b EXCEPT !.choice = b.choice - 1] \in TrueLists(items, height, max)
    BY <1>3, <2>1, ListPoints
  <2> QED BY <1>3, <2>2, ListRedraws
<1>6. ASSUME b.choice # max - 1
      PROVE  Redraw([b EXCEPT !.choice = b.choice + 1]) \in TrueLists(items, height, max)
  <2>1. b.choice + 1 \in Int /\ (items # <<>> => b.choice + 1 \in 0..(max - 1))
    BY <1>2, <1>3, <1>4, <1>6
  <2>2. [b EXCEPT !.choice = b.choice + 1] \in TrueLists(items, height, max)
    BY <1>3, <2>1, ListPoints
  <2> QED BY <1>3, <2>2, ListRedraws
<1>7. ASSUME b.scroll > 0 PROVE ScrollBy(b, -1) \in TrueLists(items, height, max)
  BY <1>2, <1>3, <1>4, <1>7, ListScrolls
<1>8. ASSUME b.choice = max - 1, b.scroll + b.choice < Len(items) - 1
      PROVE  ScrollBy(b, 1) \in TrueLists(items, height, max)
  BY <1>2, <1>3, <1>4, <1>8, ListScrolls
<1> QED BY <1>2, <1>5, <1>6, <1>7, <1>8 DEF ListUp, ListDown

\* Each key in a list.
LEMMA ListKeys ==
    ASSUME NEW b, GoodList(b), NEW key, ListKey(b, key).res = Waiting
    PROVE  GoodList(ListKey(b, key))
<1> DEFINE items == b.items
           height == b.height
           max == b.max
           hits == Hits(b, key)
           e == ListKey(b, key)
<1>1. /\ HasLen(items) /\ height \in Nat \ {0} /\ max = Smaller(height, Len(items))
      /\ b \in TrueLists(items, height, max)
  BY DEF GoodList
<1>2. max \in Nat /\ Len(items) \in Nat /\ max <= height /\ max <= Len(items)
  BY <1>1 DEF HasLen, Smaller
<1>3. b \in ListBoxes(items, height, max) /\ (items = <<>> \/ Drawn(b))
  BY <1>1 DEF TrueLists
<1>4. ASSUME NEW c \in TrueLists(items, height, max) PROVE GoodList(c)
  <2>1. c.items = items /\ c.max = max /\ c.height = height
    BY DEF TrueLists, ListBoxes
  <2> QED BY <1>1, <2>1 DEF GoodList
<1>5. CASE hits # {}
  <2>1. hits \subseteq 0..(max - 1) /\ hits \subseteq Nat
    BY DEF Hits
  <2>2. e = Redraw([b EXCEPT !.choice = Min(hits)])
    BY <1>5 DEF ListKey
  <2> HIDE DEF hits, e
  <2>3. Min(hits) \in 0..(max - 1) /\ Min(hits) \in Int
    <3>1. Min(hits) \in hits
      BY <1>5, <2>1, MinIn
    <3>2. Min(hits) \in Nat
      BY <2>1, <3>1
    <3> QED BY <1>2, <2>1, <3>1, <3>2
  <2>4. [b EXCEPT !.choice = Min(hits)] \in TrueLists(items, height, max)
    BY <1>1, <1>2, <2>3, ListPoints
  <2>5. e \in TrueLists(items, height, max)
    BY <1>2, <2>2, <2>4, ListRedraws
  <2> QED BY <1>4, <2>5 DEF e
<1>6. CASE hits = {}
  <2>1. e = CASE key = "up" -> ListUp(b)
              [] key = "down" -> ListDown(b)
              [] key \in {"h", "?"} -> [b EXCEPT !.button = 1, !.res = "help"]
              [] key \in {"s", " ", "enter"} ->
                    [b EXCEPT !.res = <<"select", "help">>[b.button + 1]]
              [] key \in ButtonKeys -> [b EXCEPT !.button = NextButton(b.button, key, 2)]
              [] key \in {"x", "esc"} -> [b EXCEPT !.res = Esc]
              [] key = "resize" -> PlaceList(b)
              [] OTHER -> b
    BY <1>3, <1>6 DEF ListKey, ListBoxes
  <2> HIDE DEF e, hits
  <2>2. CASE key \in {"up", "down"}
    <3>1. e = IF key = "up" THEN ListUp(b) ELSE ListDown(b)
      BY <2>1, <2>2 DEF ButtonKeys
    <3>2. e \in TrueLists(items, height, max)
      BY <1>1, <3>1, ListMoves
    <3> QED BY <1>4, <3>2 DEF e
  <2>3. CASE key \in {"h", "?"}
    <3>1. e = [b EXCEPT !.button = 1, !.res = "help"]
      BY <2>1, <2>3 DEF ButtonKeys
    <3>2. e.res = "help"
      BY <1>3, <3>1 DEF ListBoxes
    <3> QED BY <3>2 DEF e, Waiting
  <2>4. CASE key \in {"s", " ", "enter"}
    <3>1. e = [b EXCEPT !.res = <<"select", "help">>[b.button + 1]]
      BY <2>1, <2>4 DEF ButtonKeys
    <3>2. e.res = <<"select", "help">>[b.button + 1] /\ b.button + 1 \in 1..2
      BY <1>3, <3>1 DEF ListBoxes
    <3>3. e.res # Waiting
      BY <3>2 DEF Waiting
    <3> QED BY <3>3 DEF e
  <2>5. CASE key \in ButtonKeys
    <3>1. e = [b EXCEPT !.button = NextButton(b.button, key, 2)]
      BY <2>1, <2>5 DEF ButtonKeys
    <3>2. NextButton(b.button, key, 2) \in 0..1
      <4>1. b.button + (IF key = "left" THEN 2 - 1 ELSE 1) \in Nat
        BY <1>3 DEF ListBoxes
      <4> QED BY <4>1 DEF NextButton
    <3>3. e \in ListBoxes(items, height, max)
      BY <1>3, <3>1, <3>2 DEF ListBoxes
    <3>4. /\ e.scroll = b.scroll /\ e.choice = b.choice
          /\ e.items = b.items /\ e.max = b.max /\ e.rows = b.rows
      BY <1>3, <3>1 DEF ListBoxes
    <3>5. e \in TrueLists(items, height, max)
      BY <1>3, <3>3, <3>4 DEF TrueLists, Drawn
    <3> QED BY <1>4, <3>5 DEF e
  <2>6. CASE key \in {"x", "esc"}
    <3>1. e = [b EXCEPT !.res = Esc]
      BY <2>1, <2>6 DEF ButtonKeys
    <3>2. e.res = Esc
      BY <1>3, <3>1 DEF ListBoxes
    <3> QED BY <3>2 DEF e, Esc, Waiting
  <2>7. CASE key = "resize"
    <3>1. e = PlaceList(b)
      BY <2>1, <2>7 DEF ButtonKeys
    <3>2. items # <<>> => /\ b.choice \in 0..(Smaller(height, Len(items)) - 1)
                          /\ b.scroll \in 0..(Len(items) - Smaller(height, Len(items)))
      <4>1. b.max = max /\ b.items = items /\ b.scroll \in Int /\ b.choice \in Int
        BY <1>3 DEF ListBoxes
      <4>2. items # <<>> => max > 0
        BY <1>1 DEF HasLen, Smaller
      <4>3. items # <<>> => b.choice \in 0..(max - 1) /\ b.scroll \in 0..(Len(items) - max)
        BY <1>2, <1>3, <4>1, <4>2 DEF Drawn
      <4> HIDE DEF max
      <4> QED BY <1>1, <4>3
    <3>3. GoodList(PlaceList(b))
      BY <1>1, <1>3, <3>2, ListPlaced
    <3> QED BY <3>1, <3>3 DEF e
  <2>8. CASE key \notin {"up", "down", "h", "?", "s", " ", "enter", "x", "esc", "resize"} \cup ButtonKeys
    <3>1. e = b
      BY <2>1, <2>8
    <3> QED BY <3>1 DEF e
  <2> QED BY <2>2, <2>3, <2>4, <2>5, <2>6, <2>7, <2>8
<1> QED BY <1>5, <1>6

\* A list as its callers open it.
LEMMA ListOpens == ASSUME NEW b, CalledList(b) PROVE GoodList(b) /\ b.kind = "list"
<1>1. b.items \in Seq(Range(b.items)) /\ b.height \in Nat \ {0}
  BY DEF CalledList
<1>2. PICK choice \in 0..Larger(Len(b.items) - 1, 0) : b = OpenList(b.items, choice, b.height)
  BY DEF CalledList
<1> DEFINE items == b.items
           height == b.height
           new == [kind |-> "list", items |-> items, height |-> height, choice |-> choice,
                   scroll |-> 0, max |-> 0, rows |-> <<>>, button |-> 0, res |-> Waiting]
<1>3. HasLen(items)
  BY <1>1 DEF HasLen
<1>4. b = PlaceList(new)
  BY <1>2 DEF OpenList
<1>5. <<>> \in [0..(0 - 1) -> Int]
  OBVIOUS
<1>6. new \in ListBoxes(items, height, 0)
  BY <1>1, <1>5 DEF ListBoxes
<1>7. new.choice = choice /\ new.scroll = 0
  OBVIOUS
<1> HIDE DEF new
<1>8. items # <<>> => \/ new.choice >= height /\ new.choice < Len(items)
                      \/ /\ new.choice \in 0..(Smaller(height, Len(items)) - 1)
                         /\ new.scroll \in 0..(Len(items) - Smaller(height, Len(items)))
  BY <1>1, <1>3, <1>7 DEF HasLen, Larger, Smaller
<1>9. GoodList(b)
  BY <1>1, <1>3, <1>4, <1>6, <1>8, ListPlaced
<1>10. b.kind = "list"
  BY <1>9 DEF GoodList, TrueLists, ListBoxes
<1> QED BY <1>9, <1>10

\* What the invariant of a list is for.
LEMMA ListTrue == ASSUME NEW b, GoodList(b) PROVE MenuShows(b)
<1>1. /\ HasLen(b.items) /\ b.height \in Nat \ {0} /\ b.max = Smaller(b.height, Len(b.items))
      /\ b \in ListBoxes(b.items, b.height, b.max) /\ (b.items = <<>> \/ Drawn(b))
  BY DEF GoodList, TrueLists
<1>2. DOMAIN b.rows = 0..(b.max - 1) /\ b.scroll \in Int /\ b.max \in Nat
      /\ b.max <= Len(b.items) /\ (b.items # <<>> => b.max > 0)
  BY <1>1 DEF ListBoxes, HasLen, Smaller
<1>3. CASE b.items = <<>>
  <2>1. DOMAIN b.rows = {}
    BY <1>2, <1>3
  <2> QED BY <1>3, <2>1 DEF MenuShows
<1>4. CASE b.items # <<>>
  BY <1>1, <1>2, <1>4 DEF MenuShows, Drawn, HasLen
<1> QED BY <1>3, <1>4

---------------------------------------------------------------------------
\* Fields.

InputBoxes(instr, width) ==
    [kind : {"input"}, instr : {instr}, width : {width}, pos : Int, show : Int, inx : Int,
     button : -1..1, res : {Waiting}]

\* A field whose characters are those of a sequence, which holds the cursor.
GoodInput(b) ==
    /\ \E R : b.instr \in Seq(R)
    /\ b.width \in Nat \ {0}
    /\ b \in InputBoxes(b.instr, b.width)
    /\ FieldShows(b)

\* The length of the text after a character is put in, or taken out.
LEMMA InsertedLen ==
    ASSUME NEW R, NEW s \in Seq(R), NEW i \in 1..(Len(s) + 1), NEW x
    PROVE  /\ InsertAt(s, i, x) \in Seq(R \cup {x})
           /\ Len(InsertAt(s, i, x)) = Len(s) + 1
<1> DEFINE a == SubSeq(s, 1, i - 1)
           z == SubSeq(s, i, Len(s))
           T == R \cup {x}
<1>1. s \in Seq(T) /\ Len(s) \in Nat
  OBVIOUS
<1>2. a \in Seq(T) /\ Len(a) = i - 1
  BY <1>1
<1>3. z \in Seq(T) /\ Len(z) = Len(s) - i + 1
  BY <1>1
<1>4. <<x>> \in Seq(T) /\ Len(<<x>>) = 1
  OBVIOUS
<1>5. InsertAt(s, i, x) = (a \o <<x>>) \o z
  BY DEF InsertAt
<1> HIDE DEF a, z, T
<1>6. a \o <<x>> \in Seq(T) /\ Len(a \o <<x>>) = i
  BY <1>2, <1>4
<1>7. a \o <<x>> \o z \in Seq(T) /\ Len(a \o <<x>> \o z) = Len(s) + 1
  BY <1>1, <1>3, <1>6
<1> QED BY <1>5, <1>7 DEF T

LEMMA RemovedLen ==
    ASSUME NEW R, NEW s \in Seq(R), NEW pos \in 1..Len(s)
    PROVE  /\ RemoveAt(s, pos) \in Seq(R)
           /\ Len(RemoveAt(s, pos)) = Len(s) - 1
<1> DEFINE a == SubSeq(s, 1, pos - 1)
           z == SubSeq(s, pos + 1, Len(s))
<1>1. Len(s) \in Nat
  OBVIOUS
<1>2. a \in Seq(R) /\ Len(a) = pos - 1
  BY <1>1
<1>3. z \in Seq(R) /\ Len(z) = Len(s) - pos
  BY <1>1
<1>4. RemoveAt(s, pos) = a \o z
  BY DEF RemoveAt
<1> HIDE DEF a, z
<1>5. a \o z \in Seq(R) /\ Len(a \o z) = Len(a) + Len(z)
  BY <1>2, <1>3
<1>6. Len(a) + Len(z) = Len(s) - 1
  BY <1>1, <1>2, <1>3
<1> QED BY <1>4, <1>5, <1>6

\* The cursor goes one character back or forth, in a text of the given characters.
LEMMA InputSteps ==
    ASSUME NEW R, NEW instr \in Seq(R), Len(instr) <= MaxLen, NEW width \in Nat \ {0},
           NEW b \in InputBoxes(instr, width),
           b.pos = b.show + b.inx, b.show >= 0, b.inx \in 0..(width - 1)
    PROVE  /\ b.pos \in 1..(Len(instr) + 1) => GoodInput(InputBack(b))
           /\ b.pos \in 0..(Len(instr) - 1) => GoodInput(InputForth(b))
<1>1. b.pos \in Int /\ b.show \in Int /\ b.inx \in Int /\ b.width = width /\ b.instr = instr
  BY DEF InputBoxes
<1>2. Len(instr) \in Nat /\ MaxLen \in Nat
  BY MaxLenAssumption
<1>3. ASSUME NEW pos \in Int, NEW show \in Int, NEW inx \in Int,
             pos \in 0..Len(instr), pos = show + inx, show >= 0, inx \in 0..(width - 1),
             NEW e, e = [b EXCEPT !.show = show, !.pos = pos, !.inx = inx]
      PROVE  GoodInput(e)
  <2>1. e \in InputBoxes(instr, width)
    BY <1>3 DEF InputBoxes
  <2>2. /\ e.instr = instr /\ e.width = width /\ e.show = show /\ e.pos = pos /\ e.inx = inx
    BY <1>3 DEF InputBoxes
  <2>3. FieldShows(e)
    BY <1>3, <2>2 DEF FieldShows
  <2> QED BY <2>1, <2>2, <2>3 DEF GoodInput
<1>4. ASSUME b.pos \in 1..(Len(instr) + 1) PROVE GoodInput(InputBack(b))
  <2>1. CASE b.inx = 0
    <3>1. InputBack(b) = [b EXCEPT !.show = b.show - 1, !.pos = b.pos - 1, !.inx = b.inx]
      BY <2>1 DEF InputBack, InputBoxes
    <3>2. /\ b.show - 1 \in Int /\ b.pos - 1 \in Int /\ b.inx \in Int /\ b.pos - 1 \in 0..Len(instr)
          /\ b.pos - 1 = (b.show - 1) + b.inx /\ b.show - 1 >= 0 /\ b.inx \in 0..(width - 1)
      BY <1>1, <1>2, <1>4, <2>1
    <3> QED BY <1>3, <3>1, <3>2
  <2>2. CASE b.inx # 0
    <3>1. InputBack(b) = [b EXCEPT !.show = b.show, !.pos = b.pos - 1, !.inx = b.inx - 1]
      BY <2>2 DEF InputBack, InputBoxes
    <3>2. /\ b.show \in Int /\ b.pos - 1 \in Int /\ b.inx - 1 \in Int /\ b.pos - 1 \in 0..Len(instr)
          /\ b.pos - 1 = b.show + (b.inx - 1) /\ b.show >= 0 /\ b.inx - 1 \in 0..(width - 1)
      BY <1>1, <1>2, <1>4, <2>2
    <3> QED BY <1>3, <3>1, <3>2
  <2> QED BY <2>1, <2>2
<1>5. ASSUME b.pos \in 0..(Len(instr) - 1) PROVE GoodInput(InputForth(b))
  <2>1. CASE b.inx = width - 1
    <3>1. InputForth(b) = [b EXCEPT !.show = b.show + 1, !.pos = b.pos + 1, !.inx = b.inx]
      BY <1>1, <2>1 DEF InputForth, InputBoxes
    <3>2. /\ b.show + 1 \in Int /\ b.pos + 1 \in Int /\ b.inx \in Int /\ b.pos + 1 \in 0..Len(instr)
          /\ b.pos + 1 = b.show + 1 + b.inx /\ b.show + 1 >= 0 /\ b.inx \in 0..(width - 1)
      BY <1>1, <1>2, <1>5, <2>1
    <3> QED BY <1>3, <3>1, <3>2
  <2>2. CASE b.inx # width - 1
    <3>1. InputForth(b) = [b EXCEPT !.show = b.show, !.pos = b.pos + 1, !.inx = b.inx + 1]
      BY <1>1, <2>2 DEF InputForth, InputBoxes
    <3>2. /\ b.show \in Int /\ b.pos + 1 \in Int /\ b.inx + 1 \in Int /\ b.show >= 0
          /\ b.pos + 1 = b.show + (b.inx + 1)
      BY <1>1
    <3>3. b.pos + 1 \in 0..Len(instr)
      BY <1>1, <1>2, <1>5
    <3>4. b.inx + 1 \in 0..(width - 1)
      BY <1>1, <2>2
    <3> QED BY <1>3, <3>1, <3>2, <3>3, <3>4
  <2> QED BY <2>1, <2>2
<1> QED BY <1>4, <1>5

\* Each key in the field.
LEMMA FieldKeys == ASSUME NEW b, GoodInput(b), NEW key PROVE GoodInput(FieldKey(b, key))
<1> DEFINE instr == b.instr
           width == b.width
<1>1. PICK R : instr \in Seq(R)
  BY DEF GoodInput
<1>2. /\ width \in Nat \ {0} /\ b \in InputBoxes(instr, width) /\ FieldShows(b)
  BY DEF GoodInput
<1>3. /\ b.pos \in 0..Len(instr) /\ Len(instr) <= MaxLen
      /\ b.pos = b.show + b.inx /\ b.show >= 0 /\ b.inx \in 0..(width - 1)
  BY <1>2 DEF FieldShows
<1>4. Len(instr) \in Nat /\ MaxLen \in Nat
  BY <1>1, MaxLenAssumption
<1>5. ASSUME NEW T, NEW new \in Seq(T), Len(new) <= MaxLen,
             NEW e, e = [b EXCEPT !.instr = new]
      PROVE  /\ b.pos \in 1..(Len(new) + 1) => GoodInput(InputBack(e))
             /\ b.pos \in 0..(Len(new) - 1) => GoodInput(InputForth(e))
  <2>1. /\ e \in InputBoxes(new, width)
        /\ e.pos = b.pos /\ e.show = b.show /\ e.inx = b.inx
    BY <1>2, <1>5 DEF InputBoxes
  <2> QED BY <1>2, <1>3, <1>5, <2>1, InputSteps
<1>6. CASE key = "backspace"
  <2>1. CASE b.pos = 0
    BY <1>6, <2>1 DEF FieldKey
  <2>2. CASE b.pos # 0
    <3> DEFINE new == RemoveAt(instr, b.pos)
               e == [b EXCEPT !.instr = new]
    <3>1. FieldKey(b, key) = InputBack(e)
      BY <1>6, <2>2 DEF FieldKey
    <3>2. b.pos \in 1..Len(instr)
      BY <1>3, <2>2
    <3>3. new \in Seq(R) /\ Len(new) = Len(instr) - 1
      BY <1>1, <3>2, RemovedLen
    <3> HIDE DEF new
    <3>4. b.pos \in 1..(Len(new) + 1) /\ Len(new) <= MaxLen
      BY <1>3, <1>4, <3>2, <3>3
    <3>5. GoodInput(InputBack(e))
      BY <1>5, <3>3, <3>4
    <3> QED BY <3>1, <3>5
  <2> QED BY <2>1, <2>2
<1>7. CASE key = "left"
  <2>1. CASE b.pos > 0
    BY <1>1, <1>2, <1>3, <1>4, <1>7, <2>1, InputSteps DEF FieldKey
  <2>2. CASE ~(b.pos > 0)
    BY <1>7, <2>2 DEF FieldKey
  <2> QED BY <2>1, <2>2
<1>8. CASE key = "right"
  <2>1. CASE b.pos < Len(instr)
    BY <1>1, <1>2, <1>3, <1>4, <1>8, <2>1, InputSteps DEF FieldKey
  <2>2. CASE ~(b.pos < Len(instr))
    BY <1>8, <2>2 DEF FieldKey
  <2> QED BY <2>1, <2>2
<1>9. CASE key \notin {"backspace", "left", "right"}
  <2>1. CASE Len(instr) < MaxLen
    <3> DEFINE new == InsertAt(instr, b.pos + 1, key)
               e == [b EXCEPT !.instr = new]
    <3>1. FieldKey(b, key) = InputForth(e)
      BY <1>9, <2>1 DEF FieldKey
    <3>2. new \in Seq(R \cup {key}) /\ Len(new) = Len(instr) + 1
      <4>1. b.pos + 1 \in 1..(Len(instr) + 1)
        BY <1>3, <1>4
      <4> QED BY <1>1, <4>1, InsertedLen
    <3> HIDE DEF new
    <3>3. b.pos \in 0..(Len(new) - 1) /\ Len(new) <= MaxLen
      BY <1>3, <1>4, <2>1, <3>2
    <3>4. GoodInput(InputForth(e))
      BY <1>5, <3>2, <3>3
    <3> QED BY <3>1, <3>4
  <2>2. CASE ~(Len(instr) < MaxLen)
    BY <1>9, <2>2 DEF FieldKey
  <2> QED BY <2>1, <2>2
<1> QED BY <1>6, <1>7, <1>8, <1>9

\* The code at do_resize puts the cursor behind the text.
LEMMA InputPlaced ==
    ASSUME NEW R, NEW instr \in Seq(R), Len(instr) <= MaxLen, NEW width \in Nat \ {0},
           NEW b \in InputBoxes(instr, width)
    PROVE  GoodInput(PlaceInput(b))
<1> DEFINE len == Len(instr)
           show == IF len >= width THEN len - width + 1 ELSE 0
           inx == IF len >= width THEN width - 1 ELSE len
           e == PlaceInput(b)
<1>1. b.instr = instr /\ b.width = width /\ len \in Nat /\ MaxLen \in Nat
  BY MaxLenAssumption DEF InputBoxes
<1>2. e = [b EXCEPT !.pos = len, !.show = show, !.inx = inx]
  BY <1>1 DEF PlaceInput
<1>3. len \in Int /\ show \in Int /\ inx \in Int /\ show >= 0 /\ inx \in 0..(width - 1) /\ len = show + inx
  <2>1. CASE len >= width
    BY <1>1, <2>1
  <2>2. CASE ~(len >= width)
    BY <1>1, <2>2
  <2> QED BY <2>1, <2>2
<1> HIDE DEF e, show, inx, len
<1>4. e \in InputBoxes(instr, width)
  BY <1>2, <1>3 DEF InputBoxes
<1>5. e.pos = len /\ e.show = show /\ e.inx = inx /\ e.instr = instr /\ e.width = width
  BY <1>2 DEF InputBoxes
<1>6. FieldShows(e)
  BY <1>1, <1>3, <1>5 DEF FieldShows, len
<1>7. GoodInput(e)
  BY <1>4, <1>5, <1>6 DEF GoodInput
<1> QED BY <1>7 DEF e

\* Each key in the box, on the field or on a button.
LEMMA InputKeys ==
    ASSUME NEW b, GoodInput(b), NEW key, InputKey(b, key).res = Waiting
    PROVE  GoodInput(InputKey(b, key))
<1> DEFINE instr == b.instr
           width == b.width
           e == InputKey(b, key)
<1>1. PICK R : instr \in Seq(R)
  BY DEF GoodInput
<1>2. /\ width \in Nat \ {0} /\ b \in InputBoxes(instr, width) /\ FieldShows(b)
  BY DEF GoodInput
<1>3. CASE b.button = -1 /\ key \notin NamedKeys
  <2>1. e = FieldKey(b, key)
    BY <1>3 DEF InputKey
  <2> QED BY <2>1, FieldKeys DEF e
<1>4. CASE ~(b.button = -1 /\ key \notin NamedKeys)
  <2>1. e = CASE key = "o" -> [b EXCEPT !.res = "ok"]
              [] key = "h" -> [b EXCEPT !.res = "help"]
              [] key \in {"up", "left"} -> [b EXCEPT !.button = ((b.button + 3) % 3) - 1]
              [] key \in {"tab", "down", "right"} -> [b EXCEPT !.button = ((b.button + 2) % 3) - 1]
              [] key \in {" ", "enter"} -> [b EXCEPT !.res = IF b.button = 1 THEN "help" ELSE "ok"]
              [] key \in {"x", "esc"} -> [b EXCEPT !.res = Esc]
              [] key = "resize" -> PlaceInput(b)
              [] OTHER -> b
    BY <1>2, <1>4 DEF InputKey, InputBoxes
  <2> HIDE DEF e
  <2>2. ASSUME NEW r, r # Waiting, e = [b EXCEPT !.res = r] PROVE FALSE
    BY <1>2, <2>2 DEF InputBoxes, e
  <2>3. ASSUME NEW n \in -1..1, e = [b EXCEPT !.button = n] PROVE GoodInput(e)
    <3>1. e \in InputBoxes(instr, width)
      BY <1>2, <2>3 DEF InputBoxes
    <3>2. /\ e.pos = b.pos /\ e.show = b.show /\ e.inx = b.inx
          /\ e.instr = instr /\ e.width = width
      BY <1>2, <2>3 DEF InputBoxes
    <3>3. FieldShows(e)
      BY <1>2, <3>2 DEF FieldShows
    <3> QED BY <1>1, <1>2, <3>1, <3>2, <3>3 DEF GoodInput
  <2>4. b.button \in -1..1
    BY <1>2 DEF InputBoxes
  <2>5. CASE key = "o"
    <3>1. e = [b EXCEPT !.res = "ok"]
      BY <2>1, <2>5
    <3> QED BY <2>2, <3>1 DEF Waiting
  <2>6. CASE key = "h"
    <3>1. e = [b EXCEPT !.res = "help"]
      BY <2>1, <2>6
    <3> QED BY <2>2, <3>1 DEF Waiting
  <2>7. CASE key \in {"up", "left"}
    <3>1. e = [b EXCEPT !.button = ((b.button + 3) % 3) - 1]
      BY <2>1, <2>7
    <3>2. ((b.button + 3) % 3) - 1 \in -1..1
      BY <2>4
    <3>3. GoodInput(e)
      BY <2>3, <3>1, <3>2
    <3> QED BY <3>3 DEF e
  <2>8. CASE key \in {"tab", "down", "right"}
    <3>1. e = [b EXCEPT !.button = ((b.button + 2) % 3) - 1]
      BY <2>1, <2>8
    <3>2. ((b.button + 2) % 3) - 1 \in -1..1
      BY <2>4
    <3>3. GoodInput(e)
      BY <2>3, <3>1, <3>2
    <3> QED BY <3>3 DEF e
  <2>9. CASE key \in {" ", "enter"}
    <3>1. e = [b EXCEPT !.res = IF b.button = 1 THEN "help" ELSE "ok"]
      BY <2>1, <2>9
    <3>2. (IF b.button = 1 THEN "help" ELSE "ok") # Waiting
      BY DEF Waiting
    <3> QED BY <2>2, <3>1, <3>2
  <2>10. CASE key \in {"x", "esc"}
    <3>1. e = [b EXCEPT !.res = Esc]
      BY <2>1, <2>10
    <3> QED BY <2>2, <3>1 DEF Waiting, Esc
  <2>11. CASE key = "resize"
    <3>1. e = PlaceInput(b)
      BY <2>1, <2>11
    <3>2. Len(instr) <= MaxLen
      BY <1>2 DEF FieldShows
    <3>3. GoodInput(e)
      BY <1>1, <1>2, <3>1, <3>2, InputPlaced
    <3> QED BY <3>3 DEF e
  <2>12. CASE key \notin {"o", "h", "up", "left", "tab", "down", "right", " ", "enter", "x", "esc",
                          "resize"}
    <3>1. e = b
      BY <2>1, <2>12
    <3> QED BY <3>1 DEF e
  <2> QED BY <2>5, <2>6, <2>7, <2>8, <2>9, <2>10, <2>11, <2>12
<1> QED BY <1>3, <1>4

\* A field as its callers open it.
LEMMA InputOpens == ASSUME NEW b, CalledInput(b) PROVE GoodInput(b) /\ b.kind = "input"
<1> DEFINE instr == b.instr
           width == b.width
           new == [kind |-> "input", instr |-> instr, width |-> width, pos |-> 0, show |-> 0,
                   inx |-> 0, button |-> -1, res |-> Waiting]
           R == Range(instr)
<1>1. instr \in Seq(R) /\ Len(instr) <= MaxLen /\ width \in Nat \ {0} /\ b = PlaceInput(new)
  BY DEF CalledInput, OpenInput
<1>2. new \in InputBoxes(instr, width)
  BY DEF InputBoxes
<1> HIDE DEF new, R
<1>3. GoodInput(b)
  BY <1>1, <1>2, InputPlaced
<1> QED BY <1>3 DEF GoodInput, InputBoxes

---------------------------------------------------------------------------
\* Texts.

\* The boxes of a text of n lines.
TextBoxes(n, initial, height, keys) ==
    [kind : {"text"}, n : {n}, initial : {initial}, height : {height}, page : 0..(n - 1),
     top : Int, plen : Int, begin : BOOLEAN, end : BOOLEAN, hscroll : Int, marked : BOOLEAN,
     past : BOOLEAN, stop : BOOLEAN, keys : {keys}, res : {Waiting}]

\* A text whose begin_reached is true at its first line only.
FromStart(n, initial, height, keys) ==
    {b \in TextBoxes(n, initial, height, keys) : b.begin => b.page = 0}

GoodText(b) ==
    /\ b.n \in Nat \ {0} /\ b.initial \in {0} \cup {i \in Nat : i > 4}
    /\ b.height \in Nat /\ b.height >= 4
    /\ b \in TextBoxes(b.n, b.initial, b.height, b.keys)
    /\ TextShows(b)

\* get_line, field by field.
LEMMA LineGot ==
    ASSUME NEW n \in Nat \ {0}, NEW initial, NEW height, NEW keys,
           NEW b \in TextBoxes(n, initial, height, keys)
    PROVE  LET e == GetLine(b)
           IN /\ e \in TextBoxes(n, initial, height, keys)
              /\ e.begin = b.begin /\ e.top = b.top /\ e.plen = b.plen /\ e.past = b.past
              /\ b.page = n - 1 => e.end /\ e.page = n - 1
              /\ b.page # n - 1 => ~e.end /\ e.page = b.page + 1
<1> DEFINE e == GetLine(b)
<1>1. b.page \in 0..(n - 1) /\ b.n = n
  BY DEF TextBoxes
<1>2. CASE b.page = n - 1
  <2>1. e = [b EXCEPT !.end = TRUE]
    BY <1>1, <1>2 DEF GetLine
  <2> HIDE DEF e
  <2>2. e \in TextBoxes(n, initial, height, keys)
    BY <2>1 DEF TextBoxes
  <2>3. e.begin = b.begin /\ e.top = b.top /\ e.plen = b.plen /\ e.past = b.past
    BY <2>1 DEF TextBoxes
  <2>4. e.end /\ e.page = b.page
    BY <2>1 DEF TextBoxes
  <2> QED BY <1>2, <2>2, <2>3, <2>4 DEF e
<1>3. CASE b.page # n - 1
  <2> DEFINE mid == [b EXCEPT !.page = b.page + 1]
  <2>1. e = [mid EXCEPT !.end = FALSE]
    BY <1>1, <1>3 DEF GetLine, TextBoxes
  <2>2. b.page + 1 \in 0..(n - 1)
    BY <1>1, <1>3
  <2>3. mid \in TextBoxes(n, initial, height, keys)
    BY <2>2 DEF TextBoxes
  <2>4. mid.begin = b.begin /\ mid.top = b.top /\ mid.plen = b.plen /\ mid.past = b.past
    BY DEF TextBoxes
  <2>5. mid.page = b.page + 1
    BY DEF TextBoxes
  <2> HIDE DEF mid, e
  <2>6. e \in TextBoxes(n, initial, height, keys)
    BY <2>1, <2>3 DEF TextBoxes
  <2>7. e.begin = mid.begin /\ e.top = mid.top /\ e.plen = mid.plen /\ e.past = mid.past
    BY <2>1, <2>3 DEF TextBoxes
  <2>8. ~e.end /\ e.page = mid.page
    BY <2>1, <2>3 DEF TextBoxes
  <2> QED BY <1>3, <2>4, <2>5, <2>6, <2>7, <2>8 DEF e
<1> QED BY <1>2, <1>3

\* back_lines sets begin_reached where it returns early, at the first line.
LEMMA LinesBack ==
    ASSUME NEW n \in Nat \ {0}, NEW initial, NEW height, NEW keys,
           NEW b \in TextBoxes(n, initial, height, keys), NEW rounds \in Int
    PROVE  BackLines(b, rounds) \in FromStart(n, initial, height, keys)
<1> DEFINE S == {c \in TextBoxes(n, initial, height, keys) : c.begin => c.stop /\ c.page = 0}
           first == [b EXCEPT !.begin = FALSE, !.stop = FALSE]
<1>1. first \in S
  <2> DEFINE mid == [b EXCEPT !.begin = FALSE]
  <2>1. first = [mid EXCEPT !.stop = FALSE]
    OBVIOUS
  <2>2. mid \in TextBoxes(n, initial, height, keys) /\ ~mid.begin
    BY DEF TextBoxes
  <2> HIDE DEF mid, first
  <2>3. first \in TextBoxes(n, initial, height, keys)
    BY <2>1, <2>2 DEF TextBoxes
  <2>4. ~first.begin
    BY <2>1, <2>2 DEF TextBoxes
  <2> QED BY <2>3, <2>4
<1>2. ASSUME NEW c \in S PROVE Round("back", c) \in S
  <2> DEFINE e == BackLine(c)
  <2>1. c \in TextBoxes(n, initial, height, keys) /\ (c.begin => c.stop /\ c.page = 0)
    OBVIOUS
  <2>2. c.n = n /\ c.page \in 0..(n - 1)
    BY <2>1 DEF TextBoxes
  <2>3. CASE c.stop
    BY <2>1, <2>3 DEF BackLine, Round
  <2>4. CASE ~c.stop /\ c.page = n - 1 /\ c.end
    <3>1. e = [c EXCEPT !.end = FALSE]
      BY <2>2, <2>4 DEF BackLine
    <3> HIDE DEF e
    <3>2. e \in TextBoxes(n, initial, height, keys)
      BY <2>1, <3>1 DEF TextBoxes
    <3>3. e.begin = c.begin
      BY <2>1, <3>1 DEF TextBoxes
    <3>4. e \in S
      BY <2>1, <2>4, <3>2, <3>3
    <3> QED BY <3>4 DEF e, Round
  <2>5. CASE ~c.stop /\ ~(c.page = n - 1 /\ c.end) /\ c.page <= 1
    <3> DEFINE mid == [c EXCEPT !.page = 0]
               mid2 == [mid EXCEPT !.begin = TRUE]
    <3>1. e = [mid2 EXCEPT !.stop = TRUE]
      BY <2>2, <2>5 DEF BackLine
    <3>2. mid \in TextBoxes(n, initial, height, keys) /\ mid.page = 0
      BY <2>1 DEF TextBoxes
    <3> HIDE DEF mid
    <3>3. mid2 \in TextBoxes(n, initial, height, keys) /\ mid2.page = 0
      BY <3>2 DEF TextBoxes
    <3> HIDE DEF mid2, e
    <3>4. e \in TextBoxes(n, initial, height, keys) /\ e.page = 0
      BY <3>1, <3>3 DEF TextBoxes
    <3>5. e.stop
      BY <3>1, <3>3 DEF TextBoxes
    <3>6. e \in S
      BY <3>4, <3>5
    <3> QED BY <3>6 DEF e, Round
  <2>6. CASE ~c.stop /\ ~(c.page = n - 1 /\ c.end) /\ ~(c.page <= 1)
    <3>1. e = [c EXCEPT !.page = c.page - 1]
      BY <2>2, <2>6 DEF BackLine
    <3> HIDE DEF e
    <3>2. c.page - 1 \in 0..(n - 1)
      BY <2>2, <2>6
    <3>3. e \in TextBoxes(n, initial, height, keys)
      BY <2>1, <3>1, <3>2 DEF TextBoxes
    <3>4. e.begin = c.begin
      BY <2>1, <3>1 DEF TextBoxes
    <3>5. e \in S
      BY <2>1, <2>6, <3>3, <3>4
    <3> QED BY <3>5 DEF e, Round
  <2> QED BY <2>3, <2>4, <2>5, <2>6
<1> HIDE DEF S, first
<1>3. Repeat("back", rounds, first) \in S
  BY <1>1, <1>2, RepeatKeeps
<1> QED BY <1>3 DEF S, first, BackLines, FromStart

\* The page that is being printed: passed_end is set at the end of the text.
Printed(n, initial, height, keys) ==
    {b \in TextBoxes(n, initial, height, keys) :
        /\ b.begin => b.top = 0
        /\ b.page = IF b.past THEN n - 1 ELSE b.top + b.plen
        /\ b.past => b.top + b.plen >= n - 1}

\* A line of print_page, after which end_reached means passed_end.
LEMMA LinePrinted ==
    ASSUME NEW n \in Nat \ {0}, NEW initial, NEW height, NEW keys,
           NEW b \in Printed(n, initial, height, keys)
    PROVE  /\ PrintLine(b) \in Printed(n, initial, height, keys)
           /\ PrintLine(b).end => PrintLine(b).past
<1> DEFINE read == GetLine(b)
           plen == IF b.past THEN read.plen ELSE read.plen + 1
           mid == [read EXCEPT !.plen = plen]
           e == PrintLine(b)
<1>1. /\ b \in TextBoxes(n, initial, height, keys)
      /\ b.begin => b.top = 0
      /\ b.page = IF b.past THEN n - 1 ELSE b.top + b.plen
      /\ b.past => b.top + b.plen >= n - 1
  BY DEF Printed
<1>2. /\ read \in TextBoxes(n, initial, height, keys)
      /\ read.begin = b.begin /\ read.top = b.top /\ read.plen = b.plen /\ read.past = b.past
      /\ b.page = n - 1 => read.end /\ read.page = n - 1
      /\ b.page # n - 1 => ~read.end /\ read.page = b.page + 1
  BY <1>1, LineGot
<1>3. e = [read EXCEPT !.plen = plen, !.past = read.past \/ read.end]
  BY DEF PrintLine
<1> HIDE DEF read
<1>4. plen \in Int
  BY <1>2 DEF TextBoxes
<1>5. e = [mid EXCEPT !.past = read.past \/ read.end]
  BY <1>2, <1>3
<1>6. b.top \in Int /\ b.plen \in Int /\ b.page \in 0..(n - 1)
  BY <1>1 DEF TextBoxes
<1> HIDE DEF plen, e
<1>7. /\ mid \in TextBoxes(n, initial, height, keys)
      /\ mid.top = read.top /\ mid.plen = plen /\ mid.page = read.page
  BY <1>2, <1>4 DEF TextBoxes
<1>8. mid.begin = read.begin /\ mid.end = read.end
  BY <1>2 DEF TextBoxes
<1> HIDE DEF mid
<1>9. (read.past \/ read.end) \in BOOLEAN
  OBVIOUS
<1>10. /\ e \in TextBoxes(n, initial, height, keys)
       /\ e.top = mid.top /\ e.plen = mid.plen /\ e.page = mid.page
  BY <1>5, <1>7, <1>9 DEF TextBoxes
<1>11. e.begin = mid.begin /\ e.end = mid.end
  BY <1>5, <1>7 DEF TextBoxes
<1>12. e.past = (read.past \/ read.end)
  BY <1>5, <1>7 DEF TextBoxes
<1>13. e.page = (IF e.past THEN n - 1 ELSE e.top + e.plen) /\ (e.past => e.top + e.plen >= n - 1)
  <2>1. e.top = b.top /\ e.plen = plen /\ e.page = read.page /\ read.plen = b.plen
    BY <1>2, <1>7, <1>10
  <2>2. CASE b.past
    <3>1. e.past /\ read.page = n - 1 /\ plen = b.plen
      BY <1>1, <1>2, <1>12, <2>1, <2>2 DEF plen
    <3> QED BY <1>1, <2>1, <2>2, <3>1
  <2>3. CASE ~b.past /\ b.page = n - 1
    <3>1. e.past /\ read.page = n - 1 /\ plen = b.plen + 1
      BY <1>2, <1>12, <2>1, <2>3 DEF plen
    <3>2. b.top + b.plen = n - 1
      BY <1>1, <2>3
    <3>3. b.top + (b.plen + 1) >= n - 1
      BY <1>6, <3>2
    <3> QED BY <2>1, <3>1, <3>3
  <2>4. CASE ~b.past /\ b.page # n - 1
    <3>1. ~e.past /\ read.page = b.page + 1 /\ plen = b.plen + 1
      BY <1>2, <1>12, <2>1, <2>4 DEF plen
    <3>2. b.top + (b.plen + 1) = b.page + 1
      BY <1>1, <1>6, <2>4
    <3> QED BY <2>1, <3>1, <3>2
  <2> QED BY <2>2, <2>3, <2>4
<1>14. e.begin => e.top = 0
  BY <1>1, <1>2, <1>7, <1>8, <1>10, <1>11
<1>15. e \in Printed(n, initial, height, keys)
  BY <1>10, <1>13, <1>14 DEF Printed
<1>16. e.end => e.past
  BY <1>8, <1>11, <1>12
<1> QED BY <1>15, <1>16 DEF e

\* print_page, with or without update_text.
LEMMA PagePrinted ==
    ASSUME NEW n \in Nat \ {0}, NEW initial \in {0} \cup {i \in Nat : i > 4},
           NEW height \in Nat, height >= 4, NEW keys, NEW b \in FromStart(n, initial, height, keys)
    PROVE  GoodText(PrintPage(b))
<1> DEFINE lines == BoxLines(b)
           ahead == Repeat("get", lines, b)
           from == IF b.marked THEN BackLines(ahead, lines) ELSE b
           start == [from EXCEPT !.plen = 0, !.past = FALSE, !.top = from.page]
           e == PrintPage(b)
           S == {c \in Printed(n, initial, height, keys) : c.end => c.past}
<1>1. b \in TextBoxes(n, initial, height, keys) /\ (b.begin => b.page = 0)
  BY DEF FromStart
<1>2. lines = height - 4 /\ lines \in Nat
  BY <1>1 DEF TextBoxes, BoxLines
<1>3. e = Repeat("print", lines, start)
  BY DEF PrintPage
<1> HIDE DEF lines, e
<1>4. from \in TextBoxes(n, initial, height, keys) /\ (from.begin => from.page = 0)
  <2>1. ahead \in TextBoxes(n, initial, height, keys)
    <3> DEFINE T == TextBoxes(n, initial, height, keys)
    <3>1. ASSUME NEW c \in T PROVE Round("get", c) \in T
      <4>1. GetLine(c) \in T
        BY LineGot
      <4> QED BY <4>1 DEF Round
    <3>2. b \in T /\ lines \in Int
      BY <1>1, <1>2
    <3> HIDE DEF T
    <3>3. Repeat("get", lines, b) \in T
      BY <3>1, <3>2, RepeatKeeps
    <3> QED BY <3>3 DEF T
  <2> HIDE DEF ahead
  <2>2. BackLines(ahead, lines) \in FromStart(n, initial, height, keys)
    BY <1>2, <2>1, LinesBack
  <2>3. CASE b.marked
    BY <2>2, <2>3 DEF FromStart
  <2>4. CASE ~b.marked
    BY <1>1, <2>4
  <2> QED BY <2>3, <2>4
<1> HIDE DEF from
<1>5. start \in Printed(n, initial, height, keys)
  <2> DEFINE m1 == [from EXCEPT !.plen = 0]
             m2 == [m1 EXCEPT !.past = FALSE]
  <2>1. start = [m2 EXCEPT !.top = from.page]
    OBVIOUS
  <2>2. /\ m1 \in TextBoxes(n, initial, height, keys) /\ m1.plen = 0 /\ m1.page = from.page
        /\ from.page \in 0..(n - 1)
    BY <1>4 DEF TextBoxes
  <2>3. m1.begin = from.begin
    BY <1>4 DEF TextBoxes
  <2> HIDE DEF m1
  <2>4. m2 \in TextBoxes(n, initial, height, keys) /\ m2.plen = 0 /\ m2.page = from.page
    BY <2>2 DEF TextBoxes
  <2>5. m2.begin = from.begin /\ ~m2.past
    BY <2>2, <2>3 DEF TextBoxes
  <2>6. from.page \in Int
    BY <2>2
  <2> HIDE DEF m2, start
  <2>7. /\ start \in TextBoxes(n, initial, height, keys) /\ start.plen = 0
        /\ start.page = from.page /\ start.top = from.page
    BY <2>1, <2>4, <2>6 DEF TextBoxes
  <2>8. start.begin = from.begin /\ ~start.past
    BY <2>1, <2>4, <2>5 DEF TextBoxes
  <2>9. start.begin => start.top = 0
    BY <1>4, <2>7, <2>8
  <2>10. start.page = IF start.past THEN n - 1 ELSE start.top + start.plen
    BY <2>6, <2>7, <2>8
  <2>11. start \in Printed(n, initial, height, keys)
    BY <2>7, <2>8, <2>9, <2>10 DEF Printed
  <2> QED BY <2>11 DEF start
<1> HIDE DEF start
<1>6. ASSUME NEW c \in Printed(n, initial, height, keys) PROVE Round("print", c) \in S
  BY LinePrinted DEF Round
<1>7. e \in Printed(n, initial, height, keys) /\ (lines > 0 => (e.end => e.past))
  <2>1. CASE lines > 0
    <3>1. Round("print", start) \in S
      BY <1>5, <1>6
    <3>2. \A c \in S : Round("print", c) \in S
      BY <1>6
    <3>3. lines \in Nat \ {0}
      BY <1>2, <2>1
    <3> HIDE DEF S
    <3>4. Repeat("print", lines, start) \in S
      BY <3>1, <3>2, <3>3, RepeatReaches
    <3> QED BY <1>3, <3>4 DEF S
  <2>2. CASE lines = 0
    <3>1. e = start
      BY <1>3, <2>2 DEF Repeat
    <3> QED BY <1>5, <2>2, <3>1
  <2> QED BY <1>2, <2>1, <2>2
<1>8. /\ e \in TextBoxes(n, initial, height, keys)
      /\ e.begin => e.top = 0
      /\ e.past => e.top + e.plen >= n - 1
  BY <1>7 DEF Printed
<1>9. e.n = n /\ e.initial = initial /\ e.height = height /\ e.keys = keys
  BY <1>8 DEF TextBoxes
<1>10. BoxLines(e) = lines
  BY <1>2, <1>9 DEF BoxLines
<1>11. TextShows(e)
  BY <1>7, <1>8, <1>9, <1>10 DEF TextShows
<1>12. GoodText(e)
  BY <1>8, <1>9, <1>11 DEF GoodText
<1> QED BY <1>12 DEF e

\* The code at do_resize.
LEMMA TextPlaced ==
    ASSUME NEW n \in Nat \ {0}, NEW initial \in {0} \cup {i \in Nat : i > 4},
           NEW old, NEW keys, NEW b \in FromStart(n, initial, old, keys),
           NEW height \in Nat, PlaceText(b, height).res = Waiting
    PROVE  GoodText(PlaceText(b, height))
<1>1. b \in TextBoxes(n, initial, old, keys) /\ (b.begin => b.page = 0)
  BY DEF FromStart
<1>2. CASE height < 8
  <2>1. PlaceText(b, height) = [b EXCEPT !.res = TooSmall]
    BY <1>2 DEF PlaceText
  <2>2. PlaceText(b, height).res = TooSmall
    BY <1>1, <2>1 DEF TextBoxes
  <2> QED BY <2>2 DEF TooSmall, Waiting
<1>3. CASE height >= 8
  <2> DEFINE new == IF initial = 0 THEN height - 4 ELSE initial
             e == [b EXCEPT !.height = new]
  <2>1. PlaceText(b, height) = PrintPage(e)
    BY <1>1, <1>3 DEF PlaceText, TextBoxes
  <2>2. new \in Nat /\ new >= 4
    BY <1>3
  <2> HIDE DEF new
  <2>3. e \in TextBoxes(n, initial, new, keys) /\ e.page = b.page
    BY <1>1 DEF TextBoxes
  <2>4. e.begin = b.begin
    BY <1>1 DEF TextBoxes
  <2> HIDE DEF e
  <2>5. e \in FromStart(n, initial, new, keys)
    BY <1>1, <2>3, <2>4 DEF FromStart
  <2> QED BY <2>1, <2>2, <2>5, PagePrinted
<1> QED BY <1>2, <1>3

\* Each key in a text, and a change of the size of its terminal.
LEMMA TextKeys ==
    ASSUME NEW b, GoodText(b), NEW key, NEW height \in Nat, TextKey(b, key, height).res = Waiting
    PROVE  GoodText(TextKey(b, key, height))
<1> DEFINE n == b.n
           T == TextBoxes(n, b.initial, b.height, b.keys)
           S == FromStart(n, b.initial, b.height, b.keys)
           lines == BoxLines(b)
           moves == {"home", "end", "up", "pgup", "down", "pgdn"}
           e == TextKey(b, key, height)
<1>1. /\ n \in Nat \ {0} /\ b.initial \in {0} \cup {i \in Nat : i > 4}
      /\ b.height \in Nat /\ b.height >= 4
      /\ b \in T
  BY DEF GoodText
<1>2. lines \in Int /\ b.plen \in Int /\ b.height \in Int /\ b.hscroll \in Int
  BY <1>1 DEF BoxLines, TextBoxes
<1>3. ASSUME NEW c \in S PROVE GoodText(PrintPage(c))
  BY <1>1, PagePrinted
<1>4. ASSUME NEW c \in T, NEW rounds \in Int PROVE BackLines(c, rounds) \in S
  BY <1>1, <1>4, LinesBack
<1>5. ASSUME NEW c \in T, NEW rounds \in Int PROVE GoodText(PrintPage(BackLines(c, rounds)))
  BY <1>3, <1>4
<1> HIDE DEF S, lines
<1>6. CASE key \in moves
  <2>1. e = TextMove(b, key)
    BY <1>6 DEF TextKey
  <2>2. GoodText(TextMove(b, key))
    <3>1. CASE key = "home"
      <4> DEFINE mid == [b EXCEPT !.begin = TRUE]
                 c == [b EXCEPT !.begin = TRUE, !.page = 0]
      <4>1. c = [mid EXCEPT !.page = 0]
        OBVIOUS
      <4>2. mid \in T
        BY <1>1 DEF TextBoxes
      <4> HIDE DEF mid, c
      <4>3. c \in T /\ c.page = 0
        BY <1>1, <4>1, <4>2 DEF TextBoxes
      <4>4. c \in S
        BY <4>3 DEF S, FromStart
      <4>5. GoodText(PrintPage(c))
        BY <1>3, <4>4
      <4>6. TextMove(b, key) = IF b.begin THEN b ELSE PrintPage(c)
        BY <3>1 DEF TextMove, c
      <4> QED BY <4>5, <4>6
    <3>2. CASE key = "end"
      <4> DEFINE mid == [b EXCEPT !.end = TRUE]
                 c == [b EXCEPT !.end = TRUE, !.page = b.n - 1]
      <4>1. c = [mid EXCEPT !.page = n - 1]
        OBVIOUS
      <4>2. mid \in T
        BY <1>1 DEF TextBoxes
      <4>3. TextMove(b, key) = PrintPage(BackLines(c, lines))
        BY <3>2 DEF TextMove, lines
      <4> HIDE DEF mid, c
      <4>4. c \in T
        BY <1>1, <4>1, <4>2 DEF TextBoxes
      <4> QED BY <1>2, <1>5, <4>3, <4>4
    <3>3. CASE key = "up"
      <4>1. TextMove(b, key) = IF b.begin THEN b ELSE PrintPage(BackLines(b, b.plen + 1))
        BY <3>3 DEF TextMove
      <4>2. GoodText(PrintPage(BackLines(b, b.plen + 1)))
        <5>1. b.plen + 1 \in Int
          BY <1>2
        <5> QED BY <1>1, <1>5, <5>1
      <4> QED BY <4>1, <4>2
    <3>4. CASE key = "pgup"
      <4>1. TextMove(b, key) = IF b.begin THEN b ELSE PrintPage(BackLines(b, b.plen + lines))
        BY <3>4 DEF TextMove, lines
      <4>2. GoodText(PrintPage(BackLines(b, b.plen + lines)))
        <5>1. b.plen + lines \in Int
          BY <1>2
        <5> QED BY <1>1, <1>5, <5>1
      <4> QED BY <4>1, <4>2
    <3>5. CASE key = "down"
      <4>1. TextMove(b, key) = IF b.end THEN b ELSE PrintPage(BackLines(b, b.plen - 1))
        BY <3>5 DEF TextMove
      <4>2. GoodText(PrintPage(BackLines(b, b.plen - 1)))
        <5>1. b.plen - 1 \in Int
          BY <1>2
        <5> QED BY <1>1, <1>5, <5>1
      <4> QED BY <4>1, <4>2
    <3>6. CASE key = "pgdn"
      <4> DEFINE c == [b EXCEPT !.begin = FALSE]
      <4>1. TextMove(b, key) = IF b.end THEN b ELSE PrintPage(c)
        BY <3>6 DEF TextMove
      <4>2. c \in T
        BY <1>1 DEF TextBoxes
      <4>3. ~c.begin
        BY <1>1 DEF TextBoxes
      <4> HIDE DEF c
      <4>4. c \in S
        BY <4>2, <4>3 DEF S, FromStart
      <4>5. GoodText(PrintPage(c))
        BY <1>3, <4>4
      <4> QED BY <4>1, <4>5
    <3> QED BY <1>6, <3>1, <3>2, <3>3, <3>4, <3>5, <3>6
  <2> QED BY <2>1, <2>2
<1>7. ASSUME NEW column \in Int PROVE GoodText(Sideways(b, column))
  <2> DEFINE c == [b EXCEPT !.hscroll = column]
  <2>1. Sideways(b, column) = PrintPage(BackLines(c, b.plen))
    BY DEF Sideways
  <2>2. c \in T
    BY <1>1 DEF TextBoxes
  <2> HIDE DEF c
  <2> QED BY <1>2, <1>5, <2>1, <2>2
<1>8. CASE key \in {"0", "left", "right"}
  <2>1. \E column \in Int : e = b \/ e = Sideways(b, column)
    <3>1. 0 \in Int /\ b.hscroll - 1 \in Int /\ b.hscroll + 1 \in Int
      BY <1>2
    <3>2. e = b \/ e = Sideways(b, 0) \/ e = Sideways(b, b.hscroll - 1)
            \/ e = Sideways(b, b.hscroll + 1)
      BY <1>8 DEF TextKey
    <3> HIDE DEF e
    <3> QED BY <3>1, <3>2
  <2> HIDE DEF e
  <2> QED BY <1>7, <2>1 DEF e
<1>9. CASE key \in {"e", "x", "enter", "esc"}
  <2>1. e = [b EXCEPT !.res = Esc]
    BY <1>9 DEF TextKey
  <2>2. e.res = Esc
    BY <1>1, <2>1 DEF TextBoxes
  <2> QED BY <2>2 DEF Esc, Waiting
<1>10. CASE key = "resize"
  <2>1. e = PlaceText(BackLines(b, b.height), height)
    BY <1>10 DEF TextKey
  <2>2. BackLines(b, b.height) \in FromStart(n, b.initial, b.height, b.keys)
    BY <1>1, <1>2, <1>4 DEF S
  <2> HIDE DEF e
  <2>3. PlaceText(BackLines(b, b.height), height).res = Waiting
    BY <2>1 DEF e
  <2>4. GoodText(PlaceText(BackLines(b, b.height), height))
    BY <1>1, <2>2, <2>3, TextPlaced
  <2> QED BY <2>1, <2>4 DEF e
<1>11. CASE key \notin moves \cup {"0", "left", "right", "e", "x", "enter", "esc", "resize"}
  <2>1. e = IF key \in b.keys THEN [b EXCEPT !.res = key] ELSE b
    BY <1>11 DEF TextKey
  <2>2. CASE key \in b.keys
    <3>1. e.res = key /\ e = [b EXCEPT !.res = key]
      BY <1>1, <2>1, <2>2 DEF TextBoxes
    <3>2. key = Waiting
      BY <3>1
    <3>3. b.res = Waiting
      BY <1>1 DEF TextBoxes
    <3>4. [b EXCEPT !.res = Waiting] = b
      BY <1>1, <3>3 DEF TextBoxes
    <3> QED BY <3>1, <3>2, <3>4
  <2>3. CASE key \notin b.keys
    BY <2>1, <2>3
  <2> QED BY <2>2, <2>3
<1> QED BY <1>6, <1>8, <1>9, <1>10, <1>11

\* A text as its callers open it, at any line of it.
LEMMA TextOpens ==
    ASSUME NEW b, CalledText(b), b.res = Waiting
    PROVE  GoodText(b) /\ b.kind = "text"
<1> DEFINE n == b.n
           T == TextBoxes(n, b.initial, 0, b.keys)
<1>1. /\ n \in Nat \ {0} /\ b.marked \in BOOLEAN
      /\ b.initial \in {0} \cup {i \in Nat : i > 4}
      /\ b.height \in Nat
  BY DEF CalledText
<1>2. PICK vscroll \in 0..n :
         b = OpenText(n, b.initial, vscroll, b.marked, b.keys, b.height + 4)
  BY DEF CalledText
<1> DEFINE new == [kind |-> "text", n |-> n, initial |-> b.initial, height |-> 0, page |-> 0,
                   top |-> 0, plen |-> 0, begin |-> vscroll = 0, end |-> FALSE, hscroll |-> 0,
                   marked |-> b.marked, past |-> FALSE, stop |-> FALSE, keys |-> b.keys,
                   res |-> Waiting]
           at == Repeat("get", vscroll, new)
<1>3. b = PlaceText(at, b.height + 4)
  BY <1>2 DEF OpenText
<1>4. new \in T
  <2>1. 0 \in 0..(n - 1) /\ (vscroll = 0) \in BOOLEAN
    BY <1>1
  <2> QED BY <1>1, <2>1 DEF TextBoxes
<1>5. at \in FromStart(n, b.initial, 0, b.keys)
  <2>1. CASE vscroll = 0
    <3>1. at = new /\ new.page = 0
      BY <2>1 DEF Repeat
    <3> QED BY <1>4, <3>1 DEF FromStart
  <2>2. CASE vscroll # 0
    <3> DEFINE U == {c \in T : ~c.begin}
    <3>1. new \in U
      BY <1>4, <2>2
    <3>2. ASSUME NEW c \in U PROVE Round("get", c) \in U
      <4>1. GetLine(c) \in T /\ GetLine(c).begin = c.begin
        BY <1>1, LineGot
      <4> QED BY <4>1 DEF Round
    <3>3. vscroll \in Int
      OBVIOUS
    <3> HIDE DEF U, new
    <3>4. at \in U
      BY <3>1, <3>2, <3>3, RepeatKeeps
    <3> QED BY <3>4 DEF U, FromStart
  <2> QED BY <2>1, <2>2
<1> HIDE DEF at
<1>6. b.height + 4 \in Nat
  BY <1>1
<1>7. GoodText(PlaceText(at, b.height + 4))
  BY <1>1, <1>3, <1>5, <1>6, TextPlaced
<1>8. GoodText(b)
  BY <1>3, <1>7
<1>9. b.kind = "text"
  BY <1>8 DEF GoodText, TextBoxes
<1> QED BY <1>8, <1>9

---------------------------------------------------------------------------
\* The inductive invariant: while a dialog waits, the cursor is on a line that
\* is drawn, in the field, or between the flags of the text.
GoodBox(b) ==
    b.res = Waiting =>
        \/ b.kind = "menu" /\ GoodMenu(b)
        \/ b.kind = "list" /\ GoodList(b)
        \/ b.kind = "input" /\ GoodInput(b)
        \/ b.kind = "yesno"
        \/ b.kind = "text" /\ GoodText(b)

\* Whatever dialog is opened,
LEMMA BoxOpens == ASSUME NEW b, Called(b) PROVE GoodBox(b)
<1>1. CASE b.kind = "menu" /\ CalledMenu(b)
  BY <1>1, MenuOpens DEF GoodBox
<1>2. CASE b.kind = "list" /\ CalledList(b)
  BY <1>2, ListOpens DEF GoodBox
<1>3. CASE b.kind = "input" /\ CalledInput(b)
  BY <1>3, InputOpens DEF GoodBox
<1>4. CASE b = OpenYesno
  BY <1>4 DEF GoodBox, OpenYesno
<1>5. CASE b.kind = "text" /\ CalledText(b)
  BY <1>5, TextOpens DEF GoodBox
<1> QED BY <1>1, <1>2, <1>3, <1>4, <1>5 DEF Called

\* and whatever key is pressed in it, it is in the invariant.
LEMMA BoxKeys ==
    ASSUME NEW b, GoodBox(b), b.res = Waiting, NEW key, NEW height \in Nat
    PROVE  GoodBox(BoxKey(b, key, height))
<1>1. CASE b.kind = "menu" /\ GoodMenu(b)
  <2> DEFINE e == MenuKey(b, key, height)
  <2>1. BoxKey(b, key, height) = e
    BY <1>1 DEF BoxKey
  <2>2. ASSUME e.res = Waiting PROVE e.kind = "menu" /\ GoodMenu(e)
    <3>1. GoodMenu(e)
      BY <1>1, <2>2, MenuKeys
    <3> HIDE DEF e
    <3> QED BY <3>1 DEF GoodMenu, TrueMenus, MenuBoxes
  <2> QED BY <2>1, <2>2 DEF GoodBox
<1>2. CASE b.kind = "list" /\ GoodList(b)
  <2> DEFINE e == ListKey(b, key)
  <2>1. BoxKey(b, key, height) = e
    BY <1>2 DEF BoxKey
  <2>2. ASSUME e.res = Waiting PROVE e.kind = "list" /\ GoodList(e)
    <3>1. GoodList(e)
      BY <1>2, <2>2, ListKeys
    <3> HIDE DEF e
    <3> QED BY <3>1 DEF GoodList, TrueLists, ListBoxes
  <2> QED BY <2>1, <2>2 DEF GoodBox
<1>3. CASE b.kind = "input" /\ GoodInput(b)
  <2> DEFINE e == InputKey(b, key)
  <2>1. BoxKey(b, key, height) = e
    BY <1>3 DEF BoxKey
  <2>2. ASSUME e.res = Waiting PROVE e.kind = "input" /\ GoodInput(e)
    <3>1. GoodInput(e)
      BY <1>3, <2>2, InputKeys
    <3> HIDE DEF e
    <3> QED BY <3>1 DEF GoodInput, InputBoxes
  <2> QED BY <2>1, <2>2 DEF GoodBox
<1>4. CASE b.kind = "yesno"
  <2> DEFINE e == YesnoKey(b, key)
  <2>1. BoxKey(b, key, height) = e
    BY <1>4 DEF BoxKey
  <2>2. e.kind = "yesno"
    BY <1>4 DEF YesnoKey
  <2> QED BY <2>1, <2>2 DEF GoodBox
<1>5. CASE b.kind = "text" /\ GoodText(b)
  <2> DEFINE e == TextKey(b, key, height)
  <2>1. BoxKey(b, key, height) = e
    BY <1>5 DEF BoxKey
  <2>2. ASSUME e.res = Waiting PROVE e.kind = "text" /\ GoodText(e)
    <3>1. GoodText(e)
      BY <1>5, <2>2, TextKeys
    <3> HIDE DEF e
    <3> QED BY <3>1 DEF GoodText, TextBoxes
  <2> QED BY <2>1, <2>2 DEF GoodBox
<1> QED BY <1>1, <1>2, <1>3, <1>4, <1>5 DEF GoodBox

(* Whatever keys are pressed in whatever order, in terminals of any height   *)
(* and with any items, fields and texts, a menu or list that waits acts on   *)
(* the item its line shows, a field's cursor is where its text is changed,   *)
(* and the flags of a text lock only the keys that lead nowhere.             *)
THEOREM DialogsShow == ShowsDialogs => []ShownIsActedOn
<1> DEFINE keys == KeysOf[tree.name][Box.kind]
<1>1. Box = Closed => GoodBox(Box)
  BY DEF Closed, GoodBox, Waiting
<1>2. GoodBox(Box) /\ [NextBox]_Box => GoodBox(Box)'
  <2> SUFFICES ASSUME GoodBox(Box), [NextBox]_Box PROVE GoodBox(Box')
    OBVIOUS
  <2>1. CASE Called(Box')
    BY <2>1, BoxOpens
  <2>2. CASE Box.res = Waiting /\ \E key \in keys, height \in Heights \cup {0} :
                 Box' = BoxKey(Box, key, height)
    <3>1. PICK key \in keys, height \in Heights \cup {0} : Box' = BoxKey(Box, key, height)
      BY <2>2
    <3>2. height \in Nat
      BY HeightAssumption
    <3>3. GoodBox(BoxKey(Box, key, height))
      BY <2>2, <3>2, BoxKeys
    <3> QED BY <3>1, <3>3
  <2>3. CASE Box' = Closed
    BY <2>3 DEF Closed, GoodBox, Waiting
  <2>4. CASE Box' = Box
    BY <2>4
  <2> QED BY <2>1, <2>2, <2>3, <2>4 DEF NextBox, Follows
<1>3. GoodBox(Box) => ShownIsActedOn
  <2> SUFFICES ASSUME GoodBox(Box), Box.res = Waiting
               PROVE  /\ (Box.kind = "menu" /\ ~Box.resized) \/ Box.kind = "list" => MenuShows(Box)
                      /\ Box.kind = "input" => FieldShows(Box)
                      /\ Box.kind = "text" => TextShows(Box)
    BY DEF ShownIsActedOn, Shown
  <2>1. CASE Box.kind = "menu"
    BY <2>1, MenuTrue DEF GoodBox
  <2>2. CASE Box.kind = "list"
    BY <2>2, ListTrue DEF GoodBox
  <2>3. CASE Box.kind = "input"
    BY <2>3 DEF GoodBox, GoodInput
  <2>4. CASE Box.kind = "text"
    BY <2>4 DEF GoodBox, GoodText
  <2> QED BY <2>1, <2>2, <2>3, <2>4 DEF GoodBox
<1> QED BY <1>1, <1>2, <1>3, PTL DEF ShowsDialogs
=============================================================================
