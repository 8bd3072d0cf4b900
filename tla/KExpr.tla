-------------------------------- MODULE KExpr --------------------------------
(* Dependency expressions of Kconfig, support/kconfig/expr.c: how they are      *)
(* built, compared, simplified, evaluated and printed.                          *)
(* What is done to one node is in KNode; the recursion is here.                 *)
EXTENDS KNode, SequencesExt

(* Do something with a value that is calculated once.                           *)
With(x, Do(_)) == Do(x)

RECURSIVE Size(_)
Size(e) == CASE e.op \in {"and", "or"} -> Size(e.le) + Size(e.re)
             [] e.op = "not"           -> Size(e.arg)
             [] OTHER                  -> 1

------------------------------------------------------------------------------
RECURSIVE CalcValue(_, _)
CalcValue(e, env) == ValueOf(e, LAMBDA x : CalcValue(x, env), env)

------------------------------------------------------------------------------
RECURSIVE EliminateYN(_)
EliminateYN(e) == WithoutYN(e, EliminateYN)

(* The operands of one level of && or ||, and the level with other operands.    *)
RECURSIVE Operands(_, _)
Operands(t, e) == IF e.op = t THEN Operands(t, e.le) \o Operands(t, e.re) ELSE <<e>>

RECURSIVE WithOperands(_, _, _)
WithOperands(t, e, ops) ==
    IF e.op # t THEN Head(ops)
    ELSE LET k == Len(Operands(t, e.le))
         IN  Two(t, WithOperands(t, e.le, SubSeq(ops, 1, k)),
                    WithOperands(t, e.re, SubSeq(ops, k + 1, Len(ops))))

(* All pairs of positions, in the order the two nested walks meet them.         *)
Pairs(m, n) == [k \in 1 .. m * n |-> <<((k - 1) \div n) + 1, ((k - 1) % n) + 1>>]

------------------------------------------------------------------------------
(* Equality up to the order of operands, and the removal of common operands.    *)

RECURSIVE ExprEq(_, _), EliminateEqAt(_, _, _), EliminateEq(_, _)

(* expr.c calls it __expr_eliminate_eq: two equal operands of the level t       *)
(* become the neutral element, to be eliminated later.                          *)
EliminateEqAt(t, a, b) ==
    LET Step(ops, p) ==
            LET x == ops.a[p[1]]
                y == ops.b[p[2]]
            IN  IF /\ ~(x = y /\ x \in {S("y"), S("n")})
                   /\ ExprEq(x, y)
                THEN [a |-> TakenOut(t, ops.a, p[1]), b |-> TakenOut(t, ops.b, p[2])]
                ELSE ops
        Walk(start) == FoldLeft(Step, start, Pairs(Len(start.a), Len(start.b)))
    IN  With(Walk([a |-> Operands(t, a), b |-> Operands(t, b)]), LAMBDA done :
            [a |-> WithOperands(t, a, done.a), b |-> WithOperands(t, b, done.b)])

EliminateEq(a, b) ==
    LET First(p) == IF p.a.op \in {"and", "or"} THEN EliminateEqAt(p.a.op, p.a, p.b) ELSE p
        Second(p) == IF p.a.op # p.b.op /\ p.b.op \in {"and", "or"}
                     THEN EliminateEqAt(p.b.op, p.a, p.b) ELSE p
        Done(p) == [a |-> EliminateYN(p.a), b |-> EliminateYN(p.b)]
    IN  IF Null \in {a, b} THEN [a |-> a, b |-> b] ELSE Done(Second(First([a |-> a, b |-> b])))

(* MUTANT: two && or || are equal as soon as one of them is used up.            *)
MutExprEq(a, b) ==
    /\ a.op = b.op
    /\ CASE a.op \in Relations    -> a.lsym = b.lsym /\ a.rsym = b.rsym
         [] a.op = "sym"          -> a.sym = b.sym
         [] a.op = "not"          -> ExprEq(a.arg, b.arg)
         [] a.op \in {"and", "or"} ->
              With(EliminateEq(a, b), LAMBDA r : "sym" \in {r.a.op, r.b.op})

ExprEq(a, b) ==
    /\ a.op = b.op
    /\ CASE a.op \in Relations    -> a.lsym = b.lsym /\ a.rsym = b.rsym
         [] a.op = "sym"          -> a.sym = b.sym
         [] a.op = "not"          -> ExprEq(a.arg, b.arg)
         [] a.op \in {"and", "or"} ->
              With(EliminateEq(a, b), LAMBDA r :
                  r.a.op = "sym" /\ r.b.op = "sym" /\ r.a.sym = r.b.sym)

------------------------------------------------------------------------------
RECURSIVE TransBool(_)
TransBool(e) == AsBoolean(e, TransBool)

------------------------------------------------------------------------------
JoinOr(a, b)  == IF ExprEq(a, b) THEN a ELSE JoinedOr(a, b)
JoinAnd(a, b) == IF ExprEq(a, b) THEN a ELSE JoinedAnd(a, b)

(* Removing redundant operands: every operand of a level is tried with every    *)
(* other; of two that join, the first becomes the neutral element. "n" counts   *)
(* the joins (trans_count).                                                     *)

RECURSIVE Dups1(_, _)
Dups1(t, e) ==
    LET Inner(x) == IF x.op \in {"and", "or"} THEN Dups1(x.op, x) ELSE [e |-> x, n |-> 0]
        Put(st, p, in, join) == [ops |-> AfterJoin(t, st.ops, p[1], p[2], in.e, join),
                                 n   |-> st.n + in.n + (IF join = Null THEN 0 ELSE 1)]
        Try(st, p, in, y) == Put(st, p, in, IF t = "or" THEN JoinOr(in.e, y) ELSE JoinAnd(in.e, y))
        Step(st, p) == IF p[1] = p[2] THEN st
                       ELSE Try(st, p, Inner(st.ops[p[1]]), st.ops[p[2]])
        n == Len(Operands(t, e))
    IN  With(FoldLeft(Step, [ops |-> Operands(t, e), n |-> 0], Pairs(n, n)), LAMBDA done :
            [e |-> WithOperands(t, e, done.ops), n |-> done.n])

RECURSIVE EliminateDups(_)
EliminateDups(e) ==
    IF e.op \notin {"and", "or"} THEN e
    ELSE With(Dups1(e.op, e), LAMBDA pass :
             IF pass.n = 0 THEN pass.e ELSE EliminateDups(EliminateYN(pass.e)))

------------------------------------------------------------------------------
RECURSIVE Transform(_)
Transform(e) == Transformed(e, Transform)

RECURSIVE ContainsSymbol(_, _)
ContainsSymbol(e, s) ==
    CASE e.op \in {"and", "or"} -> ContainsSymbol(e.le, s) \/ ContainsSymbol(e.re, s)
      [] e.op = "sym"           -> e.sym = s
      [] e.op \in Relations     -> s \in {e.lsym, e.rsym}
      [] e.op = "not"           -> ContainsSymbol(e.arg, s)
      [] OTHER                  -> FALSE

RECURSIVE DependsSymbol(_, _)
DependsSymbol(e, s) == NeedsSymbol(e, s, LAMBDA x : DependsSymbol(x, s))

RECURSIVE TransCompare(_, _, _)
TransCompare(e, r, s) == Compared(e, r, s, LAMBDA x, q : TransCompare(x, q, s))

------------------------------------------------------------------------------
(* Printing, as the tokens the writer emits.                                    *)

(* Above 0 when t1 binds tighter than t2: the operand needs parentheses.        *)
Binding(t) == CASE t \in {"lt", "le", "gt", "ge"} -> 5
                [] t \in {"eq", "ne"}             -> 4
                [] t = "not"                      -> 3
                [] t = "and"                      -> 2
                [] t = "or"                       -> 1
                [] OTHER                          -> 0

(* MUTANT: an || inside an && gets no parentheses.                              *)
MutParens(t1, t2) == t1 = "not" /\ t2 \in {"and", "or"}

Parens(t1, t2) == t1 # "none" /\ t2 \in {"eq", "ne", "not", "and", "or"} /\ Binding(t1) > Binding(t2)

RECURSIVE Written(_, _)
Written(e, prev) ==
    LET Around(s) == IF Parens(prev, e.op) THEN <<"(">> \o s \o <<")">> ELSE s
    IN  Around(CASE e.op = "null" -> <<"y">>
                 [] e.op = "sym"  -> <<e.sym>>
                 [] e.op = "not"  -> <<"!">> \o Written(e.arg, "not")
                 [] e.op \in {"and", "or"} -> Written(e.le, e.op) \o <<e.op>> \o Written(e.re, e.op)
                 [] OTHER         -> <<e.lsym, e.op, e.rsym>>)
=============================================================================
