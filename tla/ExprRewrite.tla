----------------------------- MODULE ExprRewrite -----------------------------
(* Two dependency expressions on their way through menu_finalize: conditions are*)
(* joined to them as the menus nest, and in between they are simplified, in any *)
(* order and any number of times.                                               *)
EXTENDS KExpr

CONSTANTS Conditions,   \* the expressions a menu entry brings along
          Others,       \* expressions they are compared with
          MaxSize,      \* bound: leaves of the expression as written
          Env           \* the values the symbols can have

ASSUME EnvAssumption == \A env \in Env : Possible(env)

VARIABLES e,            \* the expression as simplified so far
          written,      \* the same expression as the files have it
          other         \* another expression, as the submenu code compares two

vars == <<e, written, other>>

Init == /\ e = Null
        /\ written = Null
        /\ other \in Others

------------------------------------------------------------------------------
(* A condition of the entry is added below its parent's: expr_alloc_and.        *)
AndCondition(c) ==
    /\ written = Null \/ Size(written) + Size(c) <= MaxSize
    /\ e' = AllocAnd(e, c)
    /\ written' = AllocAnd(written, c)
    /\ UNCHANGED other

(* Another select or another definition: expr_alloc_or.                         *)
OrCondition(c) ==
    /\ written = Null \/ Size(written) + Size(c) <= MaxSize
    /\ e' = AllocOr(c, e)
    /\ written' = AllocOr(c, written)
    /\ UNCHANGED other

Negate ==
    /\ written # Null
    /\ written.op # "not"
    /\ e' = Not(e)
    /\ written' = Not(written)
    /\ UNCHANGED other

DoTransform ==
    /\ e # Null
    /\ e' = Transform(e)
    /\ UNCHANGED <<written, other>>

DoEliminateDups ==
    /\ e # Null
    /\ e' = EliminateDups(e)
    /\ UNCHANGED <<written, other>>

DoEliminateYN ==
    /\ e # Null
    /\ e' = EliminateYN(e)
    /\ UNCHANGED <<written, other>>

Next == \/ \E c \in Conditions : AndCondition(c) \/ OrCondition(c)
        \/ Negate \/ DoTransform \/ DoEliminateDups \/ DoEliminateYN

Spec == Init /\ [][Next]_vars

------------------------------------------------------------------------------
(* The reader of zconf.y: ! binds tightest, then comparisons of two symbols,    *)
(* &&, ||; both to the left. A result has the expression and the rest.          *)

RECURSIVE ReadOr(_), ReadAnd(_), ReadOrMore(_), ReadAndMore(_), ReadUnary(_)

ReadUnary(ts) ==
    CASE ts[1] = "!" -> With(ReadUnary(Tail(ts)), LAMBDA r : [x |-> Not(r.x), rest |-> r.rest])
      [] ts[1] = "(" -> With(ReadOr(Tail(ts)), LAMBDA r : [x |-> r.x, rest |-> Tail(r.rest)])
      [] OTHER -> IF Len(ts) >= 3 /\ ts[2] \in Relations
                  THEN [x |-> Comp(ts[2], ts[1], ts[3]), rest |-> SubSeq(ts, 4, Len(ts))]
                  ELSE [x |-> S(ts[1]), rest |-> Tail(ts)]

ReadAndMore(l) ==
    IF l.rest = <<>> \/ Head(l.rest) # "and" THEN l
    ELSE With(ReadUnary(Tail(l.rest)), LAMBDA r :
             ReadAndMore([x |-> Two("and", l.x, r.x), rest |-> r.rest]))
ReadAnd(ts) == ReadAndMore(ReadUnary(ts))

ReadOrMore(l) ==
    IF l.rest = <<>> \/ Head(l.rest) # "or" THEN l
    ELSE With(ReadAnd(Tail(l.rest)), LAMBDA r :
             ReadOrMore([x |-> Two("or", l.x, r.x), rest |-> r.rest]))
ReadOr(ts) == ReadOrMore(ReadAnd(ts))

Read(ts) == ReadOr(ts).x

------------------------------------------------------------------------------
(* Simplifying never changes what a dependency means, whatever values the       *)
(* symbols have and in whatever order the conditions were joined and simplified *)
(* (menu_finalize simplifies the same expression once per menu level). Where the*)
(* entry is no tristate, FOO!=n becomes FOO as well: there m counts as y, so    *)
(* being n is what must stay.                                                   *)
SimplifyingKeepsValue ==
    \A env \in Env :
        /\ CalcValue(e, env) = CalcValue(written, env)
        /\ (CalcValue(TransBool(Transform(e)), env) = 0) = (CalcValue(e, env) = 0)

(* expr_eq ignores the order of operands, by eliminating what is common: two    *)
(* expressions it calls equal have the same value everywhere.                   *)
EqualMeansSameValue ==
    ExprEq(e, other) => \A env \in Env : CalcValue(e, env) = CalcValue(other, env)

(* The tests that move an entry into a submenu (menu_finalize). When eliminating*)
(* what two dependencies have in common leaves the second one y, then whenever  *)
(* the first holds so does the second.                                          *)
SupersetMeansImplied ==
    EliminateEq(e, other).b = S("y")
        => \A env \in Env : CalcValue(e, env) <= CalcValue(other, env)

(* An expression that depends on a symbol cannot hold while the symbol is n.    *)
DependsMeansNeeds ==
    \A s \in Sym \ {"y", "m", "n"} :
        SymType[s] \in {"bool", "tristate"} /\ DependsSymbol(e, s) =>
            \A env \in Env : CalcValue(e, env) # 0 => env.tri[s] # 0

(* "e != n" written out holds exactly where e is not n, as long as no tristate  *)
(* is negated (the code writes !A out as A=n, whatever A's type).               *)
RECURSIVE NegatesTristate(_)
NegatesTristate(x) ==
    CASE x.op \in {"and", "or"} -> NegatesTristate(x.le) \/ NegatesTristate(x.re)
      [] x.op = "not" -> \E s \in Sym : SymType[s] # "bool" /\ ContainsSymbol(x.arg, s)
      [] OTHER -> FALSE

WrittenOutIsNotNo ==
    With(Transform(e), LAMBDA x :
        ~NegatesTristate(x) =>
            \A env \in Env : CalcValue(TransCompare(x, "ne", "n"), env)
                               = IF CalcValue(e, env) = 0 THEN 0 ELSE 2)

(* Together: an entry is only moved below one that it needs.                    *)
SubmenuTestsAreSound == SupersetMeansImplied /\ DependsMeansNeeds /\ WrittenOutIsNotNo

(* A printed dependency (a help text, zconfdump) reads back as an expression    *)
(* with the same value: the parentheses that are left out are not needed.       *)
PrintedReadsBack ==
    e # Null => With(Read(Written(e, "none")), LAMBDA x :
                     \A env \in Env : CalcValue(x, env) = CalcValue(e, env))

=============================================================================
