-------------------------------- MODULE KNode --------------------------------
(* One node of a dependency expression of Kconfig, support/kconfig/expr.c: what *)
(* it is made of, and what evaluating it or rewriting it makes of the results   *)
(* for its operands. The functions of expr.c that walk through an expression    *)
(* call themselves for the operands: here the call is a parameter, and KExpr    *)
(* closes the recursion.                                                        *)
(*                                                                              *)
(* An expression is a record; its operator tells which fields it has. Nodes are *)
(* immutable here, so the copies and the frees of the code disappear, and a     *)
(* function that rewrites a tree in place returns the new tree.                 *)
EXTENDS Integers, Sequences

CONSTANTS Sym,          \* the symbols, the constants "y", "m" and "n" among them
          SymType,      \* [Sym -> type]
          ConstSym,     \* the symbols with SYMBOL_CONST: quoted strings, y, m and n
          StrOrder,     \* the strings that occur, in the order of strcmp
          NumberOf      \* [base -> [some of the strings -> the number strto[u]ll reads]]

(* The lexer makes the constants, y, m and n among them, with no type           *)
(* (sym_lookup), and strtoll reads no number from a tristate letter.            *)
ASSUME ConstantAssumption ==
    /\ {"y", "m", "n"} \subseteq ConstSym /\ ConstSym \subseteq Sym
    /\ SymType \in [Sym -> {"unknown", "bool", "tristate", "int", "hex", "string"}]
    /\ \A c \in ConstSym : SymType[c] = "unknown"
    /\ {"y", "m", "n"} \cap DOMAIN NumberOf[0] = {}
    /\ DOMAIN StrOrder \subseteq Nat
    /\ \A i, j \in DOMAIN StrOrder : StrOrder[i] = StrOrder[j] => i = j

Relations == {"eq", "ne", "lt", "le", "gt", "ge"}

S(s)          == [op |-> "sym", sym |-> s]
Not(a)        == [op |-> "not", arg |-> a]
Comp(r, s, t) == [op |-> r, lsym |-> s, rsym |-> t]
Two(t, a, b)  == [op |-> t, le |-> a, re |-> b]

(* A missing expression (NULL) counts as y.                                     *)
Null == [op |-> "null"]

AllocAnd(a, b) == IF a = Null THEN b ELSE IF b = Null THEN a ELSE Two("and", a, b)
AllocOr(a, b)  == IF a = Null THEN b ELSE IF b = Null THEN a ELSE Two("or", a, b)

IsSymbol(e, s) == e.op = "sym" /\ e.sym = s

------------------------------------------------------------------------------
(* Values. An environment has the tristate and the string of every symbol.      *)

Letter(v) == <<"n", "m", "y">>[v + 1]

IsBool(s) == SymType[s] \in {"bool", "tristate"}

(* The values sym_calc_value can give the symbols: a bool is never m, the string*)
(* of a bool or a tristate is its letter, that of a constant its name.          *)
Possible(env) ==
    /\ env.tri \in [Sym -> 0 .. 2]
    /\ env.tri["y"] = 2 /\ env.tri["m"] = 1 /\ env.tri["n"] = 0
    /\ \A s \in Sym : /\ SymType[s] = "bool" => env.tri[s] # 1
                      /\ IsBool(s) => env.str[s] = Letter(env.tri[s])
                      /\ \E i \in DOMAIN StrOrder : StrOrder[i] = env.str[s]
    /\ \A c \in ConstSym : env.str[c] = c

Smaller(v, w) == IF v < w THEN v ELSE w
Greater(v, w) == IF v > w THEN v ELSE w

(* What a comparison reads a string as: a tristate letter for bool and          *)
(* tristate symbols, a number where the whole string is one, else a string.     *)
Base(type) == CASE type = "int" -> 10 [] type = "hex" -> 16 [] OTHER -> 0

ParseString(str, type) ==
    IF type \in {"bool", "tristate"}
    THEN [kind |-> "signed",
          num  |-> CASE str = "n" -> 0 [] str = "m" -> 1 [] str = "y" -> 2 [] OTHER -> -1]
    ELSE IF str \in DOMAIN NumberOf[Base(type)]
         THEN [kind |-> IF type = "hex" THEN "unsigned" ELSE "signed",
               num  |-> NumberOf[Base(type)][str]]
         ELSE [kind |-> "string", num |-> 0]

Sign(less, greater) == IF greater THEN 1 ELSE IF less THEN -1 ELSE 0

StrCmp(a, b) ==
    LET At(s) == CHOOSE i \in DOMAIN StrOrder : StrOrder[i] = s
    IN  Sign(At(a) < At(b), At(a) > At(b))

(* As unsigned numbers the negative ones are the largest.                       *)
UnsignedLess(a, b) == IF (a < 0) = (b < 0) THEN a < b ELSE b < 0

CompareParsed(v, w, k1, k2) ==
    IF \/ v.type = "string" /\ w.type = "string"
       \/ "string" \in {k1.kind, k2.kind}
    THEN StrCmp(v.str, w.str)
    ELSE IF "unsigned" \in {k1.kind, k2.kind}
         THEN Sign(UnsignedLess(k1.num, k2.num), UnsignedLess(k2.num, k1.num))
         ELSE Sign(k1.num < k2.num, k1.num > k2.num)

CompareSymbols(env, s, t) ==
    CompareParsed([str |-> env.str[s], type |-> SymType[s]], [str |-> env.str[t], type |-> SymType[t]],
                  ParseString(env.str[s], SymType[s]), ParseString(env.str[t], SymType[t]))

Holds(r, res) == CASE r = "eq" -> res = 0
                   [] r = "ne" -> res # 0
                   [] r = "lt" -> res < 0
                   [] r = "le" -> res <= 0
                   [] r = "gt" -> res > 0
                   [] r = "ge" -> res >= 0

(* expr_calc_value of a node; a missing expression counts as y.                 *)
ValueOf(e, Value(_), env) ==
    CASE e.op = "null" -> 2
      [] e.op = "sym"  -> env.tri[e.sym]
      [] e.op = "and"  -> Smaller(Value(e.le), Value(e.re))
      [] e.op = "or"   -> Greater(Value(e.le), Value(e.re))
      [] e.op = "not"  -> 2 - Value(e.arg)
      [] OTHER         -> IF Holds(e.op, CompareSymbols(env, e.lsym, e.rsym)) THEN 2 ELSE 0

------------------------------------------------------------------------------
(* Removing y and n below && and ||.                                            *)

Joined(t, a, b) ==
    LET neutral == IF t = "and" THEN "y" ELSE "n"
        zero    == IF t = "and" THEN "n" ELSE "y"
    IN  CASE IsSymbol(a, zero)    -> S(zero)
          [] IsSymbol(a, neutral) -> b
          [] IsSymbol(b, zero)    -> S(zero)
          [] IsSymbol(b, neutral) -> a
          [] OTHER                -> Two(t, a, b)

WithoutYN(e, Without(_)) ==
    IF e.op \notin {"and", "or"} THEN e ELSE Joined(e.op, Without(e.le), Without(e.re))

(* MUTANT: exchanged.                                                           *)
MutNeutral(t) == S(IF t = "or" THEN "y" ELSE "n")

(* What an operand that is taken out of a level is replaced by.                 *)
Neutral(t) == S(IF t = "or" THEN "n" ELSE "y")

(* The operands of one level, one of them taken out.                            *)
TakenOut(t, ops, i) == [ops EXCEPT ![i] = Neutral(t)]

------------------------------------------------------------------------------
(* Joining two operands that are not equal into one; Null when they cannot be   *)
(* joined.                                                                      *)

JoinSym(e) == CASE e.op = "not" -> (IF e.arg.op = "sym" THEN e.arg.sym ELSE e.arg.lsym)
                [] e.op = "sym" -> e.sym
                [] OTHER        -> e.lsym

(* Both are about one bool or tristate symbol, in a form that can be joined.    *)
Joinable(a, b) ==
    /\ {a.op, b.op} \subseteq {"eq", "ne", "sym", "not"}
    /\ a.op = "not" => a.arg.op \in {"eq", "ne", "sym"}
    /\ b.op = "not" => b.arg.op = "sym"
    /\ JoinSym(a) = JoinSym(b)
    /\ IsBool(JoinSym(a))

BothAre(r, a, b, s, t) ==
    a.op = r /\ b.op = r /\ {a.rsym, b.rsym} = {s, t}

OneIsSym(r, a, b, s) ==
    \/ a.op = "sym" /\ b.op = r /\ b.rsym = s
    \/ b.op = "sym" /\ a.op = r /\ a.rsym = s

JoinedOr(a, b) ==
    IF ~Joinable(a, b) THEN Null
    ELSE LET s == JoinSym(a)
             tri == SymType[s] = "tristate"
         IN  CASE tri /\ BothAre("eq", a, b, "y", "m") -> Comp("ne", s, "n")
               [] tri /\ BothAre("eq", a, b, "y", "n") -> Comp("ne", s, "m")
               [] tri /\ BothAre("eq", a, b, "m", "n") -> Comp("ne", s, "y")
               [] ~tri /\ \/ a.op = "not" /\ a.arg.op = "sym" /\ b.op = "sym"
                          \/ b.op = "not" /\ a.op = "sym" -> S("y")
               [] OTHER -> Null

JoinedAnd(a, b) ==
    IF ~Joinable(a, b) THEN Null
    ELSE LET s == JoinSym(a)
             tri == SymType[s] = "tristate"
             Consts == {a.rsym, b.rsym} \subseteq ConstSym
         IN  CASE OneIsSym("eq", a, b, "y") -> Comp("eq", s, "y")
               [] OneIsSym("ne", a, b, "n") -> S(s)
               [] OneIsSym("ne", a, b, "m") -> Comp("eq", s, "y")
               [] tri /\ a.op = "eq" /\ b.op = "ne" /\ Consts ->
                    IF a.rsym # b.rsym THEN Comp("eq", s, a.rsym) ELSE S("n")
               [] tri /\ a.op = "ne" /\ b.op = "eq" /\ Consts ->
                    IF a.rsym # b.rsym THEN Comp("eq", s, b.rsym) ELSE S("n")
               [] tri /\ BothAre("ne", a, b, "y", "n") -> Comp("eq", s, "m")
               [] tri /\ BothAre("ne", a, b, "y", "m") -> Comp("eq", s, "n")
               [] tri /\ BothAre("ne", a, b, "m", "n") -> Comp("eq", s, "y")
               [] OTHER -> Null

(* Two operands i and j of a level after the attempt to join them, where x is   *)
(* operand i as the walk left it: joined they are where operand j was.          *)
AfterJoin(t, ops, i, j, x, join) ==
    IF join = Null THEN [ops EXCEPT ![i] = x] ELSE [TakenOut(t, ops, i) EXCEPT ![j] = join]

------------------------------------------------------------------------------
(* Logical operators and comparisons in a normal form: no ! above && or || or a *)
(* comparison, no comparison of a bool with y, m or n.                          *)

(* The comparison of a bool with a constant.                                    *)
TransformComp(e) ==
    IF SymType[e.lsym] # "bool" \/ e.op \notin {"eq", "ne"} \/ e.rsym \notin {"y", "m", "n"}
    THEN e
    ELSE IF e.rsym = "m" THEN S(IF e.op = "eq" THEN "n" ELSE "y")
    ELSE IF (e.op = "eq") = (e.rsym = "y") THEN S(e.lsym)
    ELSE Not(S(e.lsym))

Opposite == [eq |-> "ne", ne |-> "eq", le |-> "gt", gt |-> "le", ge |-> "lt", lt |-> "ge"]

(* MUTANT: a negation goes into && and || without exchanging them.              *)
MutDual == [and |-> "and", or |-> "or"]
Dual    == [and |-> "or", or |-> "and"]

(* !a, where a is transformed already.                                          *)
Negated(a, Trans(_)) ==
    CASE a.op = "not"           -> Trans(a.arg)
      [] a.op \in Relations     -> Comp(Opposite[a.op], a.lsym, a.rsym)
      [] a.op \in {"and", "or"} -> Trans(Two(Dual[a.op], Not(a.le), Not(a.re)))
      [] IsSymbol(a, "y")       -> S("n")
      [] IsSymbol(a, "n")       -> S("y")
      [] IsSymbol(a, "m")       -> S("m")
      [] OTHER                  -> Not(a)

Transformed(e, Trans(_)) ==
    CASE e.op \in {"and", "or"} -> Two(e.op, Trans(e.le), Trans(e.re))
      [] e.op = "not"           -> Negated(Trans(e.arg), Trans)
      [] e.op \in Relations     -> TransformComp(e)
      [] OTHER                  -> e

(* bool FOO!=n => FOO                                                           *)
AsBoolean(e, Bool(_)) ==
    CASE e.op \in {"and", "or"} -> Two(e.op, Bool(e.le), Bool(e.re))
      [] e.op = "not"           -> Not(Bool(e.arg))
      [] e.op = "ne" /\ SymType[e.lsym] = "tristate" /\ e.rsym = "n" -> S(e.lsym)
      [] OTHER                  -> e

------------------------------------------------------------------------------
(* expr_depends_symbol: the expression cannot hold while s is n.                *)
NeedsSymbol(e, s, Needs(_)) ==
    CASE e.op = "and" -> Needs(e.le) \/ Needs(e.re)
      [] e.op = "sym" -> e.sym = s
      [] e.op = "eq"  -> e.lsym = s /\ e.rsym \in {"y", "m"}
      [] e.op = "ne"  -> e.lsym = s /\ e.rsym = "n"
      [] OTHER        -> FALSE

(* The expression "e = s" or "e != s" written out, s one of y and n.            *)
Compared(e, r, s, Trans(_, _)) ==
    LET Side(both) == IF r = "ne" THEN Not(both) ELSE both
        Sides(t) == Side(Two(t, Trans(e.le, "eq"), Trans(e.re, "eq")))
    IN  CASE e.op = "null" -> IF r = "ne" THEN Not(S(s)) ELSE S(s)
          [] e.op = "and"  -> Sides(IF s = "y" THEN "and" ELSE "or")
          [] e.op = "or"   -> Sides(IF s = "y" THEN "or" ELSE "and")
          [] e.op = "not"  -> Trans(e.arg, IF r = "eq" THEN "ne" ELSE "eq")
          [] e.op = "sym"  -> Comp(r, e.sym, s)
          [] OTHER         -> IF (r = "eq") = (s = "y") THEN e ELSE Not(e)
=============================================================================
