----------------------------- MODULE KNodeProofs -----------------------------
(* What the rewriting of dependency expressions keeps, for expressions of any   *)
(* size over any symbols: by induction over the expressions, with what KNode    *)
(* does to one node as the step.                                                *)
(*                                                                              *)
(* V is the set of expressions and "depth" says that they are finite. A         *)
(* function of expr.c is a function on V, or on the expressions it returns for, *)
(* that satisfies the equation of KNode.                                        *)
EXTENDS KNode, WellFoundedInduction, TLAPS

------------------------------------------------------------------------------
(* Induction.                                                                   *)

LEMMA Least ==
    ASSUME NEW T, T \subseteq Nat, T # {}
    PROVE  \E x \in T : \A y \in T : x <= y
<1>1. \E x \in T : \A y \in T : ~(<<y, x>> \in OpToRel(<, Nat))
  BY NatLessThanWellFounded, WFMin
<1>2. \A x, y \in Nat : <<y, x>> \in OpToRel(<, Nat) <=> y < x
  BY DEF OpToRel
<1>3. PICK x \in T : \A y \in T : ~(<<y, x>> \in OpToRel(<, Nat))
  BY <1>1
<1>4. \A y \in T : x \in Nat /\ y \in Nat /\ ~(y < x)
  BY <1>2, <1>3
<1>5. \A y \in T : x <= y
  BY <1>4
<1> QED BY <1>3, <1>5

(* What holds of an expression as soon as it holds of all of lower rank holds   *)
(* of all.                                                                      *)
LEMMA ByRank ==
    ASSUME NEW E, NEW rank \in [E -> Nat], NEW Good,
           \A e \in E : (\A f \in E : rank[f] < rank[e] => f \in Good) => e \in Good
    PROVE  E \subseteq Good
<1> SUFFICES ASSUME E \ Good # {} PROVE FALSE
  OBVIOUS
<1> DEFINE Ranks == {rank[e] : e \in E \ Good}
<1>1. Ranks \subseteq Nat /\ Ranks # {}
  OBVIOUS
<1>2. PICK n \in Ranks : \A m \in Ranks : n <= m
  <2> HIDE DEF Ranks
  <2> QED BY <1>1, Least
<1>3. PICK e \in E \ Good : rank[e] = n
  BY <1>2
<1>4. \A f \in E : rank[f] < rank[e] => f \in Good
  <2> SUFFICES ASSUME NEW f \in E, rank[f] < rank[e], f \notin Good PROVE FALSE
    OBVIOUS
  <2>1. rank[f] \in Ranks
    OBVIOUS
  <2>2. n <= rank[f] /\ n \in Nat /\ rank[f] \in Nat
    BY <1>1, <1>2, <2>1
  <2> QED BY <1>3, <2>2
<1> QED BY <1>3, <1>4

------------------------------------------------------------------------------
(* Expressions and their values.                                                *)

Logical == {"and", "or"}

Expressions(V, depth) ==
    /\ \A s \in Sym : S(s) \in V
    /\ \A r \in Relations, s, t \in Sym : Comp(r, s, t) \in V
    /\ \A a \in V : Not(a) \in V
    /\ \A t \in Logical, a, b \in V : Two(t, a, b) \in V
    /\ \A e \in V : \/ \E s \in Sym : e = S(s)
                    \/ \E r \in Relations, s, t \in Sym : e = Comp(r, s, t)
                    \/ \E a \in V : e = Not(a)
                    \/ \E t \in Logical, a, b \in V : e = Two(t, a, b)
    /\ depth \in [V -> Nat]
    /\ \A a \in V : depth[a] < depth[Not(a)]
    /\ \A t \in Logical, a, b \in V : depth[a] < depth[Two(t, a, b)] /\ depth[b] < depth[Two(t, a, b)]

IsTri(s) == s \in Sym /\ IsBool(s)

(* What expr_calc_value returns for the expressions.                            *)
Valuation(val, V, env) ==
    /\ val \in [V -> 0 .. 2]
    /\ \A e \in V : val[e] = ValueOf(e, LAMBDA x : val[x], env)

LEMMA Nodes == \A s, t, a, b, r :
    /\ S(s).op = "sym" /\ S(s).sym = s
    /\ Comp(r, s, t).op = r /\ Comp(r, s, t).lsym = s /\ Comp(r, s, t).rsym = t
    /\ Not(a).op = "not" /\ Not(a).arg = a
    /\ Two(t, a, b).op = t /\ Two(t, a, b).le = a /\ Two(t, a, b).re = b
BY DEF S, Comp, Not, Two

LEMMA Parts ==
    ASSUME NEW V, NEW depth, Expressions(V, depth), NEW e \in V
    PROVE  /\ e.op \in {"sym", "not"} \union Logical \union Relations
           /\ e.op = "sym" => e.sym \in Sym /\ e = S(e.sym)
           /\ e.op \in Relations => e.lsym \in Sym /\ e.rsym \in Sym /\ e = Comp(e.op, e.lsym, e.rsym)
           /\ e.op = "not" => e.arg \in V /\ e = Not(e.arg) /\ depth[e.arg] < depth[e]
           /\ e.op \in Logical => /\ e.le \in V /\ e.re \in V /\ e = Two(e.op, e.le, e.re)
                                  /\ depth[e.le] < depth[e] /\ depth[e.re] < depth[e]
<1>1. CASE \E s \in Sym : e = S(s)
  BY <1>1, Nodes DEF Logical, Relations
<1>2. CASE \E r \in Relations, s, t \in Sym : e = Comp(r, s, t)
  BY <1>2, Nodes DEF Logical, Relations
<1>3. CASE \E a \in V : e = Not(a)
  BY <1>3, Nodes DEF Logical, Relations, Expressions
<1>4. CASE \E t \in Logical, a, b \in V : e = Two(t, a, b)
  <2>1. PICK t \in Logical, a \in V, b \in V : e = Two(t, a, b)
    BY <1>4
  <2>2. e.op = t /\ e.le = a /\ e.re = b
    BY <2>1, Nodes
  <2>3. depth[a] < depth[e] /\ depth[b] < depth[e]
    BY <2>1 DEF Expressions
  <2> QED BY <2>1, <2>2, <2>3 DEF Logical, Relations
<1> QED BY <1>1, <1>2, <1>3, <1>4 DEF Expressions

LEMMA Values ==
    ASSUME NEW V, NEW depth, Expressions(V, depth), NEW env, NEW val, Valuation(val, V, env)
    PROVE  /\ \A e \in V : val[e] \in 0 .. 2
           /\ \A s \in Sym : val[S(s)] = env.tri[s]
           /\ \A a \in V : val[Not(a)] = 2 - val[a]
           /\ \A a, b \in V : /\ val[Two("and", a, b)] = Smaller(val[a], val[b])
                              /\ val[Two("or", a, b)] = Greater(val[a], val[b])
           /\ \A r \in Relations, s, t \in Sym :
                 val[Comp(r, s, t)] = IF Holds(r, CompareSymbols(env, s, t)) THEN 2 ELSE 0
<1>1. \A e \in V : val[e] \in 0 .. 2 /\ val[e] = ValueOf(e, LAMBDA x : val[x], env)
  BY DEF Valuation
<1>2. ASSUME NEW s \in Sym PROVE val[S(s)] = env.tri[s]
  BY <1>1, Nodes DEF ValueOf, Expressions
<1>3. ASSUME NEW a \in V PROVE val[Not(a)] = 2 - val[a]
  BY <1>1, Nodes DEF ValueOf, Expressions
<1>4. ASSUME NEW a \in V, NEW b \in V
      PROVE  /\ val[Two("and", a, b)] = Smaller(val[a], val[b])
             /\ val[Two("or", a, b)] = Greater(val[a], val[b])
  BY <1>1, Nodes DEF ValueOf, Expressions, Logical
<1>5. ASSUME NEW r \in Relations, NEW s \in Sym, NEW t \in Sym
      PROVE  val[Comp(r, s, t)] = IF Holds(r, CompareSymbols(env, s, t)) THEN 2 ELSE 0
  <2>1. Comp(r, s, t).op \notin {"null", "sym", "and", "or", "not"}
    BY Nodes DEF Relations
  <2>2. Comp(r, s, t) \in V
    BY DEF Expressions
  <2> QED BY <1>1, <2>1, <2>2, Nodes DEF ValueOf
<1> QED BY <1>1, <1>2, <1>3, <1>4, <1>5
------------------------------------------------------------------------------
(* A bool or tristate compared with a constant that is no number.               *)

IsWord(c) == c \in ConstSym /\ c \notin DOMAIN NumberOf[0]

LEMMA Letters == \A c \in {"y", "m", "n"} : IsWord(c) /\ c \in Sym
BY ConstantAssumption DEF IsWord

LEMMA StringsDiffer ==
    ASSUME NEW a, NEW b, \E i \in DOMAIN StrOrder : StrOrder[i] = a,
           \E i \in DOMAIN StrOrder : StrOrder[i] = b
    PROVE  StrCmp(a, b) = 0 <=> a = b
<1> DEFINE i == CHOOSE k \in DOMAIN StrOrder : StrOrder[k] = a
           j == CHOOSE k \in DOMAIN StrOrder : StrOrder[k] = b
<1>1. i \in DOMAIN StrOrder /\ StrOrder[i] = a
  OBVIOUS
<1>2. j \in DOMAIN StrOrder /\ StrOrder[j] = b
  OBVIOUS
<1>3. StrCmp(a, b) = Sign(i < j, i > j)
  BY DEF StrCmp
<1> HIDE DEF i, j
<1>4. i = j <=> a = b
  BY <1>1, <1>2, ConstantAssumption
<1>5. i \in Int /\ j \in Int
  BY <1>1, <1>2, ConstantAssumption
<1>6. Sign(i < j, i > j) = 0 <=> i = j
  BY <1>5 DEF Sign
<1> QED BY <1>3, <1>4, <1>6

LEMMA WordCompares ==
    ASSUME NEW env, Possible(env), NEW s, IsTri(s), NEW c, IsWord(c)
    PROVE  CompareSymbols(env, s, c) = 0 <=> env.str[s] = c
<1>1. c \in Sym /\ s \in Sym /\ SymType[c] = "unknown" /\ SymType[s] \in {"bool", "tristate"} /\ env.str[c] = c
  BY ConstantAssumption DEF IsWord, IsTri, IsBool, Possible
<1>2. ParseString(env.str[c], SymType[c]).kind = "string"
  BY <1>1 DEF ParseString, Base, IsWord
<1>3. CompareSymbols(env, s, c) = StrCmp(env.str[s], c)
  BY <1>1, <1>2 DEF CompareSymbols, CompareParsed
<1>4. /\ \E i \in DOMAIN StrOrder : StrOrder[i] = env.str[s]
      /\ \E i \in DOMAIN StrOrder : StrOrder[i] = c
  BY <1>1 DEF Possible
<1> QED BY <1>3, <1>4, StringsDiffer

LEMMA WordsCompare ==
    ASSUME NEW env, Possible(env), NEW b, IsWord(b), NEW c, IsWord(c)
    PROVE  CompareSymbols(env, b, c) = 0 <=> b = c
<1>1. /\ c \in Sym /\ SymType[c] = "unknown" /\ env.str[c] = c
      /\ b \in Sym /\ SymType[b] = "unknown" /\ env.str[b] = b
  BY ConstantAssumption DEF IsWord, Possible
<1>2. ParseString(env.str[c], SymType[c]).kind = "string"
  BY <1>1 DEF ParseString, Base, IsWord
<1>3. CompareSymbols(env, b, c) = StrCmp(b, c)
  BY <1>1, <1>2 DEF CompareSymbols, CompareParsed
<1>4. /\ \E i \in DOMAIN StrOrder : StrOrder[i] = b
      /\ \E i \in DOMAIN StrOrder : StrOrder[i] = c
  BY <1>1 DEF Possible
<1> QED BY <1>3, <1>4, StringsDiffer

LetterValue(c) == CASE c = "n" -> 0 [] c = "m" -> 1 [] c = "y" -> 2

(* s=y, s=m, s=n and their opposites.                                           *)
LEMMA LetterCompares ==
    ASSUME NEW env, Possible(env), NEW s, IsTri(s), NEW c \in {"y", "m", "n"}
    PROVE  /\ env.tri[s] \in 0 .. 2 /\ (SymType[s] = "bool" => env.tri[s] # 1)
           /\ CompareSymbols(env, s, c) = 0 <=> env.tri[s] = LetterValue(c)
<1>1. env.tri[s] \in {0, 1, 2} /\ env.str[s] = Letter(env.tri[s])
  BY DEF Possible, IsTri, IsBool
<1>2. CompareSymbols(env, s, c) = 0 <=> env.str[s] = c
  BY WordCompares, Letters
<1>3. env.str[s] = c <=> env.tri[s] = LetterValue(c)
  BY <1>1 DEF Letter, LetterValue
<1> QED BY <1>1, <1>2, <1>3 DEF Possible, IsTri, IsBool
------------------------------------------------------------------------------
(* Joining two operands.                                                        *)

(* The right side of a comparison, where it is a constant, is no number: else   *)
(* FOO="y" && FOO!="2" is joined to FOO="y", though "2" compares equal to y.    *)
NoNumbers(e) == e.op \in Relations /\ e.rsym \in ConstSym => IsWord(e.rsym)

(* What an operand that can be joined says about the symbol.                    *)
About(x, s, env, val) ==
    /\ x.op = "sym" => val[x] = env.tri[s]
    /\ x.op = "eq" => val[x] = IF CompareSymbols(env, s, x.rsym) = 0 THEN 2 ELSE 0
    /\ x.op = "ne" => val[x] = IF CompareSymbols(env, s, x.rsym) = 0 THEN 0 ELSE 2
    /\ x.op = "not" /\ x.arg.op = "sym" => val[x] = 2 - env.tri[s]

LEMMA Said ==
    ASSUME NEW V, NEW depth, Expressions(V, depth), NEW env, NEW val, Valuation(val, V, env),
           NEW x \in V, x.op \in {"sym", "eq", "ne", "not"}
    PROVE  /\ About(x, JoinSym(x), env, val)
           /\ x.op # "not" => JoinSym(x) \in Sym
<1>1. CASE x.op = "sym"
  <2>1. x.sym \in Sym /\ x = S(x.sym) /\ JoinSym(x) = x.sym
    BY <1>1, Parts DEF JoinSym
  <2>2. val[x] = env.tri[x.sym]
    BY <2>1, Values
  <2> QED BY <1>1, <2>1, <2>2 DEF About
<1>2. CASE x.op \in {"eq", "ne"}
  <2>1. x.lsym \in Sym /\ x.rsym \in Sym /\ x = Comp(x.op, x.lsym, x.rsym) /\ JoinSym(x) = x.lsym
    BY <1>2, Parts DEF JoinSym, Relations
  <2>2. val[x] = IF Holds(x.op, CompareSymbols(env, x.lsym, x.rsym)) THEN 2 ELSE 0
    BY <1>2, <2>1, Values DEF Relations
  <2> QED BY <1>2, <2>1, <2>2 DEF About, Holds
<1>3. CASE x.op = "not"
  <2>1. x.arg \in V /\ x = Not(x.arg)
    BY <1>3, Parts
  <2>2. val[x] = 2 - val[x.arg]
    BY <2>1, Values
  <2>3. x.arg.op = "sym" => JoinSym(x) = x.arg.sym /\ val[x.arg] = env.tri[x.arg.sym]
    BY <1>3, <2>1, Parts, Values DEF JoinSym
  <2> QED BY <1>3, <2>2, <2>3 DEF About
<1> QED BY <1>1, <1>2, <1>3

(* The symbol two operands that can be joined are about.                        *)
LEMMA Agreed ==
    ASSUME NEW V, NEW depth, Expressions(V, depth), NEW env, Possible(env),
           NEW val, Valuation(val, V, env), NEW a \in V, NEW b \in V, Joinable(a, b)
    PROVE  /\ IsTri(JoinSym(a)) /\ JoinSym(b) = JoinSym(a)
           /\ About(a, JoinSym(a), env, val) /\ About(b, JoinSym(a), env, val)
<1>1. /\ {a.op, b.op} \subseteq {"eq", "ne", "sym", "not"} /\ JoinSym(a) = JoinSym(b)
      /\ IsBool(JoinSym(a))
      /\ a.op = "not" => a.arg.op \in {"eq", "ne", "sym"}
  BY DEF Joinable
<1>2. a.op = "not" => JoinSym(a) \in Sym
  <2>1. a.op = "not" => a.arg \in V
    BY Parts
  <2>2. a.op = "not" /\ a.arg.op = "sym" => a.arg.sym \in Sym
    BY <2>1, Parts
  <2>3. a.op = "not" /\ a.arg.op \in {"eq", "ne"} => a.arg.lsym \in Sym
    BY <2>1, Parts DEF Relations
  <2> QED BY <1>1, <2>2, <2>3 DEF JoinSym
<1> QED BY <1>1, <1>2, Said DEF IsTri, IsBool

LEMMA LettersCompare ==
    ASSUME NEW env, Possible(env), NEW s, IsTri(s)
    PROVE  /\ env.tri[s] \in {0, 1, 2} /\ (SymType[s] = "bool" => env.tri[s] # 1)
           /\ CompareSymbols(env, s, "y") = 0 <=> env.tri[s] = 2
           /\ CompareSymbols(env, s, "m") = 0 <=> env.tri[s] = 1
           /\ CompareSymbols(env, s, "n") = 0 <=> env.tri[s] = 0
BY LetterCompares DEF LetterValue

(* Two operands joined by || have the value of the two.                         *)
THEOREM JoinedOrKeepsValue ==
    ASSUME NEW V, NEW depth, Expressions(V, depth), NEW env, Possible(env),
           NEW val, Valuation(val, V, env),
           NEW a \in V, NEW b \in V, JoinedOr(a, b) # Null
    PROVE  val[JoinedOr(a, b)] = val[Two("or", a, b)]
<1>1. Joinable(a, b)
  BY DEF JoinedOr
<1> DEFINE s == JoinSym(a)
           v == env.tri[s]
<1>2. /\ IsTri(s) /\ JoinSym(b) = s
      /\ About(a, s, env, val) /\ About(b, s, env, val)
  BY <1>1, Agreed
<1>3. /\ v \in {0, 1, 2} /\ (SymType[s] = "bool" => v # 1)
      /\ CompareSymbols(env, s, "y") = 0 <=> v = 2
      /\ CompareSymbols(env, s, "m") = 0 <=> v = 1
      /\ CompareSymbols(env, s, "n") = 0 <=> v = 0
  BY <1>2, LettersCompare
<1>4. val[Two("or", a, b)] = Greater(val[a], val[b])
  BY Values
<1>5. s \in Sym /\ {"y", "m", "n"} \subseteq Sym /\ "ne" \in Relations
  BY <1>2, ConstantAssumption DEF IsTri, IsBool, Relations
<1>6. ASSUME NEW c \in {"y", "m", "n"}
      PROVE  val[Comp("ne", s, c)] = IF CompareSymbols(env, s, c) = 0 THEN 0 ELSE 2
  <2>1. val[Comp("ne", s, c)] = IF Holds("ne", CompareSymbols(env, s, c)) THEN 2 ELSE 0
    BY <1>5, Values
  <2> QED BY <2>1 DEF Holds
<1> HIDE DEF s
<1>7. CASE BothAre("eq", a, b, "y", "m") /\ JoinedOr(a, b) = Comp("ne", s, "n")
  BY <1>2, <1>3, <1>4, <1>6, <1>7 DEF BothAre, About, Greater
<1>8. CASE BothAre("eq", a, b, "y", "n") /\ JoinedOr(a, b) = Comp("ne", s, "m")
  BY <1>2, <1>3, <1>4, <1>6, <1>8 DEF BothAre, About, Greater
<1>9. CASE BothAre("eq", a, b, "m", "n") /\ JoinedOr(a, b) = Comp("ne", s, "y")
  BY <1>2, <1>3, <1>4, <1>6, <1>9 DEF BothAre, About, Greater
<1>10. CASE /\ SymType[s] # "tristate" /\ JoinedOr(a, b) = S("y")
            /\ \/ a.op = "not" /\ a.arg.op = "sym" /\ b.op = "sym"
               \/ b.op = "not" /\ a.op = "sym"
  <2>1. SymType[s] = "bool" /\ (b.op = "not" => b.arg.op = "sym")
    BY <1>1, <1>2, <1>10 DEF IsTri, IsBool, Joinable
  <2>2. val[S("y")] = 2
    BY <1>5, Values DEF Possible
  <2> QED BY <1>2, <1>3, <1>4, <1>10, <2>1, <2>2 DEF About, Greater
<1> QED BY <1>1, <1>7, <1>8, <1>9, <1>10 DEF JoinedOr, s

(* The same for && where the constants compared with are no numbers.            *)
THEOREM JoinedAndKeepsValue ==
    ASSUME NEW V, NEW depth, Expressions(V, depth), NEW env, Possible(env),
           NEW val, Valuation(val, V, env),
           NEW a \in V, NEW b \in V, NoNumbers(a), NoNumbers(b), JoinedAnd(a, b) # Null
    PROVE  val[JoinedAnd(a, b)] = val[Two("and", a, b)]
<1>1. Joinable(a, b)
  BY DEF JoinedAnd
<1> DEFINE s == JoinSym(a)
           v == env.tri[s]
<1>2. /\ IsTri(s) /\ JoinSym(b) = s
      /\ About(a, s, env, val) /\ About(b, s, env, val)
  BY <1>1, Agreed
<1>3. /\ v \in {0, 1, 2}
      /\ CompareSymbols(env, s, "y") = 0 <=> v = 2
      /\ CompareSymbols(env, s, "m") = 0 <=> v = 1
      /\ CompareSymbols(env, s, "n") = 0 <=> v = 0
  BY <1>2, LettersCompare
<1>4. val[Two("and", a, b)] = Smaller(val[a], val[b])
  BY Values
<1>5. s \in Sym /\ {"y", "m", "n"} \subseteq Sym /\ {"eq", "ne"} \subseteq Relations
  BY <1>2, ConstantAssumption DEF IsTri, IsBool, Relations
<1>6. ASSUME NEW c \in Sym
      PROVE  val[Comp("eq", s, c)] = IF CompareSymbols(env, s, c) = 0 THEN 2 ELSE 0
  <2>1. val[Comp("eq", s, c)] = IF Holds("eq", CompareSymbols(env, s, c)) THEN 2 ELSE 0
    BY <1>5, Values
  <2> QED BY <2>1 DEF Holds
<1>7. val[S(s)] = v /\ val[S("n")] = 0
  BY <1>5, Values DEF Possible
<1> DEFINE Consts == {a.rsym, b.rsym} \subseteq ConstSym
           Different(x, y) == IF x.rsym # y.rsym THEN Comp("eq", s, x.rsym) ELSE S("n")
<1>8. ASSUME NEW x \in V, NEW y \in V, NoNumbers(x), NoNumbers(y), x.op = "eq", y.op = "ne",
             {x.rsym, y.rsym} \subseteq ConstSym, About(x, s, env, val), About(y, s, env, val)
      PROVE  val[Different(x, y)] = Smaller(val[x], val[y])
  <2>1. IsWord(x.rsym) /\ IsWord(y.rsym) /\ x.rsym \in Sym
    BY <1>8, ConstantAssumption DEF NoNumbers, Relations
  <2>2. /\ CompareSymbols(env, s, x.rsym) = 0 <=> env.str[s] = x.rsym
        /\ CompareSymbols(env, s, y.rsym) = 0 <=> env.str[s] = y.rsym
    BY <1>2, <2>1, WordCompares
  <2>3. /\ val[x] = IF env.str[s] = x.rsym THEN 2 ELSE 0
        /\ val[y] = IF env.str[s] = y.rsym THEN 0 ELSE 2
        /\ val[Comp("eq", s, x.rsym)] = IF env.str[s] = x.rsym THEN 2 ELSE 0
    BY <1>6, <1>8, <2>1, <2>2 DEF About
  <2> QED BY <1>7, <2>3 DEF Smaller
<1> HIDE DEF s
<1>9. CASE OneIsSym("eq", a, b, "y") /\ JoinedAnd(a, b) = Comp("eq", s, "y")
  BY <1>2, <1>3, <1>4, <1>5, <1>6, <1>9 DEF OneIsSym, About, Smaller
<1>10. CASE OneIsSym("ne", a, b, "n") /\ JoinedAnd(a, b) = S(s)
  BY <1>2, <1>3, <1>4, <1>7, <1>10 DEF OneIsSym, About, Smaller
<1>11. CASE OneIsSym("ne", a, b, "m") /\ JoinedAnd(a, b) = Comp("eq", s, "y")
  BY <1>2, <1>3, <1>4, <1>5, <1>6, <1>11 DEF OneIsSym, About, Smaller
<1>12. CASE a.op = "eq" /\ b.op = "ne" /\ Consts /\ JoinedAnd(a, b) = Different(a, b)
  BY <1>2, <1>4, <1>8, <1>12
<1>13. CASE a.op = "ne" /\ b.op = "eq" /\ Consts /\ JoinedAnd(a, b) = Different(b, a)
  <2>1. val[Different(b, a)] = Smaller(val[b], val[a])
    BY <1>2, <1>8, <1>13
  <2> QED BY <1>4, <1>13, <2>1, Values DEF Smaller
<1>14. CASE BothAre("ne", a, b, "y", "n") /\ JoinedAnd(a, b) = Comp("eq", s, "m")
  BY <1>2, <1>3, <1>4, <1>5, <1>6, <1>14 DEF BothAre, About, Smaller
<1>15. CASE BothAre("ne", a, b, "y", "m") /\ JoinedAnd(a, b) = Comp("eq", s, "n")
  BY <1>2, <1>3, <1>4, <1>5, <1>6, <1>15 DEF BothAre, About, Smaller
<1>16. CASE BothAre("ne", a, b, "m", "n") /\ JoinedAnd(a, b) = Comp("eq", s, "y")
  BY <1>2, <1>3, <1>4, <1>5, <1>6, <1>16 DEF BothAre, About, Smaller
<1> QED
  <2>1. \/ OneIsSym("eq", a, b, "y") /\ JoinedAnd(a, b) = Comp("eq", s, "y")
        \/ OneIsSym("ne", a, b, "n") /\ JoinedAnd(a, b) = S(s)
        \/ OneIsSym("ne", a, b, "m") /\ JoinedAnd(a, b) = Comp("eq", s, "y")
        \/ a.op = "eq" /\ b.op = "ne" /\ Consts /\ JoinedAnd(a, b) = Different(a, b)
        \/ a.op = "ne" /\ b.op = "eq" /\ Consts /\ JoinedAnd(a, b) = Different(b, a)
        \/ BothAre("ne", a, b, "y", "n") /\ JoinedAnd(a, b) = Comp("eq", s, "m")
        \/ BothAre("ne", a, b, "y", "m") /\ JoinedAnd(a, b) = Comp("eq", s, "n")
        \/ BothAre("ne", a, b, "m", "n") /\ JoinedAnd(a, b) = Comp("eq", s, "y")
    <3>1. a.rsym # b.rsym <=> b.rsym # a.rsym
      OBVIOUS
    <3> QED BY <1>1, <3>1 DEF JoinedAnd, s
  <2> QED BY <2>1, <1>9, <1>10, <1>11, <1>12, <1>13, <1>14, <1>15, <1>16
------------------------------------------------------------------------------
(* Functions that walk through an expression.                                   *)

Eliminates(el, V) == el \in [V -> V] /\ \A e \in V : el[e] = WithoutYN(e, LAMBDA x : el[x])

LEMMA LetterSymbols ==
    ASSUME NEW V, NEW depth, Expressions(V, depth), NEW env, Possible(env),
           NEW val, Valuation(val, V, env)
    PROVE  /\ S("y") \in V /\ val[S("y")] = 2
           /\ S("m") \in V /\ val[S("m")] = 1
           /\ S("n") \in V /\ val[S("n")] = 0
<1>1. {"y", "m", "n"} \subseteq Sym
  BY ConstantAssumption
<1>2. \A s \in Sym : S(s) \in V /\ val[S(s)] = env.tri[s]
  <2>1. \A s \in Sym : S(s) \in V
    BY DEF Expressions
  <2>2. ASSUME NEW s \in Sym PROVE val[S(s)] = env.tri[s]
    BY Values
  <2> QED BY <2>1, <2>2
<1> QED BY <1>1, <1>2 DEF Possible

LEMMA IsLetter ==
    ASSUME NEW V, NEW depth, Expressions(V, depth), NEW e \in V, NEW s, IsSymbol(e, s)
    PROVE  e = S(s)
BY Parts DEF IsSymbol

(* expr_eliminate_yn: y and n below && and || go, the value stays.              *)
THEOREM EliminateYNKeepsValue ==
    ASSUME NEW V, NEW depth, Expressions(V, depth), NEW env, Possible(env),
           NEW val, Valuation(val, V, env), NEW el, Eliminates(el, V)
    PROVE  \A e \in V : val[el[e]] = val[e]
<1> DEFINE Good == {e \in V : val[el[e]] = val[e]}
<1>1. ASSUME NEW e \in V, \A f \in V : depth[f] < depth[e] => f \in Good
      PROVE  e \in Good
  <2>1. CASE e.op \notin Logical
    <3>1. el[e] = e
      BY <2>1 DEF Eliminates, WithoutYN, Logical
    <3> QED BY <3>1
  <2>2. CASE e.op \in Logical
    <3>1. /\ e.le \in V /\ e.re \in V /\ e = Two(e.op, e.le, e.re)
          /\ e.le \in Good /\ e.re \in Good
      BY <1>1, <2>2, Parts
    <3>2. el[e] = Joined(e.op, el[e.le], el[e.re])
      BY <2>2 DEF Eliminates, WithoutYN, Logical
    <3> DEFINE a == el[e.le]
               b == el[e.re]
    <3>3. a \in V /\ b \in V /\ val[a] = val[e.le] /\ val[b] = val[e.re]
      BY <3>1 DEF Eliminates
    <3> HIDE DEF a, b
    <3>4. /\ val[a] \in {0, 1, 2} /\ val[b] \in {0, 1, 2}
          /\ IsSymbol(a, "y") => val[a] = 2
          /\ IsSymbol(a, "n") => val[a] = 0
          /\ IsSymbol(b, "y") => val[b] = 2
          /\ IsSymbol(b, "n") => val[b] = 0
          /\ val[S("y")] = 2 /\ val[S("n")] = 0
      BY <3>3, Values, IsLetter, LetterSymbols
    <3>5. CASE e.op = "and"
      <4>1. val[e] = Smaller(val[a], val[b]) /\ val[Two("and", a, b)] = Smaller(val[a], val[b])
        BY <3>1, <3>3, <3>5, Values
      <4>2. val[Joined("and", a, b)] = Smaller(val[a], val[b])
        BY <3>4, <4>1 DEF Joined, Smaller
      <4> QED BY <3>2, <3>5, <4>1, <4>2 DEF a, b
    <3>6. CASE e.op = "or"
      <4>1. val[e] = Greater(val[a], val[b]) /\ val[Two("or", a, b)] = Greater(val[a], val[b])
        BY <3>1, <3>3, <3>6, Values
      <4>2. val[Joined("or", a, b)] = Greater(val[a], val[b])
        BY <3>4, <4>1 DEF Joined, Greater
      <4> QED BY <3>2, <3>6, <4>1, <4>2 DEF a, b
    <3> QED BY <2>2, <3>5, <3>6 DEF Logical
  <2> QED BY <2>1, <2>2
<1>2. depth \in [V -> Nat]
  BY DEF Expressions
<1>3. V \subseteq Good
  <2> HIDE DEF Good
  <2> QED BY <1>1, <1>2, ByRank
<1> QED BY <1>3

(* expr_transform returns for the expressions of E; a call for an expression    *)
(* makes only calls of lower rank (rank: the height of the tree of calls).      *)
Transforms(tr, E, rank, V) ==
    /\ E \subseteq V /\ tr \in [E -> V] /\ rank \in [E -> Nat]
    /\ \A e \in E :
          /\ tr[e] = Transformed(e, LAMBDA x : tr[x])
          /\ e.op \in Logical => /\ e.le \in E /\ rank[e.le] < rank[e]
                                 /\ e.re \in E /\ rank[e.re] < rank[e]
          /\ e.op = "not" =>
               /\ e.arg \in E /\ rank[e.arg] < rank[e]
               /\ LET a == tr[e.arg]
                      again == Two(Dual[a.op], Not(a.le), Not(a.re))
                  IN  /\ a.op = "not" => a.arg \in E /\ rank[a.arg] < rank[e]
                      /\ a.op \in Logical => again \in E /\ rank[again] < rank[e]

(* The comparison of a bool keeps its value.                                    *)
LEMMA TransformCompKeepsValue ==
    ASSUME NEW V, NEW depth, Expressions(V, depth), NEW env, Possible(env),
           NEW val, Valuation(val, V, env), NEW e \in V, e.op \in Relations
    PROVE  val[TransformComp(e)] = val[e]
<1> DEFINE s == e.lsym
<1>1. s \in Sym /\ e.rsym \in Sym /\ e = Comp(e.op, s, e.rsym) /\ S(s) \in V
  BY Parts DEF Expressions
<1>2. CASE SymType[s] # "bool" \/ e.op \notin {"eq", "ne"} \/ e.rsym \notin {"y", "m", "n"}
  BY <1>2 DEF TransformComp
<1>3. CASE SymType[s] = "bool" /\ e.op \in {"eq", "ne"} /\ e.rsym \in {"y", "m", "n"}
  <2>1. /\ env.tri[s] \in {0, 2}
        /\ CompareSymbols(env, s, "y") = 0 <=> env.tri[s] = 2
        /\ CompareSymbols(env, s, "m") # 0
        /\ CompareSymbols(env, s, "n") = 0 <=> env.tri[s] = 0
    BY <1>1, <1>3, LettersCompare DEF IsTri, IsBool
  <2>2. val[S(s)] = env.tri[s] /\ val[Not(S(s))] = 2 - env.tri[s]
        /\ val[S("y")] = 2 /\ val[S("n")] = 0
    BY <1>1, Values, LetterSymbols
  <2>3. val[e] = IF Holds(e.op, CompareSymbols(env, s, e.rsym)) THEN 2 ELSE 0
    BY <1>1, Values
  <2>4. /\ e.op = "eq" => val[e] = IF CompareSymbols(env, s, e.rsym) = 0 THEN 2 ELSE 0
        /\ e.op = "ne" => val[e] = IF CompareSymbols(env, s, e.rsym) = 0 THEN 0 ELSE 2
    BY <2>3 DEF Holds
  <2>5. TransformComp(e) = IF e.rsym = "m" THEN S(IF e.op = "eq" THEN "n" ELSE "y")
                           ELSE IF (e.op = "eq") = (e.rsym = "y") THEN S(s) ELSE Not(S(s))
    BY <1>3 DEF TransformComp
  <2> HIDE DEF s
  <2>6. CASE e.rsym = "m"
    <3>1. TransformComp(e) = S(IF e.op = "eq" THEN "n" ELSE "y")
      BY <2>5, <2>6
    <3>2. CASE e.op = "eq"
      <4>1. TransformComp(e) = S("n") /\ val[e] = 0
        BY <2>1, <2>4, <2>6, <3>1, <3>2
      <4> QED BY <2>2, <4>1
    <3>3. CASE e.op = "ne"
      <4>1. TransformComp(e) = S("y") /\ val[e] = 2
        BY <2>1, <2>4, <2>6, <3>1, <3>3
      <4> QED BY <2>2, <4>1
    <3> QED BY <1>3, <3>2, <3>3
  <2>7. CASE e.rsym = "y"
    BY <1>3, <2>1, <2>2, <2>4, <2>5, <2>7
  <2>8. CASE e.rsym = "n"
    BY <1>3, <2>1, <2>2, <2>4, <2>5, <2>8
  <2> QED BY <1>3, <2>6, <2>7, <2>8
<1> QED BY <1>2, <1>3

LEMMA CompareIsInt == \A env, s, t : CompareSymbols(env, s, t) \in {-1, 0, 1}
BY DEF CompareSymbols, CompareParsed, StrCmp, Sign

LEMMA OppositeHolds ==
    ASSUME NEW r \in Relations, NEW res \in {-1, 0, 1}
    PROVE  Opposite[r] \in Relations /\ (Holds(Opposite[r], res) <=> ~Holds(r, res))
<1>1. /\ Opposite["eq"] = "ne" /\ Opposite["ne"] = "eq" /\ Opposite["le"] = "gt"
      /\ Opposite["gt"] = "le" /\ Opposite["ge"] = "lt" /\ Opposite["lt"] = "ge"
  BY DEF Opposite
<1>2. /\ Holds("eq", res) <=> res = 0
      /\ Holds("ne", res) <=> res # 0
      /\ Holds("lt", res) <=> res < 0
      /\ Holds("le", res) <=> res <= 0
      /\ Holds("gt", res) <=> res > 0
      /\ Holds("ge", res) <=> res >= 0
  BY DEF Holds
<1> QED BY <1>1, <1>2 DEF Relations

(* What one call returns.                                                       *)
LEMMA Returned ==
    ASSUME NEW V, NEW tr, NEW E, NEW rank, Transforms(tr, E, rank, V), NEW e \in E
    PROVE  /\ e \in V
           /\ e.op \in Logical => tr[e] = Two(e.op, tr[e.le], tr[e.re])
           /\ e.op \in Relations => tr[e] = TransformComp(e)
           /\ e.op = "sym" => tr[e] = e
<1>1. e \in V
  BY DEF Transforms
<1>2. tr[e] = Transformed(e, LAMBDA x : tr[x])
  BY DEF Transforms
<1> QED BY <1>1, <1>2 DEF Transformed, Relations, Logical

LEMMA ReturnedNegated ==
    ASSUME NEW V, NEW tr, NEW E, NEW rank, Transforms(tr, E, rank, V), NEW e \in E, e.op = "not",
           NEW a, a = tr[e.arg]
    PROVE  /\ a.op = "not" => tr[e] = tr[a.arg]
           /\ a.op \in Relations => tr[e] = Comp(Opposite[a.op], a.lsym, a.rsym)
           /\ a.op \in Logical => tr[e] = tr[Two(Dual[a.op], Not(a.le), Not(a.re))]
           /\ a.op = "sym" => tr[e] = IF a.sym = "y" THEN S("n") ELSE IF a.sym = "n" THEN S("y")
                                      ELSE IF a.sym = "m" THEN S("m") ELSE Not(a)
<1>1. tr[e] = Transformed(e, LAMBDA x : tr[x])
  BY DEF Transforms
<1>2. tr[e] = CASE a.op = "not"           -> tr[a.arg]
                [] a.op \in Relations     -> Comp(Opposite[a.op], a.lsym, a.rsym)
                [] a.op \in {"and", "or"} -> tr[Two(Dual[a.op], Not(a.le), Not(a.re))]
                [] IsSymbol(a, "y")       -> S("n")
                [] IsSymbol(a, "n")       -> S("y")
                [] IsSymbol(a, "m")       -> S("m")
                [] OTHER                  -> Not(a)
  <2> DEFINE b == tr[e.arg]
  <2>1. tr[e] = CASE b.op = "not"           -> tr[b.arg]
                [] b.op \in Relations     -> Comp(Opposite[b.op], b.lsym, b.rsym)
                [] b.op \in {"and", "or"} -> tr[Two(Dual[b.op], Not(b.le), Not(b.re))]
                [] IsSymbol(b, "y")       -> S("n")
                [] IsSymbol(b, "n")       -> S("y")
                [] IsSymbol(b, "m")       -> S("m")
                [] OTHER                  -> Not(b)
    BY <1>1 DEF Transformed, Negated, Relations
  <2> QED BY <2>1
<1>3. ASSUME a.op = "not" PROVE tr[e] = tr[a.arg]
  BY <1>2, <1>3 DEF Relations, IsSymbol
<1>4. ASSUME a.op \in Relations PROVE tr[e] = Comp(Opposite[a.op], a.lsym, a.rsym)
  BY <1>2, <1>4 DEF Relations, IsSymbol
<1>5. ASSUME a.op \in Logical PROVE tr[e] = tr[Two(Dual[a.op], Not(a.le), Not(a.re))]
  BY <1>2, <1>5 DEF Relations, Logical, IsSymbol
<1>6. ASSUME a.op = "sym"
      PROVE  tr[e] = IF a.sym = "y" THEN S("n") ELSE IF a.sym = "n" THEN S("y")
                     ELSE IF a.sym = "m" THEN S("m") ELSE Not(a)
  BY <1>2, <1>6 DEF Relations, IsSymbol
<1> QED BY <1>3, <1>4, <1>5, <1>6
(* expr_transform: whatever it returns for has the value it had, in every       *)
(* possible state of the symbols.                                               *)
THEOREM TransformKeepsValue ==
    ASSUME NEW V, NEW depth, Expressions(V, depth), NEW env, Possible(env),
           NEW val, Valuation(val, V, env),
           NEW tr, NEW E, NEW rank, Transforms(tr, E, rank, V)
    PROVE  \A e \in E : val[tr[e]] = val[e]
<1> DEFINE Good == {e \in E : val[tr[e]] = val[e]}
<1>1. E \subseteq V /\ tr \in [E -> V] /\ rank \in [E -> Nat]
  BY DEF Transforms
<1>2. ASSUME NEW e \in E, \A f \in E : rank[f] < rank[e] => f \in Good
      PROVE  e \in Good
  <2>1. /\ e \in V
        /\ e.op \in Logical => tr[e] = Two(e.op, tr[e.le], tr[e.re])
        /\ e.op \in Relations => tr[e] = TransformComp(e)
        /\ e.op = "sym" => tr[e] = e
    BY Returned
  <2>2. CASE e.op \in Logical
    <3>1. /\ e.le \in V /\ e.re \in V /\ e = Two(e.op, e.le, e.re)
          /\ e.le \in E /\ e.re \in E /\ e.le \in Good /\ e.re \in Good
      BY <1>2, <2>1, <2>2, Parts DEF Transforms
    <3>2. tr[e] = Two(e.op, tr[e.le], tr[e.re]) /\ tr[e.le] \in V /\ tr[e.re] \in V
      BY <1>1, <2>1, <2>2, <3>1
    <3>3. CASE e.op = "and"
      <4>1. /\ val[tr[e]] = Smaller(val[tr[e.le]], val[tr[e.re]])
            /\ val[e] = Smaller(val[e.le], val[e.re])
        BY <3>1, <3>2, <3>3, Values
      <4> QED BY <3>1, <4>1
    <3>4. CASE e.op = "or"
      <4>1. /\ val[tr[e]] = Greater(val[tr[e.le]], val[tr[e.re]])
            /\ val[e] = Greater(val[e.le], val[e.re])
        BY <3>1, <3>2, <3>4, Values
      <4> QED BY <3>1, <4>1
    <3> QED BY <2>2, <3>3, <3>4 DEF Logical
  <2>3. CASE e.op = "not"
    <3> DEFINE a == tr[e.arg]
               again == Two(Dual[a.op], Not(a.le), Not(a.re))
    <3>1. /\ e.arg \in V /\ e = Not(e.arg) /\ e.arg \in E /\ a \in V
          /\ val[a] = val[e.arg] /\ val[e] = 2 - val[a] /\ val[a] \in 0 .. 2
      <4>1. e.arg \in V /\ e = Not(e.arg) /\ e.arg \in E /\ e.arg \in Good
        BY <1>2, <2>1, <2>3, Parts DEF Transforms
      <4>2. val[e] = 2 - val[e.arg] /\ a \in V
        BY <1>1, <4>1, Values
      <4> QED BY <4>1, <4>2, Values
    <3>2. /\ a.op = "not" => tr[e] = tr[a.arg]
          /\ a.op \in Relations => tr[e] = Comp(Opposite[a.op], a.lsym, a.rsym)
          /\ a.op \in Logical => tr[e] = tr[again]
          /\ a.op = "sym" => tr[e] = IF a.sym = "y" THEN S("n") ELSE IF a.sym = "n" THEN S("y")
                                     ELSE IF a.sym = "m" THEN S("m") ELSE Not(a)
      BY <2>3, ReturnedNegated
    <3>3. /\ a.op = "not" => a.arg \in E /\ rank[a.arg] < rank[e]
          /\ a.op \in Logical => again \in E /\ rank[again] < rank[e]
      BY <2>3 DEF Transforms
    <3> HIDE DEF a
    <3>4. CASE a.op = "not"
      <4>1. tr[e] = tr[a.arg]
        BY <3>2, <3>4
      <4>2. val[tr[a.arg]] = val[a.arg] /\ val[a.arg] \in 0 .. 2 /\ val[a] = 2 - val[a.arg]
        <5>1. a.arg \in Good /\ a.arg \in V /\ a = Not(a.arg)
          BY <1>2, <3>1, <3>3, <3>4, Parts
        <5> QED BY <5>1, Values
      <4> QED BY <3>1, <4>1, <4>2
    <3>5. CASE a.op \in Relations
      <4>1. tr[e] = Comp(Opposite[a.op], a.lsym, a.rsym)
        BY <3>2, <3>5
      <4>2. a.lsym \in Sym /\ a.rsym \in Sym /\ a = Comp(a.op, a.lsym, a.rsym)
        BY <3>1, <3>5, Parts
      <4> DEFINE res == CompareSymbols(env, a.lsym, a.rsym)
      <4>3. Opposite[a.op] \in Relations /\ (Holds(Opposite[a.op], res) <=> ~Holds(a.op, res))
        BY <3>5, CompareIsInt, OppositeHolds
      <4>4. /\ val[tr[e]] = IF Holds(Opposite[a.op], res) THEN 2 ELSE 0
            /\ val[a] = IF Holds(a.op, res) THEN 2 ELSE 0
        BY <3>5, <4>1, <4>2, <4>3, Values
      <4> QED BY <3>1, <4>3, <4>4
    <3>6. CASE a.op \in Logical
      <4>1. tr[e] = tr[again] /\ again \in Good
        BY <1>2, <3>2, <3>3, <3>6
      <4>2. a.le \in V /\ a.re \in V /\ a = Two(a.op, a.le, a.re)
        BY <3>1, <3>6, Parts
      <4>3. /\ Not(a.le) \in V /\ Not(a.re) \in V
            /\ val[Not(a.le)] = 2 - val[a.le] /\ val[Not(a.re)] = 2 - val[a.re]
            /\ val[a.le] \in 0 .. 2 /\ val[a.re] \in 0 .. 2
        <5>1. Not(a.le) \in V /\ Not(a.re) \in V
          BY <4>2 DEF Expressions
        <5> QED BY <4>2, <5>1, Values
      <4>4. CASE a.op = "and"
        <5>1. again = Two("or", Not(a.le), Not(a.re))
          BY <4>4 DEF Dual
        <5>2. val[again] = Greater(2 - val[a.le], 2 - val[a.re]) /\ val[a] = Smaller(val[a.le], val[a.re])
          BY <4>2, <4>3, <4>4, <5>1, Values
        <5> QED BY <3>1, <4>1, <4>3, <5>2 DEF Greater, Smaller
      <4>5. CASE a.op = "or"
        <5>1. again = Two("and", Not(a.le), Not(a.re))
          BY <4>5 DEF Dual
        <5>2. val[again] = Smaller(2 - val[a.le], 2 - val[a.re]) /\ val[a] = Greater(val[a.le], val[a.re])
          BY <4>2, <4>3, <4>5, <5>1, Values
        <5> QED BY <3>1, <4>1, <4>3, <5>2 DEF Greater, Smaller
      <4> QED BY <3>6, <4>4, <4>5 DEF Logical
    <3>7. CASE a.op = "sym"
      <4>1. a.sym \in Sym /\ a = S(a.sym)
        BY <3>1, <3>7, Parts
      <4>2. tr[e] = IF a.sym = "y" THEN S("n") ELSE IF a.sym = "n" THEN S("y")
                    ELSE IF a.sym = "m" THEN S("m") ELSE Not(a)
        BY <3>2, <3>7
      <4>3. val[Not(a)] = 2 - val[a]
        BY <3>1, Values
      <4> QED BY <3>1, <4>1, <4>2, <4>3, LetterSymbols
    <3> QED BY <3>1, <3>4, <3>5, <3>6, <3>7, Parts
  <2>4. CASE e.op \in Relations
    <3>1. tr[e] = TransformComp(e)
      BY <2>1, <2>4
    <3> QED BY <2>1, <2>4, <3>1, TransformCompKeepsValue
  <2>5. CASE e.op = "sym"
    BY <2>1, <2>5
  <2> QED BY <2>1, <2>2, <2>3, <2>4, <2>5, Parts
<1>3. E \subseteq Good
  <2> HIDE DEF Good
  <2> QED BY <1>1, <1>2, ByRank
<1> QED BY <1>3

(* What is transformed: ! only above symbols other than y, m and n, and no bool *)
(* compared with one of these.                                                  *)
Normal(N, V) ==
    \A e \in V : e \in N <=>
        /\ e.op = "not" => e.arg.op = "sym" /\ e.arg.sym \notin {"y", "m", "n"}
        /\ e.op \in Logical => e.le \in N /\ e.re \in N
        /\ e.op \in {"eq", "ne"} /\ SymType[e.lsym] = "bool" => e.rsym \notin {"y", "m", "n"}

LEMMA SymbolsAreNormal ==
    ASSUME NEW V, NEW depth, Expressions(V, depth), NEW N, Normal(N, V), NEW s \in Sym
    PROVE  S(s) \in N /\ (s \notin {"y", "m", "n"} => Not(S(s)) \in N)
<1>1. S(s) \in V /\ Not(S(s)) \in V
  BY DEF Expressions
<1> QED BY <1>1, Nodes DEF Normal, Logical

(* expr_transform returns normal forms: what the tests of menu_finalize and the *)
(* boolean form rely on.                                                        *)
THEOREM TransformGivesNormalForm ==
    ASSUME NEW V, NEW depth, Expressions(V, depth), NEW N, Normal(N, V),
           NEW tr, NEW E, NEW rank, Transforms(tr, E, rank, V)
    PROVE  \A e \in E : tr[e] \in N
<1> DEFINE Good == {e \in E : tr[e] \in N}
<1>1. E \subseteq V /\ tr \in [E -> V] /\ rank \in [E -> Nat]
  BY DEF Transforms
<1>2. ASSUME NEW e \in E, \A f \in E : rank[f] < rank[e] => f \in Good
      PROVE  e \in Good
  <2>1. /\ e \in V
        /\ e.op \in Logical => tr[e] = Two(e.op, tr[e.le], tr[e.re])
        /\ e.op \in Relations => tr[e] = TransformComp(e)
        /\ e.op = "sym" => tr[e] = e
    BY Returned
  <2>2. CASE e.op \in Logical
    <3>1. e.le \in E /\ e.re \in E /\ e.le \in Good /\ e.re \in Good
      BY <1>2, <2>2 DEF Transforms
    <3>2. tr[e] = Two(e.op, tr[e.le], tr[e.re]) /\ tr[e] \in V
      BY <1>1, <2>1, <2>2, <3>1
    <3> QED BY <2>2, <3>1, <3>2, Nodes DEF Normal, Logical
  <2>3. CASE e.op = "not"
    <3> DEFINE a == tr[e.arg]
               again == Two(Dual[a.op], Not(a.le), Not(a.re))
    <3>1. e.arg \in E /\ a \in N /\ a \in V
      BY <1>1, <1>2, <2>3 DEF Transforms
    <3>2. /\ a.op = "not" => tr[e] = tr[a.arg]
          /\ a.op \in Relations => tr[e] = Comp(Opposite[a.op], a.lsym, a.rsym)
          /\ a.op \in Logical => tr[e] = tr[again]
          /\ a.op = "sym" => tr[e] = IF a.sym = "y" THEN S("n") ELSE IF a.sym = "n" THEN S("y")
                                     ELSE IF a.sym = "m" THEN S("m") ELSE Not(a)
      BY <2>3, ReturnedNegated
    <3>3. /\ a.op = "not" => a.arg \in E /\ rank[a.arg] < rank[e]
          /\ a.op \in Logical => again \in E /\ rank[again] < rank[e]
      BY <2>3 DEF Transforms
    <3> HIDE DEF a
    <3>4. CASE a.op = "not"
      BY <1>2, <3>2, <3>3, <3>4
    <3>5. CASE a.op \in Relations
      <4>1. tr[e] = Comp(Opposite[a.op], a.lsym, a.rsym) /\ tr[e] \in V
        BY <1>1, <3>2, <3>5
      <4>2. /\ Opposite[a.op] \in Relations
            /\ Opposite[a.op] \in {"eq", "ne"} => a.op \in {"eq", "ne"}
        BY <3>5 DEF Opposite, Relations
      <4>3. tr[e].op \in Relations /\ tr[e].lsym = a.lsym /\ tr[e].rsym = a.rsym
            /\ tr[e].op = Opposite[a.op]
        BY <4>1, <4>2, Nodes
      <4>4. a.op \in {"eq", "ne"} /\ SymType[a.lsym] = "bool" => a.rsym \notin {"y", "m", "n"}
        BY <3>1 DEF Normal
      <4> QED BY <4>1, <4>2, <4>3, <4>4 DEF Normal, Relations, Logical
    <3>6. CASE a.op \in Logical
      BY <1>2, <3>2, <3>3, <3>6
    <3>7. CASE a.op = "sym"
      <4>1. a.sym \in Sym /\ a = S(a.sym)
        BY <3>1, <3>7, Parts
      <4>2. tr[e] = IF a.sym = "y" THEN S("n") ELSE IF a.sym = "n" THEN S("y")
                    ELSE IF a.sym = "m" THEN S("m") ELSE Not(a)
        BY <3>2, <3>7
      <4>3. {"y", "m", "n"} \subseteq Sym
        BY ConstantAssumption
      <4> QED BY <4>1, <4>2, <4>3, SymbolsAreNormal
    <3> QED BY <3>1, <3>4, <3>5, <3>6, <3>7, Parts
  <2>4. CASE e.op \in Relations
    <3>1. tr[e] = TransformComp(e)
      BY <2>1, <2>4
    <3>2. e.lsym \in Sym /\ e = Comp(e.op, e.lsym, e.rsym)
      BY <2>1, <2>4, Parts
    <3>3. CASE e.op \in {"eq", "ne"} /\ SymType[e.lsym] = "bool" /\ e.rsym \in {"y", "m", "n"}
      <4>1. tr[e] \in {S("y"), S("n"), S(e.lsym), Not(S(e.lsym))}
        BY <3>1, <3>3 DEF TransformComp
      <4>2. e.lsym \notin {"y", "m", "n"} /\ {"y", "m", "n"} \subseteq Sym
        BY <3>3, ConstantAssumption
      <4> QED BY <3>2, <4>1, <4>2, SymbolsAreNormal
    <3>4. CASE ~(e.op \in {"eq", "ne"} /\ SymType[e.lsym] = "bool" /\ e.rsym \in {"y", "m", "n"})
      <4>1. tr[e] = e
        BY <3>1, <3>4 DEF TransformComp
      <4> QED BY <2>1, <2>4, <3>4, <4>1 DEF Normal, Relations, Logical
    <3> QED BY <3>3, <3>4
  <2>5. CASE e.op = "sym"
    <3>1. tr[e] = e
      BY <2>1, <2>5
    <3> QED BY <2>1, <2>5, <3>1 DEF Normal, Logical
  <2> QED BY <2>1, <2>2, <2>3, <2>4, <2>5, Parts
<1>3. E \subseteq Good
  <2> HIDE DEF Good
  <2> QED BY <1>1, <1>2, ByRank
<1> QED BY <1>3

(* The boolean form: for an entry that is no tristate, FOO!=n becomes FOO.      *)
Booleans(bool, V) == bool \in [V -> V] /\ \A e \in V : bool[e] = AsBoolean(e, LAMBDA x : bool[x])

(* expr_trans_bool: m may become y and the other way round, n stays n and       *)
(* nothing else becomes n, where the expression is a normal form.               *)
THEOREM TransBoolKeepsNo ==
    ASSUME NEW V, NEW depth, Expressions(V, depth), NEW env, Possible(env),
           NEW val, Valuation(val, V, env), NEW N, Normal(N, V), NEW bool, Booleans(bool, V)
    PROVE  \A e \in V : e \in N => (val[bool[e]] = 0 <=> val[e] = 0)
<1> DEFINE Good == {e \in V : e \in N => (val[bool[e]] = 0 <=> val[e] = 0)}
<1>1. ASSUME NEW e \in V, \A f \in V : depth[f] < depth[e] => f \in Good
      PROVE  e \in Good
  <2> SUFFICES ASSUME e \in N PROVE val[bool[e]] = 0 <=> val[e] = 0
    OBVIOUS
  <2>1. bool[e] = AsBoolean(e, LAMBDA x : bool[x])
    BY DEF Booleans
  <2>2. CASE e.op \in Logical
    <3>1. /\ e.le \in V /\ e.re \in V /\ e = Two(e.op, e.le, e.re)
          /\ e.le \in Good /\ e.re \in Good
      BY <1>1, <2>2, Parts
    <3>2. e.le \in N /\ e.re \in N
      BY <2>2 DEF Normal
    <3>3. bool[e] = Two(e.op, bool[e.le], bool[e.re])
      BY <2>1, <2>2 DEF AsBoolean, Logical
    <3> DEFINE a == bool[e.le]
               b == bool[e.re]
    <3>4. /\ a \in V /\ b \in V
          /\ val[a] = 0 <=> val[e.le] = 0
          /\ val[b] = 0 <=> val[e.re] = 0
      BY <3>1, <3>2 DEF Booleans
    <3> HIDE DEF a, b
    <3>5. /\ val[a] \in 0 .. 2 /\ val[b] \in 0 .. 2 /\ val[e.le] \in 0 .. 2 /\ val[e.re] \in 0 .. 2
      BY <3>1, <3>4, Values
    <3>6. CASE e.op = "and"
      <4>1. val[e] = Smaller(val[e.le], val[e.re]) /\ val[Two("and", a, b)] = Smaller(val[a], val[b])
        BY <3>1, <3>4, <3>6, Values
      <4> QED BY <3>3, <3>4, <3>5, <3>6, <4>1 DEF Smaller, a, b
    <3>7. CASE e.op = "or"
      <4>1. val[e] = Greater(val[e.le], val[e.re]) /\ val[Two("or", a, b)] = Greater(val[a], val[b])
        BY <3>1, <3>4, <3>7, Values
      <4> QED BY <3>3, <3>4, <3>5, <3>7, <4>1 DEF Greater, a, b
    <3> QED BY <2>2, <3>6, <3>7 DEF Logical
  <2>3. CASE e.op = "not"
    <3>1. bool[e] = Not(bool[e.arg])
      BY <2>1, <2>3 DEF AsBoolean
    <3>2. e.arg \in V /\ e = Not(e.arg) /\ e.arg.op = "sym"
      BY <2>3, Parts DEF Normal
    <3>3. bool[e.arg] = AsBoolean(e.arg, LAMBDA x : bool[x])
      BY <3>2 DEF Booleans
    <3>4. bool[e.arg] = e.arg
      BY <3>2, <3>3 DEF AsBoolean
    <3> QED BY <3>1, <3>2, <3>4
  <2>4. CASE e.op \in Relations /\ e.op = "ne" /\ SymType[e.lsym] = "tristate" /\ e.rsym = "n"
    <3>1. bool[e] = S(e.lsym)
      BY <2>1, <2>4 DEF AsBoolean
    <3>2. e.lsym \in Sym /\ e.rsym \in Sym /\ e = Comp("ne", e.lsym, "n") /\ IsTri(e.lsym)
      BY <2>4, Parts DEF IsTri, IsBool
    <3>3. val[S(e.lsym)] = env.tri[e.lsym]
      BY <3>2, Values
    <3>4. val[e] = IF Holds("ne", CompareSymbols(env, e.lsym, "n")) THEN 2 ELSE 0
      BY <2>4, <3>2, Values
    <3>5. Holds("ne", CompareSymbols(env, e.lsym, "n")) <=> env.tri[e.lsym] # 0
      BY <3>2, LettersCompare DEF Holds
    <3> QED BY <3>1, <3>3, <3>4, <3>5
  <2>5. CASE e.op \in Relations /\ ~(e.op = "ne" /\ SymType[e.lsym] = "tristate" /\ e.rsym = "n")
    BY <2>1, <2>5 DEF AsBoolean, Relations
  <2>6. CASE e.op = "sym"
    BY <2>1, <2>6 DEF AsBoolean
  <2> QED BY <2>2, <2>3, <2>4, <2>5, <2>6, Parts
<1>2. depth \in [V -> Nat]
  BY DEF Expressions
<1>3. V \subseteq Good
  <2> HIDE DEF Good
  <2> QED BY <1>1, <1>2, ByRank
<1> QED BY <1>3

(* expr_depends_symbol for one symbol.                                          *)
Requires(needs, s, V) ==
    needs \in [V -> BOOLEAN] /\ \A e \in V : needs[e] = NeedsSymbol(e, s, LAMBDA x : needs[x])

(* An entry is moved below the symbol it depends on: its dependency is n        *)
(* whenever the symbol is.                                                      *)
THEOREM DependingMeansNeeding ==
    ASSUME NEW V, NEW depth, Expressions(V, depth), NEW env, Possible(env),
           NEW val, Valuation(val, V, env),
           NEW s, IsTri(s), NEW needs, Requires(needs, s, V), env.tri[s] = 0
    PROVE  \A e \in V : needs[e] => val[e] = 0
<1> DEFINE Good == {e \in V : needs[e] => val[e] = 0}
<1>1. ASSUME NEW e \in V, \A f \in V : depth[f] < depth[e] => f \in Good
      PROVE  e \in Good
  <2> SUFFICES ASSUME needs[e] PROVE val[e] = 0
    OBVIOUS
  <2>1. needs[e] = NeedsSymbol(e, s, LAMBDA x : needs[x])
    BY DEF Requires
  <2>2. \/ e.op = "and" /\ (needs[e.le] \/ needs[e.re])
        \/ e.op = "sym" /\ e.sym = s
        \/ e.op = "eq" /\ e.lsym = s /\ e.rsym \in {"y", "m"}
        \/ e.op = "ne" /\ e.lsym = s /\ e.rsym = "n"
    BY <2>1 DEF NeedsSymbol
  <2>3. CASE e.op = "and" /\ (needs[e.le] \/ needs[e.re])
    <3>1. /\ e.le \in V /\ e.re \in V /\ e = Two("and", e.le, e.re)
          /\ e.le \in Good /\ e.re \in Good
      BY <1>1, <2>3, Parts DEF Logical
    <3>2. /\ val[e] = Smaller(val[e.le], val[e.re])
          /\ val[e.le] \in 0 .. 2 /\ val[e.re] \in 0 .. 2
      BY <3>1, Values
    <3> QED BY <2>3, <3>1, <3>2 DEF Smaller
  <2>4. CASE e.op = "sym" /\ e.sym = s
    BY <2>4, Parts, Values
  <2>5. CASE e.op \in {"eq", "ne"} /\ e.lsym = s
    <3>1. e.rsym \in Sym /\ s \in Sym /\ e = Comp(e.op, s, e.rsym)
      BY <2>5, Parts DEF Relations
    <3>2. val[e] = IF Holds(e.op, CompareSymbols(env, s, e.rsym)) THEN 2 ELSE 0
      BY <2>5, <3>1, Values DEF Relations
    <3>3. /\ CompareSymbols(env, s, "y") # 0 /\ CompareSymbols(env, s, "m") # 0
          /\ CompareSymbols(env, s, "n") = 0
      BY LettersCompare
    <3> QED BY <2>2, <2>5, <3>2, <3>3 DEF Holds
  <2> QED BY <2>2, <2>3, <2>4, <2>5
<1>2. depth \in [V -> Nat]
  BY DEF Expressions
<1>3. V \subseteq Good
  <2> HIDE DEF Good
  <2> QED BY <1>1, <1>2, ByRank
<1> QED BY <1>3

(* expr_trans_compare for s one of y and n.                                     *)
WritesOut(cmp, s, V) ==
    /\ cmp \in [V \X {"eq", "ne"} -> V]
    /\ \A e \in V, r \in {"eq", "ne"} :
          cmp[<<e, r>>] = Compared(e, r, s, LAMBDA x, q : cmp[<<x, q>>])

(* Expressions of which nothing that is negated is m: the code writes !A out as *)
(* A=n, whatever A's type. A symbol of another type has no value to compare.    *)
Crisp(C, V, val) ==
    /\ C \subseteq V
    /\ \A e \in C : /\ e.op \in Logical => e.le \in C /\ e.re \in C
                    /\ e.op = "not" => e.arg \in C /\ val[e.arg] # 1
                    /\ e.op = "sym" => IsTri(e.sym) \/ e.sym \in {"y", "m", "n"}

LEMMA ComparisonValue ==
    ASSUME NEW V, NEW depth, Expressions(V, depth), NEW env, NEW val, Valuation(val, V, env),
           NEW r \in Relations, NEW s \in Sym, NEW t \in Sym
    PROVE  val[Comp(r, s, t)] = IF Holds(r, CompareSymbols(env, s, t)) THEN 2 ELSE 0
BY Values

LEMMA SymbolWrittenOut ==
    ASSUME NEW V, NEW depth, Expressions(V, depth), NEW env, Possible(env),
           NEW val, Valuation(val, V, env), NEW q, IsTri(q) \/ q \in {"y", "m", "n"},
           NEW s \in {"y", "n"}
    PROVE  CompareSymbols(env, q, s) = 0 <=> val[S(q)] = IF s = "y" THEN 2 ELSE 0
<1>1. CASE IsTri(q)
  <2>1. q \in Sym
    BY <1>1 DEF IsTri, IsBool
  <2>2. val[S(q)] = env.tri[q]
    BY <2>1, Values
  <2> QED BY <1>1, <2>2, LettersCompare
<1>2. CASE q \in {"y", "m", "n"}
  <2>1. IsWord(q) /\ IsWord(s)
    BY <1>2, Letters
  <2>2. CompareSymbols(env, q, s) = 0 <=> q = s
    BY <2>1, WordsCompare
  <2> QED BY <1>2, <2>2, LetterSymbols
<1> QED BY <1>1, <1>2

(* e = s and e != s written out mean what they say.                             *)
THEOREM WrittenOutIsRight ==
    ASSUME NEW V, NEW depth, Expressions(V, depth), NEW env, Possible(env),
           NEW val, Valuation(val, V, env), NEW C, Crisp(C, V, val),
           NEW s \in {"y", "n"}, NEW cmp, WritesOut(cmp, s, V)
    PROVE  \A e \in C : LET same == val[e] = IF s = "y" THEN 2 ELSE 0
                        IN  /\ val[cmp[<<e, "eq">>]] = IF same THEN 2 ELSE 0
                            /\ val[cmp[<<e, "ne">>]] = IF same THEN 0 ELSE 2
<1> DEFINE top == IF s = "y" THEN 2 ELSE 0
           Good == {e \in C : /\ val[cmp[<<e, "eq">>]] = IF val[e] = top THEN 2 ELSE 0
                              /\ val[cmp[<<e, "ne">>]] = IF val[e] = top THEN 0 ELSE 2}
<1>1. ASSUME NEW e \in C, \A f \in C : depth[f] < depth[e] => f \in Good
      PROVE  e \in Good
  <2>1. e \in V /\ C \subseteq V
    BY DEF Crisp
  <2>2. \A x \in V, r \in {"eq", "ne"} : cmp[<<x, r>>] \in V
    BY DEF WritesOut
  <2>3. /\ cmp[<<e, "eq">>] = Compared(e, "eq", s, LAMBDA x, q : cmp[<<x, q>>])
        /\ cmp[<<e, "ne">>] = Compared(e, "ne", s, LAMBDA x, q : cmp[<<x, q>>])
    BY <2>1 DEF WritesOut
  <2>4. CASE e.op \in Logical
    <3> DEFINE a == cmp[<<e.le, "eq">>]
               b == cmp[<<e.re, "eq">>]
               t == IF (e.op = "and") = (s = "y") THEN "and" ELSE "or"
               both == Two(t, a, b)
    <3>1. /\ e.le \in V /\ e.re \in V /\ e = Two(e.op, e.le, e.re)
          /\ e.le \in Good /\ e.re \in Good
      BY <1>1, <2>1, <2>4, Parts DEF Crisp
    <3>2. cmp[<<e, "eq">>] = both /\ cmp[<<e, "ne">>] = Not(both)
      <4>1. CASE e.op = "and"
        BY <2>3, <4>1 DEF Compared
      <4>2. CASE e.op = "or"
        BY <2>3, <4>2 DEF Compared
      <4> QED BY <2>4, <4>1, <4>2 DEF Logical
    <3>3. /\ a \in V /\ b \in V
          /\ val[a] = IF val[e.le] = top THEN 2 ELSE 0
          /\ val[b] = IF val[e.re] = top THEN 2 ELSE 0
      BY <2>2, <3>1
    <3> HIDE DEF a, b
    <3>4. both \in V /\ val[Not(both)] = 2 - val[both]
      <4>1. both \in V
        BY <3>3 DEF Expressions, Logical
      <4> QED BY <4>1, Values
    <3>5. val[e.le] \in {0, 1, 2} /\ val[e.re] \in {0, 1, 2}
      BY <3>1, Values
    <3>6. CASE e.op = "and"
      <4>1. val[e] = Smaller(val[e.le], val[e.re])
        BY <3>1, <3>6, Values
      <4>2. CASE s = "y"
        <5>1. val[both] = Smaller(val[a], val[b])
          BY <3>3, <3>6, <4>2, Values
        <5> QED BY <3>2, <3>3, <3>4, <3>5, <4>1, <4>2, <5>1 DEF Smaller
      <4>3. CASE s = "n"
        <5>1. val[both] = Greater(val[a], val[b])
          BY <3>3, <3>6, <4>3, Values
        <5> QED BY <3>2, <3>3, <3>4, <3>5, <4>1, <4>3, <5>1 DEF Smaller, Greater
      <4> QED BY <4>2, <4>3
    <3>7. CASE e.op = "or"
      <4>1. val[e] = Greater(val[e.le], val[e.re])
        BY <3>1, <3>7, Values
      <4>2. CASE s = "y"
        <5>1. val[both] = Greater(val[a], val[b])
          BY <3>3, <3>7, <4>2, Values
        <5> QED BY <3>2, <3>3, <3>4, <3>5, <4>1, <4>2, <5>1 DEF Greater
      <4>3. CASE s = "n"
        <5>1. val[both] = Smaller(val[a], val[b])
          BY <3>3, <3>7, <4>3, Values
        <5> QED BY <3>2, <3>3, <3>4, <3>5, <4>1, <4>3, <5>1 DEF Smaller, Greater
      <4> QED BY <4>2, <4>3
    <3> QED BY <2>4, <3>6, <3>7 DEF Logical
  <2>5. CASE e.op = "not"
    <3>1. cmp[<<e, "eq">>] = cmp[<<e.arg, "ne">>] /\ cmp[<<e, "ne">>] = cmp[<<e.arg, "eq">>]
      BY <2>3, <2>5 DEF Compared
    <3>2. e.arg \in V /\ e = Not(e.arg) /\ e.arg \in Good /\ val[e.arg] # 1
      BY <1>1, <2>1, <2>5, Parts DEF Crisp
    <3>3. val[e] = 2 - val[e.arg] /\ val[e.arg] \in {0, 1, 2}
      BY <3>2, Values
    <3> QED BY <3>1, <3>2, <3>3
  <2>6. CASE e.op = "sym"
    <3>1. cmp[<<e, "eq">>] = Comp("eq", e.sym, s) /\ cmp[<<e, "ne">>] = Comp("ne", e.sym, s)
      BY <2>3, <2>6 DEF Compared
    <3>2. e.sym \in Sym /\ e = S(e.sym) /\ s \in Sym /\ (IsTri(e.sym) \/ e.sym \in {"y", "m", "n"})
      BY <2>1, <2>6, Parts, ConstantAssumption DEF Crisp
    <3>3. ASSUME NEW r \in Relations
          PROVE  val[Comp(r, e.sym, s)] = IF Holds(r, CompareSymbols(env, e.sym, s)) THEN 2 ELSE 0
      <4>1. e.sym \in Sym /\ s \in Sym
        BY <3>2
      <4> QED BY <4>1, ComparisonValue
    <3>4. CompareSymbols(env, e.sym, s) = 0 <=> val[e] = top
      BY <3>2, SymbolWrittenOut
    <3>5. /\ val[cmp[<<e, "eq">>]] = IF Holds("eq", CompareSymbols(env, e.sym, s)) THEN 2 ELSE 0
          /\ val[cmp[<<e, "ne">>]] = IF Holds("ne", CompareSymbols(env, e.sym, s)) THEN 2 ELSE 0
      BY <3>1, <3>3 DEF Relations
    <3> QED BY <3>4, <3>5 DEF Holds
  <2>7. CASE e.op \in Relations
    <3>1. /\ cmp[<<e, "eq">>] = IF s = "y" THEN e ELSE Not(e)
          /\ cmp[<<e, "ne">>] = IF s = "y" THEN Not(e) ELSE e
      BY <2>3, <2>7 DEF Compared, Relations
    <3>2. val[Not(e)] = 2 - val[e] /\ val[e] \in {0, 2}
      <4>1. e.lsym \in Sym /\ e.rsym \in Sym /\ e = Comp(e.op, e.lsym, e.rsym)
        BY <2>1, <2>7, Parts
      <4> QED BY <2>1, <2>7, <4>1, Values
    <3> QED BY <3>1, <3>2
  <2> QED BY <2>1, <2>4, <2>5, <2>6, <2>7, Parts
<1>2. C \subseteq V /\ depth \in [V -> Nat]
  BY DEF Crisp, Expressions
<1>3. C \subseteq Good
  <2> DEFINE d == [e \in C |-> depth[e]]
  <2>1. d \in [C -> Nat] /\ \A e \in C : d[e] = depth[e]
    BY <1>2
  <2> HIDE DEF Good, d
  <2>2. \A e \in C : (\A f \in C : d[f] < d[e] => f \in Good) => e \in Good
    BY <1>1, <2>1
  <2> QED BY <2>1, <2>2, ByRank
<1> QED BY <1>3

------------------------------------------------------------------------------
(* One level of && or ||, as its operands.                                      *)

Reaches(t, ops, val, k) ==
    IF t = "or" THEN \E i \in DOMAIN ops : val[ops[i]] >= k ELSE \A i \in DOMAIN ops : val[ops[i]] >= k

(* The level has at most the value of another one.                              *)
AtMost(t, one, another, val) ==
    \A k \in {1, 2} : Reaches(t, one, val, k) => Reaches(t, another, val, k)

LEMMA NeutralValue ==
    ASSUME NEW V, NEW depth, Expressions(V, depth), NEW env, Possible(env),
           NEW val, Valuation(val, V, env), NEW t \in Logical
    PROVE  Neutral(t) \in V /\ val[Neutral(t)] = IF t = "or" THEN 0 ELSE 2
<1>1. CASE t = "or"
  <2>1. Neutral(t) = S("n")
    BY <1>1 DEF Neutral
  <2> QED BY <1>1, <2>1, LetterSymbols
<1>2. CASE t = "and"
  <2>1. Neutral(t) = S("y")
    BY <1>2 DEF Neutral
  <2> QED BY <1>2, <2>1, LetterSymbols
<1> QED BY <1>1, <1>2 DEF Logical

(* Joining two operands of a level keeps the value of the level, if the join    *)
(* has the value of the two and what became of the first one its value.         *)
THEOREM JoiningKeepsLevel ==
    ASSUME NEW V, NEW depth, Expressions(V, depth), NEW env, Possible(env),
           NEW val, Valuation(val, V, env), NEW t \in Logical,
           NEW n \in Nat, NEW ops \in [1 .. n -> V], NEW i \in 1 .. n, NEW j \in 1 .. n, i # j,
           NEW x \in V, val[x] = val[ops[i]], NEW join,
           join # Null => join \in V /\ val[join] = val[Two(t, x, ops[j])]
    PROVE  LET after == AfterJoin(t, ops, i, j, x, join)
           IN  after \in [1 .. n -> V] /\ AtMost(t, after, ops, val) /\ AtMost(t, ops, after, val)
<1> DEFINE after == AfterJoin(t, ops, i, j, x, join)
<1>1. CASE join = Null
  <2>1. after = [ops EXCEPT ![i] = x]
    BY <1>1 DEF AfterJoin
  <2>2. after \in [1 .. n -> V] /\ \A m \in 1 .. n : val[after[m]] = val[ops[m]]
    BY <2>1
  <2> HIDE DEF after
  <2>3. AtMost(t, after, ops, val) /\ AtMost(t, ops, after, val)
    BY <2>2 DEF AtMost, Reaches
  <2> QED BY <2>2, <2>3 DEF after
<1>2. CASE join # Null
  <2>1. Neutral(t) \in V /\ val[Neutral(t)] = IF t = "or" THEN 0 ELSE 2
    BY NeutralValue
  <2>2. after = [[ops EXCEPT ![i] = Neutral(t)] EXCEPT ![j] = join]
    BY <1>2 DEF AfterJoin, TakenOut
  <2>3. /\ after \in [1 .. n -> V]
        /\ after[i] = Neutral(t) /\ after[j] = join
        /\ \A m \in 1 .. n : m \notin {i, j} => after[m] = ops[m]
    BY <1>2, <2>1, <2>2
  <2> HIDE DEF after
  <2>4. \A m \in 1 .. n : val[ops[m]] \in 0 .. 2 /\ val[after[m]] \in 0 .. 2
    BY <2>3, Values
  <2>5. CASE t = "or"
    <3>1. val[join] = Greater(val[ops[i]], val[ops[j]])
      BY <1>2, <2>5, Values
    <3>2. AtMost(t, after, ops, val)
      <4> SUFFICES ASSUME NEW k \in {1, 2}, NEW m \in 1 .. n, val[after[m]] >= k
                   PROVE  \E l \in 1 .. n : val[ops[l]] >= k
        BY <2>3, <2>5 DEF AtMost, Reaches
      <4>1. m # i
        BY <2>1, <2>3, <2>5
      <4>2. CASE m = j
        BY <2>3, <2>4, <3>1, <4>2 DEF Greater
      <4>3. CASE m # j
        BY <2>3, <4>1, <4>3
      <4> QED BY <4>2, <4>3
    <3>3. AtMost(t, ops, after, val)
      <4> SUFFICES ASSUME NEW k \in {1, 2}, NEW m \in 1 .. n, val[ops[m]] >= k
                   PROVE  \E l \in 1 .. n : val[after[l]] >= k
        BY <2>3, <2>5 DEF AtMost, Reaches
      <4>1. CASE m \in {i, j}
        BY <2>3, <2>4, <3>1, <4>1 DEF Greater
      <4>2. CASE m \notin {i, j}
        BY <2>3, <4>2
      <4> QED BY <4>1, <4>2
    <3> QED BY <2>3, <3>2, <3>3 DEF after
  <2>6. CASE t = "and"
    <3>1. val[join] = Smaller(val[ops[i]], val[ops[j]])
      BY <1>2, <2>6, Values
    <3>2. AtMost(t, after, ops, val)
      <4> SUFFICES ASSUME NEW k \in {1, 2}, \A l \in 1 .. n : val[after[l]] >= k, NEW m \in 1 .. n
                   PROVE  val[ops[m]] >= k
        BY <2>3, <2>6 DEF AtMost, Reaches
      <4>1. CASE m \in {i, j}
        <5>1. Smaller(val[ops[i]], val[ops[j]]) >= k
          BY <2>3, <3>1
        <5> QED BY <2>4, <4>1, <5>1 DEF Smaller
      <4>2. CASE m \notin {i, j}
        BY <2>3, <4>2
      <4> QED BY <4>1, <4>2
    <3>3. AtMost(t, ops, after, val)
      <4> SUFFICES ASSUME NEW k \in {1, 2}, \A l \in 1 .. n : val[ops[l]] >= k, NEW m \in 1 .. n
                   PROVE  val[after[m]] >= k
        BY <2>3, <2>6 DEF AtMost, Reaches
      <4>1. CASE m = i
        BY <2>1, <2>3, <2>6, <4>1
      <4>2. CASE m = j
        BY <2>3, <3>1, <4>2 DEF Smaller
      <4>3. CASE m \notin {i, j}
        BY <2>3, <4>3
      <4> QED BY <4>1, <4>2, <4>3
    <3> QED BY <2>3, <3>2, <3>3 DEF after
  <2> QED BY <2>5, <2>6 DEF Logical
<1> QED BY <1>1, <1>2

(* Taking two operands of one value out of two levels: what holds between the   *)
(* rests holds between the levels. So expressions of which nothing is left are  *)
(* equal (expr_eq), and one that loses all its operands to another one is       *)
(* implied by it (the submenu test of menu_finalize).                           *)
THEOREM TakingOutKeepsOrder ==
    ASSUME NEW V, NEW depth, Expressions(V, depth), NEW env, Possible(env),
           NEW val, Valuation(val, V, env), NEW t \in Logical,
           NEW m \in Nat, NEW one \in [1 .. m -> V], NEW i \in 1 .. m,
           NEW n \in Nat, NEW another \in [1 .. n -> V], NEW j \in 1 .. n,
           val[one[i]] = val[another[j]],
           AtMost(t, TakenOut(t, one, i), TakenOut(t, another, j), val)
    PROVE  AtMost(t, one, another, val)
<1> DEFINE a == TakenOut(t, one, i)
           b == TakenOut(t, another, j)
<1>1. val[Neutral(t)] = IF t = "or" THEN 0 ELSE 2
  BY NeutralValue
<1>2. /\ DOMAIN a = 1 .. m /\ a[i] = Neutral(t) /\ \A l \in 1 .. m : l # i => a[l] = one[l]
      /\ DOMAIN b = 1 .. n /\ b[j] = Neutral(t) /\ \A l \in 1 .. n : l # j => b[l] = another[l]
  BY DEF TakenOut
<1>3. AtMost(t, a, b, val)
  OBVIOUS
<1> HIDE DEF a, b
<1>4. CASE t = "or"
  <2> SUFFICES ASSUME NEW k \in {1, 2}, NEW l \in 1 .. m, val[one[l]] >= k
               PROVE  \E h \in 1 .. n : val[another[h]] >= k
    BY <1>4 DEF AtMost, Reaches
  <2>1. CASE l = i
    BY <2>1
  <2>2. CASE l # i
    <3>1. \E h \in 1 .. n : val[b[h]] >= k
      BY <1>2, <1>3, <1>4, <2>2 DEF AtMost, Reaches
    <3> QED BY <1>1, <1>2, <1>4, <3>1
  <2> QED BY <2>1, <2>2
<1>5. CASE t = "and"
  <2> SUFFICES ASSUME NEW k \in {1, 2}, \A l \in 1 .. m : val[one[l]] >= k, NEW h \in 1 .. n
               PROVE  val[another[h]] >= k
    BY <1>5 DEF AtMost, Reaches
  <2>1. \A l \in 1 .. m : val[a[l]] >= k
    BY <1>1, <1>2, <1>5
  <2>2. \A l \in 1 .. n : val[b[l]] >= k
    BY <1>2, <1>3, <1>5, <2>1 DEF AtMost, Reaches
  <2> QED BY <1>2, <2>2
<1> QED BY <1>4, <1>5 DEF Logical
==============================================================================
