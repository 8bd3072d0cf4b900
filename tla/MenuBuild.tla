------------------------------ MODULE MenuBuild ------------------------------
(* The Kconfig files are read, entry by entry, and the menu tree is finished:   *)
(* every file of up to MaxEntries entries, each one of Entries.                 *)
EXTENDS KMenu

CONSTANTS Entries,      \* config entries: [sym, dep, prompt, props]
          Blocks,       \* menus and ifs: [kind, dep, vis]
          MaxEntries,   \* bound
          SymOrder,     \* the symbols in the order of the hash table
          Env           \* the values the symbols can have

ASSUME EnvAssumption == \A env \in Env : Possible(env)

VARIABLES raw,          \* the tree as parsed
          tree,         \* the finished tree, once "done"
          check,        \* the outcome of the dependency check
          done

vars == <<raw, tree, check, done>>

NoCheck == [open |-> {}, done |-> {}, hit |-> NoSym, reported |-> FALSE, errors |-> 0]

Init == /\ raw = NewTree
        /\ tree = NewTree
        /\ check = NoCheck
        /\ done = FALSE

------------------------------------------------------------------------------
Room == ~done /\ LastEntry(raw) < MaxEntries

(* config ...: the options of an entry in the order the file has them.          *)
ParseConfig(e) ==
    /\ Room
    /\ LET start    == AddDep(AddEntry(raw, "config", e.sym), e.dep)
           prompted == IF e.prompt = "no" THEN start
                       ELSE AddProp(start, "prompt", Null, e.cond)
       IN  raw' = FoldLeft(LAMBDA t, p : AddProp(t, p.type, p.expr, p.cond), prompted, e.props)
    /\ UNCHANGED <<tree, check, done>>

(* menu ... / if ...: what follows is inside until it ends.                     *)
ParseBlock(b) ==
    /\ Room
    /\ raw.node[raw.current].kind # "choice" \/ b.kind = "if"
    /\ LET start == AddEntry(raw, b.kind, NoSym)
           shown == IF b.kind = "menu" THEN AddProp(start, "menu", Null, Null) ELSE start
       IN  raw' = AddMenu(AddDep(AddVisibility(shown, b.vis), b.dep))
    /\ UNCHANGED <<tree, check, done>>

ParseChoice(c, dep) ==
    /\ Room
    /\ \A k \in DOMAIN raw.node : raw.node[k].kind # "choice"
    /\ raw' = AddMenu(AddDep(AddProp(AddEntry(raw, "choice", c), "prompt", Null, Null), dep))
    /\ UNCHANGED <<tree, check, done>>

(* endmenu, endif, endchoice                                                    *)
ParseEnd ==
    /\ ~done
    /\ raw.current # 0
    /\ raw' = EndMenu(raw)
    /\ UNCHANGED <<tree, check, done>>

(* The end of conf_parse. An unclosed block is an error: nothing is finished.   *)
Finish ==
    /\ ~done
    /\ raw.current = 0
    /\ LastEntry(raw) > 0
    /\ done' = TRUE
    /\ tree' = Finalize(raw, 0)
    /\ check' = CheckTree(tree', SymOrder)
    /\ UNCHANGED raw

Next == \/ \E e \in Entries : ParseConfig(e)
        \/ \E b \in Blocks : ParseBlock(b)
        \/ \E c \in ChoiceSyms, b \in Blocks : ParseChoice(c, b.dep)
        \/ ParseEnd
        \/ Finish

Spec == Init /\ [][Next]_vars

------------------------------------------------------------------------------
(* What the files mean, without the rewriting: an entry is there when its own   *)
(* condition and those of all blocks around it are.                             *)

Value(e, env) == CalcValue(e, [env EXCEPT !.tri["m"] = Smaller(1, env.tri[ModulesSym])])

RECURSIVE BlocksAllow(_, _)
BlocksAllow(k, env) ==
    LET p == raw.par[k]
        n == raw.node[p]
    IN  CASE k = 0 -> 2
          [] n.kind = "choice" -> env.tri[n.sym]
          [] OTHER -> Smaller(Value(n.dep, env), BlocksAllow(p, env))

RECURSIVE ChoiceAround(_)
ChoiceAround(k) == CASE k = 0 -> NoSym
                     [] raw.node[k].kind = "choice" -> raw.node[k].sym
                     [] OTHER -> ChoiceAround(raw.par[k])

Nodes == DOMAIN raw.node \ {0}

(* The entry that makes its symbol a value of a choice: the first one right     *)
(* below the choice, not in the submenu of another value. A bool value of a     *)
(* tristate choice needs the choice to be y.                                    *)
InChoice(k) == tree.node[tree.par[k]].kind = "choice"
MakesValue(k) == /\ InChoice(k) /\ raw.node[k].sym # NoSym
                 /\ \A j \in Nodes : InChoice(j) /\ raw.node[j].sym = raw.node[k].sym => k <= j

Allowed(k, cond, env) ==
    LET n == raw.node[k]
        c == ChoiceAround(raw.par[k])
        all == Smaller(Smaller(Value(cond, env), Value(n.dep, env)), BlocksAllow(k, env))
    IN  IF MakesValue(k) /\ SymType[n.sym] = "bool" /\ SymType[c] = "tristate" /\ env.tri[c] # 2
        THEN 0 ELSE all

(* For what is not a tristate, m counts as y.                                   *)
Same(k, v, w) ==
    IF raw.node[k].sym # NoSym /\ SymType[raw.node[k].sym] # "tristate"
    THEN (v = 0) = (w = 0) ELSE v = w

(* The condition every property ends up with - a prompt's, a default's, a       *)
(* select's - says what its entry's place in the files says, however the        *)
(* conditions were joined, rewritten and simplified on the way down.            *)
ConditionsAsEnclosed ==
    done => \A k \in Nodes, env \in Env : \A i \in DOMAIN raw.node[k].props :
               Same(k, CalcValue(tree.node[k].props[i].cond, env),
                       Allowed(k, raw.node[k].props[i].cond, env))

(* Making submenus and flattening blocks only nests: a walk through the finished*)
(* tree meets every entry once and in the order of the files, every child knows *)
(* its parent, and a choice has the entries inside it as its values.            *)
RECURSIVE Walk(_)
Walk(ks) == IF ks = <<>> THEN <<>>
            ELSE <<Head(ks)>> \o Walk(tree.kids[Head(ks)]) \o Walk(Tail(ks))

TreeKeepsFiles ==
    done =>
      /\ Walk(tree.kids[0]) = [k \in 1 .. LastEntry(raw) |-> k]
      /\ \A p \in DOMAIN tree.node : \A i \in DOMAIN tree.kids[p] : tree.par[tree.kids[p][i]] = p
      /\ \A c \in ChoiceSyms, s \in Sym \ ChoiceSyms :
            s \in Range(tree.members[c]) =>
              \E k \in Nodes : raw.node[k].sym = s /\ ChoiceAround(raw.par[k]) = c

(* An entry that was moved into a submenu of a symbol is never there while      *)
(* neither the symbol's own entry is nor the symbol has a value: otherwise the  *)
(* menu would hide it. Excepted are negated tristates (see WrittenOutIsNotNo) and   *)
(* the values of choices, which become harder to see after the submenu is made. *)
RECURSIVE NoNegatedTristate(_)
NoNegatedTristate(e) ==
    CASE e.op \in {"and", "or"} -> NoNegatedTristate(e.le) /\ NoNegatedTristate(e.re)
      [] e.op = "not" -> \A s \in Sym : ContainsSymbol(e, s) => SymType[s] = "bool"
      [] OTHER -> TRUE

SubmenusHideTogether ==
    done => \A k \in Nodes :
        LET p == tree.par[k]
        IN  /\ tree.node[p].kind = "config"
            /\ tree.node[p].prompt # 0
            /\ tree.choice[tree.node[p].sym] = NoSym
            /\ NoNegatedTristate(Cond(tree, k))
            => \A env \in Env : CalcValue(Cond(tree, k), env) # 0 =>
                  env.tri[tree.node[p].sym] # 0 \/ CalcValue(Cond(tree, p), env) # 0

(* A recursive dependency is reported exactly when there is one: following what *)
(* symbols need leads back to where it started (a choice and its values count as*)
(* one, and a value may need its own choice).                                   *)
Group(s) == IF tree.choice[s] # NoSym THEN tree.choice[s] ELSE s

GroupNeeds(g) ==
    UNION {{Group(x) : x \in {y \in Range(Needs(tree, s)) : ~(s # g /\ y = g)}} :
             s \in {x \in Sym : Group(x) = g}}

RECURSIVE ReachedFrom(_, _)
ReachedFrom(gs, n) == IF n = 0 THEN gs
                      ELSE ReachedFrom(gs \cup UNION {GroupNeeds(g) : g \in gs}, n - 1)

Cyclic == \E g \in {Group(s) : s \in Sym} : g \in ReachedFrom(GroupNeeds(g), Cardinality(Sym))

RecursionReported == done => (check.reported <=> Cyclic)

=============================================================================
