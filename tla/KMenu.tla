-------------------------------- MODULE KMenu --------------------------------
(* The menu tree of Kconfig, support/kconfig/menu.c: how the parser builds it,  *)
(* how menu_finalize passes the conditions of the enclosing entries down, makes *)
(* submenus, gathers choices and select statements, and the check for recursive *)
(* dependencies of symbol.c.                                                    *)
(*                                                                              *)
(* A tree has its nodes numbered in the order of the files, 0 being the root,   *)
(* the ordered children and the parent of each, and per symbol what menu_finalize*)
(* gathers. Symbol types are given (SymType), not inferred.                     *)
EXTENDS KExpr, KNames

NewTree ==
    [node    |-> (0 :> [kind |-> "menu", sym |-> NoSym, dep |-> Null, vis |-> Null,
                        props |-> <<[type |-> "menu", expr |-> Null, cond |-> Null]>>,
                        prompt |-> 1]),
     kids    |-> (0 :> <<>>),
     par     |-> (0 :> 0),
     current |-> 0,                          \* current_menu
     rev     |-> [s \in Sym |-> Null],       \* conditions under which s is selected
     imp     |-> [s \in Sym |-> Null],       \* ... and implied
     dir     |-> [s \in Sym |-> Null],       \* dependencies of the entries of s
     choice  |-> [s \in Sym |-> NoSym],      \* the choice s is a value of
     members |-> [s \in Sym |-> <<>>]]       \* the values of a choice

LastEntry(t)  == Cardinality(DOMAIN t.node) - 1   \* current_entry
Cond(t, k) == LET n == t.node[k]             \* when the entry is there
              IN  IF n.prompt = 0 THEN n.dep ELSE n.props[n.prompt].cond

------------------------------------------------------------------------------
(* The parser. *)

AddEntry(t, kind, sym) ==
    LET k == LastEntry(t) + 1
    IN  [t EXCEPT !.node = @ @@ (k :> [kind |-> kind, sym |-> sym, dep |-> Null, vis |-> Null,
                                       props |-> <<>>, prompt |-> 0]),
                  !.kids = [@ EXCEPT ![t.current] = Append(@, k)] @@ (k :> <<>>),
                  !.par  = @ @@ (k :> t.current)]

AddMenu(t) == [t EXCEPT !.current = LastEntry(t)]
EndMenu(t) == [t EXCEPT !.current = t.par[t.current]]

AddDep(t, dep)        == [t EXCEPT !.node[LastEntry(t)].dep = AllocAnd(@, dep)]
AddVisibility(t, vis) == [t EXCEPT !.node[LastEntry(t)].vis = AllocAnd(@, vis)]

(* "visible if" of the menus around an entry goes to its prompt.                *)
RECURSIVE VisibleAbove(_, _, _)
VisibleAbove(t, k, cond) ==
    IF k = 0 THEN cond
    ELSE LET p == t.par[k]
         IN  VisibleAbove(t, p, AllocAnd(cond, t.node[p].vis))

AddProp(t, type, expr, cond) ==
    LET k    == LastEntry(t)
        n    == t.node[k]
        full == IF type = "prompt" THEN VisibleAbove(t, k, cond) ELSE cond
    IN  [t EXCEPT !.node[k].props  = Append(@, [type |-> type, expr |-> expr, cond |-> full]),
                  !.node[k].prompt = IF type \in {"prompt", "menu", "comment"}
                                     THEN Len(n.props) + 1 ELSE @]

------------------------------------------------------------------------------
(* Passing the dependencies down. *)

(* m becomes m && MODULES: n when there are no modules.                         *)
RECURSIVE RewriteM(_)
RewriteM(e) ==
    CASE e.op = "not"           -> Not(RewriteM(e.arg))
      [] e.op \in {"and", "or"} -> Two(e.op, RewriteM(e.le), RewriteM(e.re))
      [] IsSymbol(e, "m")       -> AllocAnd(e, S(ModulesSym))
      [] OTHER                  -> e

(* Mutant: m is not tied to the modules.                                        *)
MutBelow(parent, cond) == EliminateDups(AllocAnd(parent, Transform(cond)))

(* A condition below another one.                                               *)
Below(parent, cond) == EliminateDups(AllocAnd(parent, Transform(RewriteM(cond))))

(* A choice is what its values depend on, a menu's prompt what its entries do.  *)
ParentDep(t, p) ==
    LET n == t.node[p]
    IN  CASE n.sym \in ChoiceSyms -> S(n.sym)
          [] n.prompt # 0      -> n.props[n.prompt].cond
          [] OTHER             -> n.dep

(* select and imply: the condition is added to the other symbol.                *)
AddRev(rev, sym, type, props) ==
    [s \in Sym |->
       FoldLeft(LAMBDA e, p : IF p.type = type /\ p.expr.sym = s
                              THEN AllocOr(e, AllocAnd(S(sym), p.cond)) ELSE e,
                rev[s], props)]

Propagate(t, k, parent) ==
    LET n == t.node[k]
        For(cond) == IF n.sym # NoSym /\ SymType[n.sym] # "tristate" THEN TransBool(cond) ELSE cond
        Full(base) == [i \in DOMAIN n.props |->
                         [n.props[i] EXCEPT !.cond = For(Below(base, @))]]
        Put(base, props) == [t EXCEPT !.node[k].dep   = base,
                                      !.node[k].props = props,
                                      !.rev = AddRev(@, n.sym, "select", props),
                                      !.imp = AddRev(@, n.sym, "imply", props)]
    IN  With(Below(parent, n.dep), LAMBDA base : Put(base, Full(base)))

(* An entry belongs into a submenu of sym when it needs sym, or when it mentions*)
(* sym and cannot be there unless sym's own entry (base) is.                    *)
NotNo(e) == EliminateDups(Transform(TransCompare(e, "ne", "n")))

(* Mutant: being mentioned is enough.                                           *)
MutInSubmenu(dep, sym, base) == ContainsSymbol(dep, sym)

InSubmenu(dep, sym, base) ==
    /\ ContainsSymbol(dep, sym)
    /\ \/ DependsSymbol(dep, sym)
       \/ EliminateEq(NotNo(dep), base).b = S("y")

(* A value of a choice. Where the choice is a tristate and the value is not, the*)
(* choice must be y.                                                            *)
Adopt(t, k, choice) ==
    LET sym  == t.node[k].sym
        needs == IF SymType[choice] = "tristate" /\ SymType[sym] # "tristate"
                 THEN Comp("eq", choice, "y") ELSE Null
    IN  IF sym = NoSym \/ choice \notin ChoiceSyms \/ t.choice[sym] # NoSym THEN t
        ELSE [t EXCEPT
                !.choice[sym]     = choice,
                !.members[choice] = Append(@, sym),
                !.node[k].dep     = AllocAnd(needs, @),
                !.node[k].props   = [i \in DOMAIN @ |->
                                       [@[i] EXCEPT !.cond = AllocAnd(needs, @)]]]

(* Mutant: the children go to the end of the list.                              *)
MutFlatten(t, p, i) ==
    LET k == t.kids[p][i]
    IN  IF t.kids[k] = <<>> \/ t.node[k].prompt # 0 THEN t
        ELSE [t EXCEPT !.kids = [@ EXCEPT ![p] = @ \o t.kids[k], ![k] = <<>>],
                       !.par  = [x \in DOMAIN @ |->
                                   IF x \in {t.kids[k][j] : j \in DOMAIN t.kids[k]}
                                   THEN p ELSE @[x]]]

(* The children of an entry without a prompt take its place behind it.          *)
Flatten(t, p, i) ==
    LET k == t.kids[p][i]
    IN  IF t.kids[k] = <<>> \/ t.node[k].prompt # 0 THEN t
        ELSE [t EXCEPT !.kids = [@ EXCEPT ![p] = SubSeq(@, 1, i) \o t.kids[k]
                                                  \o SubSeq(@, i + 1, Len(@)),
                                          ![k] = <<>>],
                       !.par  = [x \in DOMAIN @ |->
                                   IF x \in {t.kids[k][j] : j \in DOMAIN t.kids[k]}
                                   THEN p ELSE @[x]]]

RECURSIVE AdoptAndFlatten(_, _, _)
AdoptAndFlatten(t, p, i) ==
    IF i > Len(t.kids[p]) THEN t
    ELSE AdoptAndFlatten(Flatten(Adopt(t, t.kids[p][i], t.node[p].sym), p, i), p, i + 1)

(* A choice that is not optional and can be seen is at least m.                 *)
ChoiceNeeded(t, p) ==
    LET n == t.node[p]
    IN  IF n.sym \in ChoiceSyms \ Optional /\ n.prompt # 0
        THEN [t EXCEPT !.rev[n.sym] = AllocOr(@, AllocAnd(n.props[n.prompt].cond, S("m")))]
        ELSE t

RECURSIVE Finalize(_, _), FinalizeKids(_, _, _), Absorb(_, _, _, _, _)

FinalizeKids(t, p, i) ==
    IF i > Len(t.kids[p]) THEN t
    ELSE FinalizeKids(Finalize(t, t.kids[p][i]), p, i + 1)

(* The entries from the i-th child of above on that go into the submenu of p;   *)
(* "upto" is the last one that does.                                            *)
Absorb(t, p, above, base, i) ==
    LET m == t.kids[above][i]
    IN  IF i > Len(t.kids[above]) \/ ~InSubmenu(Cond(t, m), t.node[p].sym, base)
        THEN [tree |-> t, upto |-> i - 1]
        ELSE Absorb([Finalize(t, m) EXCEPT !.par[m] = p], p, above, base, i + 1)

Submenu(t, p) ==
    LET above == t.par[p]
        i     == CHOOSE j \in DOMAIN t.kids[above] : t.kids[above][j] = p
        base  == NotNo(IF t.node[p].prompt = 0 THEN Null ELSE Cond(t, p))
        Split(kids, upto) == [kids EXCEPT ![p]     = SubSeq(kids[above], i + 1, upto),
                                          ![above] = SubSeq(@, 1, i)
                                                       \o SubSeq(@, upto + 1, Len(@))]
    IN  With(Absorb(t, p, above, base, i + 1), LAMBDA found :
            [found.tree EXCEPT !.kids = Split(@, found.upto),
                               !.dir[t.node[p].sym] = AllocOr(@, t.node[p].dep)])

(* menu_finalize *)
Finalize(t, p) ==
    LET Down(u, k) == Propagate(u, k, ParentDep(t, p))
        inner == IF t.kids[p] # <<>> THEN FinalizeKids(FoldLeft(Down, t, t.kids[p]), p, 1)
                 ELSE IF t.node[p].sym # NoSym THEN Submenu(t, p)
                 ELSE t
    IN  ChoiceNeeded(AdoptAndFlatten(inner, p, 1), p)

------------------------------------------------------------------------------
(* What the rest of the program asks of the finished tree.                      *)

(* The properties of a symbol, of all its entries.                              *)
Props(t, s) ==
    FoldLeft(LAMBDA ps, k : IF t.node[k].sym = s THEN ps \o t.node[k].props ELSE ps,
             <<>>, [i \in 1 .. LastEntry(t) |-> i])
PropsOf(t, s, types) == SelectSeq(Props(t, s), LAMBDA p : p.type \in types)

------------------------------------------------------------------------------
(* The check for recursive dependencies: a walk along what the values of the    *)
(* symbols need. "open" are the symbols on the way (SYMBOL_CHECK), "done" those *)
(* checked before (SYMBOL_CHECKED), "hit" the symbol at which the way closed    *)
(* (the value returned), "reported" whether an error was printed.               *)

RECURSIVE SymbolsIn(_)
SymbolsIn(e) ==
    CASE e.op \in {"and", "or"} -> SymbolsIn(e.le) \o SymbolsIn(e.re)
      [] e.op = "not"           -> SymbolsIn(e.arg)
      [] e.op = "sym"           -> <<e.sym>>
      [] e.op \in Relations     -> <<e.lsym, e.rsym>>
      [] OTHER                  -> <<>>

(* What sym_check_sym_deps follows: who selects the symbol, the conditions of   *)
(* its properties but selects, and its defaults unless it is a choice.          *)
Needs(t, s) ==
    FoldLeft(LAMBDA ss, p :
               IF p.type = "select" THEN ss
               ELSE ss \o SymbolsIn(p.cond)
                       \o (IF p.type = "default" /\ s \notin ChoiceSyms THEN SymbolsIn(p.expr)
                                                                     ELSE <<>>),
             SymbolsIn(t.rev[s]), Props(t, s))

RECURSIVE CheckDeps(_, _, _), CheckAll(_, _, _)

CheckAll(t, w, ss) ==
    IF ss = <<>> \/ w.hit # NoSym THEN w
    ELSE CheckAll(t, CheckDeps(t, w, Head(ss)), Tail(ss))

(* A choice and its values are checked together, the choice first.              *)
CheckChoice(t, w, c) ==
    LET group == {c} \cup Range(t.members[c])
        start == [w EXCEPT !.open = @ \cup group, !.done = @ \cup group]
        self  == [CheckAll(t, start, Needs(t, c)) EXCEPT !.open = @ \ {c}]
        Each(v, s) == IF v.hit # NoSym THEN v ELSE CheckAll(t, v, Needs(t, s))
    IN  [FoldLeft(Each, self, t.members[c])
           EXCEPT !.open = @ \ group, !.hit = IF @ \in group THEN c ELSE @]

(* The way has closed at s: an error is printed.                                *)
Report(w, s) == [w EXCEPT !.hit = s, !.reported = TRUE]

(* Mutant: what was visited is not looked at again, even when it is still open. *)
MutCheckDeps(t, w, s) ==
    IF s \in w.done THEN w
    ELSE IF s \in w.open THEN Report(w, s)
    ELSE IF t.choice[s] # NoSym THEN CheckDeps(t, w, t.choice[s])
    ELSE IF s \in ChoiceSyms THEN CheckChoice(t, w, s)
    ELSE [CheckAll(t, [w EXCEPT !.open = @ \cup {s}, !.done = @ \cup {s}],
                   Needs(t, s)) EXCEPT !.open = @ \ {s}]

CheckDeps(t, w, s) ==
    IF s \in w.open THEN Report(w, s)
    ELSE IF s \in w.done THEN w
    ELSE [IF t.choice[s] # NoSym THEN CheckDeps(t, w, t.choice[s])
          ELSE IF s \in ChoiceSyms THEN CheckChoice(t, w, s)
          ELSE [CheckAll(t, [w EXCEPT !.open = @ \cup {s}, !.done = @ \cup {s}],
                         Needs(t, s)) EXCEPT !.open = @ \ {s}]
          EXCEPT !.hit = IF @ = s THEN NoSym ELSE @]

(* conf_parse checks every symbol and counts the calls that return one.         *)
CheckTree(t, order) ==
    FoldLeft(LAMBDA w, s : With(CheckDeps(t, [w EXCEPT !.hit = NoSym], s), LAMBDA r :
                                [r EXCEPT !.errors = @ + IF r.hit = NoSym THEN 0 ELSE 1]),
             [open |-> {}, done |-> {}, hit |-> NoSym, reported |-> FALSE, errors |-> 0], order)
=============================================================================
