------------------------------- MODULE KSymbol -------------------------------
(* The values of the symbols of a finished menu tree, support/kconfig/symbol.c. *)
(*                                                                              *)
(* "w" is everything the program remembers of the symbols. sym_calc_value caches*)
(* (SYMBOL_VALID), so calculating is an operation on w, and what follows from a *)
(* cached value that is out of date is kept. Strings are unparsed values; int   *)
(* stands for hex as well.                                                      *)
EXTENDS KMenu, KTree

CONSTANTS SymOrder,     \* the symbols in the order of the hash table
          Format        \* [some integers -> the string sprintf makes]

(* conf_parse leaves every symbol with the list of its properties.              *)
WithProps(t) ==
    LET entries == [k \in 1 .. LastEntry(t) |-> k]
        Prompts(s) == SelectSeq(entries, LAMBDA k : t.node[k].sym = s /\ t.node[k].prompt # 0)
    IN  t @@ [prompts  |-> [s \in Sym |-> Prompts(s)],
              defaults |-> [s \in Sym |-> PropsOf(t, s, {"default"})],
              ranges   |-> [s \in Sym |-> PropsOf(t, s, {"range"})],
              order    |-> entries]

Total(f) == f \in [Sym -> Range(f)]       \* something for every symbol

(* The tree the programs work on has these lists, of entries that are there.    *)
ASSUME TreeAssumption ==
    /\ tree.par  \in [Nodes -> Nodes]
    /\ tree.kids \in [Nodes -> Seq(Nodes)]
    /\ tree.choice \in [Sym -> ChoiceSyms \cup {NoSym}]
    /\ tree.members \in [Sym -> Seq(Sym)]
    /\ tree.prompts \in [Sym -> Seq(Nodes)]
    /\ tree.order \in Seq(Nodes)
    /\ Total(tree.dir) /\ Total(tree.rev) /\ Total(tree.imp)
    /\ Total(tree.defaults) /\ Total(tree.ranges)

ChoiceOf(s) == tree.choice[s]
NoVal       == "(none)"

NewSymbols ==      \* as conf_parse leaves them
    [tri  |-> [s \in Sym |-> IF s = "y" THEN 2 ELSE IF s = "m" THEN 1 ELSE 0],
     str  |-> [s \in Sym |-> IF SymType[s] = "unknown" THEN s ELSE ""],
     chosen |-> [c \in ChoiceSyms |-> NoSym],     \* curr.val of a choice
     vis  |-> [s \in Sym |-> 0],
     pvis |-> [k \in DOMAIN tree.node |-> 0],              \* visibility of each prompt
     dir  |-> [s \in Sym |-> 0],
     rev  |-> [s \in Sym |-> 0],
     imp  |-> [s \in Sym |-> 0],
     valid   |-> ConstSym,                        \* SYMBOL_VALID
     write   |-> {},                              \* SYMBOL_WRITE
     user    |-> {},                              \* SYMBOL_DEF_USER
     utri    |-> [s \in Sym |-> 0],               \* def[S_DEF_USER]
     ustr    |-> [s \in Sym |-> NoVal],
     uchoice |-> [c \in ChoiceSyms |-> NoSym],
     auto    |-> [s \in Sym |-> NoVal],           \* def[S_DEF_AUTO]
     spread  |-> {},                              \* SYMBOL_NEED_SET_CHOICE_VALUES
     modules |-> 0,                               \* modules_val
     changed |-> TRUE]                            \* sym_change_count

------------------------------------------------------------------------------
(* Reading a value.                                                             *)

TypeOf(w, s) == IF /\ SymType[s] = "tristate"
                   /\ w.modules = 0 \/ (ChoiceOf(s) # NoSym /\ w.vis[s] = 2)
                THEN "bool" ELSE SymType[s]

StringValue(w, s) ==
    IF ~IsBool(s) THEN w.str[s]
    ELSE IF w.tri[s] = 1 /\ w.tri[ModulesSym] = 0 THEN "n" ELSE Letter(w.tri[s])

EnvOf(w)  == [tri |-> w.tri, str |-> [s \in Sym |-> StringValue(w, s)]]
Tri(w, e) == CalcValue(e, EnvOf(w))

Number(str) == IF str \in DOMAIN NumberOf[10] THEN NumberOf[10][str] ELSE 0   \* strtoll

AsBool(w, s, v) == IF v = 1 /\ TypeOf(w, s) = "bool" THEN 2 ELSE v

------------------------------------------------------------------------------
(* Calculating.                                                                 *)

RECURSIVE Calc(_, _), CalcEach(_, _), FirstVisible(_, _), SeePrompts(_, _, _),
          CalcVisibilities(_, _), VisibleDefault(_, _)

CalcEach(w, ss) == IF ss = <<>> THEN w ELSE CalcEach(Calc(w, Head(ss)), Tail(ss))

CalcAllSymbols(w) == CalcEach(w, SymOrder)

(* expr_calc_value calculates the symbols it meets.                             *)
Known(w, e) == CalcEach(w, SymbolsIn(e))

(* The first of some defaults or ranges whose condition is not no.              *)
NoProp == [type |-> "none", expr |-> Null, cond |-> Null]

TryFirst(w, ps, t) == IF t # 0 THEN [w |-> w, prop |-> Head(ps), vis |-> t]
                               ELSE FirstVisible(w, Tail(ps))
TryKnown(w, ps) == TryFirst(w, ps, Tri(w, Head(ps).cond))

FirstVisible(w, ps) == IF ps = <<>> THEN [w |-> w, prop |-> NoProp, vis |-> 0]
                       ELSE TryKnown(Known(w, Head(ps).cond), ps)

(* sym_calc_visibility. A tristate value of a choice that is y is not shown m.  *)
AsShown(w, s, t) == IF /\ ChoiceOf(s) # NoSym /\ SymType[s] = "tristate"
                     /\ t = 1 /\ w.tri[ChoiceOf(s)] = 2 THEN 0 ELSE t
SeePrompt(w, s, k) == [w EXCEPT !.pvis[k] = AsShown(w, s, Tri(w, Cond(tree, k)))]

SeePrompts(w, s, ks) ==
    IF ks = <<>> THEN w
    ELSE SeePrompts(SeePrompt(Known(w, Cond(tree, Head(ks))), s, Head(ks)), s, Tail(ks))

PutVisible(w, s) ==
    LET best == FoldLeft(LAMBDA t, k : Greater(t, w.pvis[k]), 0, tree.prompts[s])
    IN  [w EXCEPT !.vis[s] = IF best = 1 /\ (SymType[s] # "tristate" \/ w.modules = 0)
                             THEN 2 ELSE best]

PutDir(w, s) == [w EXCEPT !.dir[s] = AsBool(w, s, Tri(w, tree.dir[s]))]
PutRev(w, s) == [w EXCEPT !.rev[s] = IF tree.rev[s] = Null THEN 0
                                     ELSE AsBool(w, s, Tri(w, tree.rev[s]))]
PutImp(w, s) == [w EXCEPT !.imp[s] = IF tree.imp[s] = Null \/ w.dir[s] = 0 THEN 0
                                     ELSE AsBool(w, s, Tri(w, tree.imp[s]))]

Implied(w, s)  == PutImp(IF w.dir[s] = 0 THEN w ELSE Known(w, tree.imp[s]), s)
Selected(w, s) == Implied(PutRev(Known(w, tree.rev[s]), s), s)
Depends(w, s)  == IF ChoiceOf(s) # NoSym THEN w
                  ELSE Selected(PutDir(Known(w, tree.dir[s]), s), s)

CalcVisibility(w, s) == Depends(PutVisible(SeePrompts(w, s, tree.prompts[s]), s), s)

CalcVisibilities(w, ss) ==
    IF ss = <<>> THEN w ELSE CalcVisibilities(CalcVisibility(w, Head(ss)), Tail(ss))

(* sym_choice_default: the first visible default, or else the first visible     *)
(* value.                                                                       *)
TryDefault(f, ps) ==
    LET s == f.prop.expr.sym
    IN  IF f.prop = NoProp THEN [w |-> f.w, sym |-> NoSym]
        ELSE IF f.w.vis[s] # 0 THEN [w |-> f.w, sym |-> s]
        ELSE VisibleDefault(f.w, SubSeq(ps, 1 + CHOOSE j \in DOMAIN ps : ps[j] = f.prop, Len(ps)))

VisibleDefault(w, ps) == TryDefault(FirstVisible(w, ps), ps)

OrFirst(d, shown) == IF d.sym # NoSym \/ shown = <<>> THEN d ELSE [d EXCEPT !.sym = Head(shown)]
OrVisible(d, c)   == OrFirst(d, SelectSeq(tree.members[c], LAMBDA s : d.w.vis[s] # 0))

ChoiceDefault(w, c) == OrVisible(VisibleDefault(w, tree.defaults[c]), c)

(* sym_calc_choice. A choice with a visible value that is new becomes new.      *)
Renewed(w, c) ==
    IF \A i \in DOMAIN tree.members[c] :
          w.vis[tree.members[c][i]] # 0 => tree.members[c][i] \in w.user
    THEN w ELSE [w EXCEPT !.user = @ \ {c}]

MutChosen(w, c) == IF w.uchoice[c] # NoSym THEN [w |-> w, sym |-> w.uchoice[c]]
                   ELSE ChoiceDefault(w, c)
Chosen(w, c) == IF w.uchoice[c] # NoSym /\ w.vis[w.uchoice[c]] # 0
                THEN [w |-> w, sym |-> w.uchoice[c]] ELSE ChoiceDefault(w, c)

PutChosen(d, c) == [d.w EXCEPT !.chosen[c] = d.sym, !.tri[c] = IF d.sym = NoSym THEN 0 ELSE @]

CalcChoice(w, c) == PutChosen(Chosen(Renewed(CalcVisibilities(w, tree.members[c]), c), c), c)

(* set_all_choice_values                                                        *)
SetAllChoiceValues(w, c) ==
    [w EXCEPT !.utri   = [s \in Sym |-> IF ChoiceOf(s) = c /\ s \notin w.user THEN 0 ELSE @[s]],
              !.user   = @ \cup {c},
              !.valid  = @ \ {c},
              !.spread = @ \ {c}]

(* A bool or tristate. Without a user's value, what the default and the implying*)
(* symbols say.                                                                 *)
PutTri(w, s, v) ==
    [w EXCEPT !.tri[s] = IF v = 1 /\ (TypeOf(w, s) = "bool" \/ w.imp[s] = 2) THEN 2 ELSE v]

PutSaid(w, s, v) ==
    PutTri([w EXCEPT !.write = IF w.rev[s] # 0 \/ v # 0 \/ w.imp[s] # 0 THEN @ \cup {s} ELSE @],
           s, Greater(Greater(v, w.imp[s]), w.rev[s]))

SaidBy(w, f) == IF f.prop = NoProp THEN 0 ELSE Smaller(Tri(w, f.prop.expr), f.vis)

Suggest(w, s, f) == PutSaid(w, s, SaidBy(w, f))
SuggestedBy(f, s) == Suggest(Known(f.w, f.prop.expr), s, f)

CalcTristate(w, s) ==
    IF ChoiceOf(s) # NoSym /\ w.vis[s] = 2
    THEN PutTri(w, s, IF w.chosen[ChoiceOf(s)] = s THEN 2 ELSE 0)
    ELSE IF w.vis[s] # 0 /\ s \in w.user
    THEN PutTri(w, s, Greater(Smaller(w.utri[s], w.vis[s]), w.rev[s]))
    ELSE IF s \in ChoiceSyms THEN PutSaid(w, s, 0)
    ELSE SuggestedBy(FirstVisible(w, tree.defaults[s]), s)

(* A string or a number.                                                        *)
CopyString(w, s, d) == [w EXCEPT !.str[s] = StringValue(w, d)]
DefaultString(f, s) ==
    IF f.prop = NoProp THEN f.w
    ELSE CopyString(Calc([f.w EXCEPT !.write = @ \cup {s}], f.prop.expr.sym), s, f.prop.expr.sym)

CalcString(w, s) == IF w.vis[s] # 0 /\ s \in w.user THEN [w EXCEPT !.str[s] = w.ustr[s]]
                    ELSE DefaultString(FirstVisible(w, tree.defaults[s]), s)

(* The bounds of a number: the first range that applies.                        *)
NoBounds(w) == [w |-> w, on |-> FALSE, min |-> 0, max |-> 0]
BoundsOf(w, x) == [w |-> w, on |-> TRUE, min |-> Number(w.str[x.lsym]), max |-> Number(w.str[x.rsym])]
RangeOf(f) == IF f.prop = NoProp THEN NoBounds(f.w)
              ELSE BoundsOf(CalcEach(f.w, <<f.prop.expr.lsym, f.prop.expr.rsym>>), f.prop.expr)
Bounds(w, s) == IF SymType[s] # "int" THEN NoBounds(w) ELSE RangeOf(FirstVisible(w, tree.ranges[s]))

InBounds(b, str) == b.on => b.min <= Number(str) /\ Number(str) <= b.max

(* sym_validate_range: a number out of range becomes the bound it is beyond.    *)
Validate(b, s) == IF InBounds(b, b.w.str[s]) THEN b.w
                  ELSE [b.w EXCEPT !.str[s] = Format[IF Number(@) < b.min THEN b.min ELSE b.max]]
ValidateRange(w, s) == Validate(Bounds(w, s), s)

(* A written choice has its visible values written.                             *)
WriteValues(w, c) ==
    IF c \notin w.write THEN w
    ELSE [w EXCEPT !.write = @ \cup {s \in Range(tree.members[c]) : w.vis[s] # 0}]

(* sym_calc_value, one step after the other.                                    *)
Opened(w, s) == [w EXCEPT !.valid = @ \cup {s}, !.write = @ \ {s}]
Blanked(w, s) ==
    [w EXCEPT !.write = IF w.vis[s] # 0 THEN @ \cup {s} ELSE @,
              !.tri[s] = 0, !.str[s] = "",
              !.chosen = [c \in ChoiceSyms |-> IF c = s THEN NoSym ELSE @[c]]]
Valued(w, s) == IF IsBool(s) THEN CalcTristate(w, s) ELSE CalcString(w, s)
Picked(w, s) == IF s \in ChoiceSyms /\ w.tri[s] = 2 THEN CalcChoice(w, s) ELSE w
Closed(w, s) == IF s = ModulesSym THEN [w EXCEPT !.modules = w.tri[s]]
                ELSE IF s \in ChoiceSyms THEN WriteValues(w, s) ELSE w
SpreadOut(w, s) == IF s \in w.spread THEN SetAllChoiceValues(w, s) ELSE w

Evaluate(w, s) ==
    IF SymType[s] = "unknown" THEN [w EXCEPT !.valid = @ \cup {s}]
    ELSE SpreadOut(Closed(ValidateRange(Picked(Valued(Blanked(CalcVisibility(Opened(w, s), s), s), s), s), s), s), s)

Calc(w, s) ==
    IF s \in w.valid THEN w
    ELSE Evaluate(IF ChoiceOf(s) # NoSym /\ s \in w.spread
                  THEN Calc([w EXCEPT !.spread = @ \ {s}], ChoiceOf(s)) ELSE w, s)

(* sym_clear_all_valid                                                          *)
ClearAllValid(w) == Calc([w EXCEPT !.valid = ConstSym, !.changed = TRUE], ModulesSym)

------------------------------------------------------------------------------
(* The user's values.                                                           *)

(* sym_tristate_within_range                                                    *)
TristateWithinRange(w, s, v) ==
    /\ w.vis[s] # 0
    /\ IsBool(s)
    /\ ~(TypeOf(w, s) = "bool" /\ v = 1)
    /\ w.vis[s] > w.rev[s]
    /\ ~(w.imp[s] = 2 /\ v = 1)
    /\ IF ChoiceOf(s) # NoSym /\ w.vis[s] = 2 THEN v = 2 ELSE w.rev[s] <= v /\ v <= w.vis[s]

CanSetTristate(w, s, v) == w.tri[s] = v \/ TristateWithinRange(w, s, v)

(* sym_set_tristate_value. A value of a choice that is set makes all visible    *)
(* values of the choice, and the choice, no longer new.                         *)
MutSetTristate(w, s, v) ==
    [w EXCEPT !.user = @ \cup {s}, !.utri[s] = v, !.tri[s] = v, !.changed = TRUE]
SetTristate(w, s, v) ==
    LET c == ChoiceOf(s)
        picked == c # NoSym /\ v = 2
        a == [w EXCEPT !.user = @ \cup {s}
                                  \cup (IF picked
                                        THEN {c} \cup {x \in Range(tree.members[c]) : w.vis[x] # 0}
                                        ELSE {}),
                       !.uchoice = [x \in ChoiceSyms |-> IF picked /\ x = c THEN s ELSE @[x]],
                       !.utri[s] = v]
    IN  IF w.tri[s] # v THEN ClearAllValid(a) ELSE a

(* sym_toggle_tristate_value: n, m, y in turn, the first that can be set.       *)
ToggleTristate(w, s) ==
    LET Turn(n) == (w.tri[s] + n) % 3
    IN  SetTristate(w, s, Turn(CHOOSE i \in 1 .. 3 :
                                 /\ CanSetTristate(w, s, Turn(i))
                                 /\ \A j \in 1 .. i - 1 : ~CanSetTristate(w, s, Turn(j))))

StringValid(s, str) == str \in CASE SymType[s] = "string" -> Range(StrOrder)
                                [] SymType[s] = "int"    -> Range(Format)
                                [] OTHER                 -> {}

(* sym_string_within_range                                                      *)
StringWithinRange(w, s, str) == StringValid(s, str) /\ InBounds(Bounds(w, s), str)

(* sym_set_string_value                                                         *)
SetString(w, s, str) ==
    LET a == [w EXCEPT !.user = @ \cup {s}, !.ustr[s] = str]
    IN  IF w.ustr[s] = str THEN a ELSE ClearAllValid(a)

IsChangable(w, s) == w.vis[s] > w.rev[s]

(* sym_get_string_default: what the value would be without the user's.          *)
WholeDefault(w, s, v) ==
    IF v = 1 /\ \/ ChoiceOf(s) = NoSym /\ w.tri[ModulesSym] = 0
                \/ SymType[s] = "bool" THEN 2 ELSE v
TextDefault(w, s, f) ==
    [w |-> w,
     str |-> IF IsBool(s)
             THEN Letter(Greater(WholeDefault(w, s, Greater(SaidBy(w, f), w.rev[s])), w.imp[s]))
             ELSE IF f.prop = NoProp THEN "" ELSE StringValue(w, f.prop.expr.sym)]
DefaultBy(f, s) == TextDefault(Known(f.w, f.prop.expr), s, f)

StringDefault(w, s) ==
    DefaultBy(FirstVisible(Calc(CalcVisibility(w, s), ModulesSym), tree.defaults[s]), s)
=============================================================================
