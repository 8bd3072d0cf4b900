------------------------------ MODULE KConfData ------------------------------
(* Reading and writing the files of a configuration, support/kconfig/confdata.c.*)
(* Whether a menu is visible (menu.c) is asked while writing.          *)
EXTENDS KSymbol

TriOf(v) == CASE v = "y" -> 2 [] v = "m" -> 1 [] OTHER -> 0

------------------------------------------------------------------------------
(* conf_read_simple with S_DEF_USER. "warned" is conf_warnings.                 *)

(* A line says something about s: is it a value s can have?                     *)
Accepted(s, v) ==
    CASE v = "unset"              -> IsBool(s)
      [] SymType[s] = "tristate" -> v \in {"y", "m", "n"}
      [] SymType[s] = "bool"     -> v \in {"y", "n"}
      [] OTHER                   -> StringValid(s, v)

(* The choice follows the lines of its values.                                  *)
NoteChoice(w, s) ==
    LET c == ChoiceOf(s)
        t == w.utri[s]
        inconsistent == t = 1 /\ w.utri[c] = 2
    IN  [w EXCEPT !.user    = IF inconsistent THEN @ \ {c} ELSE @,
                  !.warned  = @ \/ inconsistent \/ (t = 2 /\ w.utri[c] # 0),
                  !.uchoice = [x \in ChoiceSyms |-> IF x = c /\ t = 2 THEN s ELSE @[x]],
                  !.utri[c] = Greater(@, t)]

SetUser(w, s, v) == IF IsBool(s) THEN [w EXCEPT !.user = @ \cup {s}, !.utri[s] = TriOf(v)]
                                 ELSE [w EXCEPT !.user = @ \cup {s}, !.ustr[s] = v]
Noted(w, s) == IF ChoiceOf(s) # NoSym THEN NoteChoice(w, s) ELSE w

ReadLine(w, l) ==
    IF l.sym \notin Sym THEN [w EXCEPT !.changed = TRUE]
    ELSE IF ~Accepted(l.sym, l.val)
    THEN [w EXCEPT !.warned = @ \/ l.sym \in w.user \/ l.val # "unset"]
    ELSE Noted(SetUser([w EXCEPT !.warned = @ \/ l.sym \in w.user], l.sym, l.val), l.sym)

ReadLines(w, file) ==
    LET start == [w EXCEPT !.valid = ConstSym, !.user = ChoiceSyms,
                           !.utri = [s \in Sym |-> 0], !.ustr = [s \in Sym |-> NoVal],
                           !.uchoice = [c \in ChoiceSyms |-> NoSym]]
    IN  FoldLeft(ReadLine, start @@ [warned |-> FALSE], file)

------------------------------------------------------------------------------
(* conf_read *)

(* The value is what the file said, or there is none on either side.            *)
Agrees(w, s) ==
    IF s \in w.user /\ s \in w.write
    THEN IF IsBool(s) THEN w.utri[s] = w.tri[s] ELSE w.str[s] = w.ustr[s]
    ELSE s \notin w.user /\ s \notin w.write

Checked(w) == {s \in Range(SymOrder) : s \notin ChoiceSyms /\ ~Agrees(w, s)}

(* Values that are not shown become new again, numbers out of range as well.    *)
(* "unsaved" stays after the first.                                             *)
ResetUser(w, s) ==
    IF s \notin w.user \/ ChoiceOf(s) # NoSym THEN w
    ELSE IF IsBool(s) \/ StringWithinRange(w, s, w.ustr[s])
    THEN [w EXCEPT !.user = IF w.vis[s] = 0 /\ ~w.unsaved THEN @ \ {s} ELSE @]
    ELSE [w EXCEPT !.valid = @ \ {s}, !.user = @ \ {s}, !.unsaved = TRUE]

RECURSIVE ResetEach(_, _)
ResetEach(w, ss) == IF ss = <<>> THEN w ELSE ResetEach(ResetUser(w, Head(ss)), Tail(ss))

Reset(w)  == ResetEach(w @@ [unsaved |-> Checked(w) # {}], SymOrder)
Memory(w) == [f \in DOMAIN NewSymbols |-> w[f]]
Told(w)   == Memory([w EXCEPT !.changed = @ \/ w.warned \/ w.unsaved])

Read(w, file) ==
    IF file = Missing THEN Calc([w EXCEPT !.changed = TRUE], ModulesSym)
    ELSE Told(Reset(CalcAllSymbols(Calc(ReadLines([w EXCEPT !.changed = FALSE], file), ModulesSym))))

------------------------------------------------------------------------------
(* menu_is_visible. A symbol that is shown only because an entry below it is    *)
(* counts as having a value.                                                    *)

RECURSIVE MenuVisible(_, _), AnyVisible(_, _)

OrNext(r, ks) == IF r.ok THEN r ELSE AnyVisible(r.w, ks)
AnyVisible(w, ks) == IF ks = <<>> THEN [w |-> w, ok |-> FALSE]
                     ELSE OrNext(MenuVisible(w, Head(ks)), Tail(ks))

Hidden(w) == [w |-> w, ok |-> FALSE]
Marked(r, s) == IF r.ok THEN [r EXCEPT !.w.user = @ \cup {s}] ELSE r
Inside(w, k) ==
    LET s == tree.node[k].sym
    IN  IF IF s # NoSym THEN w.pvis[k] # 0 ELSE Tri(w, Cond(tree, k)) # 0
        THEN [w |-> w, ok |-> TRUE]
        ELSE IF s = NoSym \/ w.tri[s] = 0 THEN Hidden(w)
        ELSE Marked(AnyVisible(w, tree.kids[k]), s)
Looked(w, k) == Inside(IF tree.node[k].sym # NoSym THEN Calc(w, tree.node[k].sym)
                                                  ELSE Known(w, Cond(tree, k)), k)
IfVisible(w, k) == IF Tri(w, tree.node[k].vis) = 0 THEN Hidden(w) ELSE Looked(w, k)

MenuVisible(w, k) == IF tree.node[k].prompt = 0 THEN Hidden(w)
                     ELSE IfVisible(Known(w, tree.node[k].vis), k)

------------------------------------------------------------------------------
(* conf_write: every symbol that is to be written, once, in the order of the    *)
(* menus.                                                                       *)

WriteLine(w, s) ==
    LET v == StringValue(w, s)
    IN  Line(s, IF IsBool(s) /\ v = "n" THEN "unset" ELSE v)

MutPut(w, file, s) == [w |-> w, file |-> Append(file, WriteLine(w, s))]
Put(w, file, s) == IF s \notin w.write THEN [w |-> w, file |-> file]
                   ELSE [w    |-> [w EXCEPT !.write = @ \ {s}],
                         file |-> Append(file, WriteLine(w, s))]

WriteEntry(w, file, k) ==
    LET s == tree.node[k].sym
    IN  IF s = NoSym THEN [w |-> MenuVisible(w, k).w, file |-> file]
        ELSE IF s \in ChoiceSyms THEN [w |-> w, file |-> file]
        ELSE Put(Calc(w, s), file, s)

RECURSIVE WriteEach(_, _)
WriteEach(r, ks) == IF ks = <<>> THEN r
                    ELSE WriteEach(WriteEntry(r.w, r.file, Head(ks)), Tail(ks))

Empty(w) == [w |-> w, file |-> <<>>]
WriteConfig(w) == WriteEach(Empty(IF w.changed THEN w ELSE ClearAllValid(w)), tree.order)

------------------------------------------------------------------------------
(* conf_write_defconfig: what differs from the default and can be changed.      *)

(* The value a choice takes by itself need not be said.                         *)
TakenAnyway(w, s) ==
    LET c == ChoiceOf(s)
    IN  c # NoSym /\ c \notin Optional /\ SymType[s] = "bool" /\ w.tri[s] = 2
        /\ ChoiceDefault(w, c).sym = s

Differing(d, file, s) ==
    [w |-> d.w, file |-> IF StringValue(d.w, s) = d.str \/ TakenAnyway(d.w, s) THEN file
                         ELSE Append(file, WriteLine(d.w, s))]

PutDefconfig(w, file, s) ==
    IF s \notin w.write \/ ~IsChangable(w, s) THEN [w |-> [w EXCEPT !.write = @ \ {s}], file |-> file]
    ELSE Differing(StringDefault([w EXCEPT !.write = @ \ {s}], s), file, s)

DefconfigEntry(w, file, k) ==
    LET s == tree.node[k].sym
    IN  IF s = NoSym THEN [w |-> MenuVisible(w, k).w, file |-> file]
        ELSE IF s \in ChoiceSyms THEN [w |-> w, file |-> file]
        ELSE PutDefconfig(Calc(w, s), file, s)

RECURSIVE DefconfigEach(_, _)
DefconfigEach(r, ks) == IF ks = <<>> THEN r
                        ELSE DefconfigEach(DefconfigEntry(r.w, r.file, Head(ks)), Tail(ks))

WriteDefconfig(w) == DefconfigEach(Empty(ClearAllValid(w)), tree.order)

------------------------------------------------------------------------------
(* conf_write_autoconf. auto.conf leaves out what is n, tristate.conf has the   *)
(* tristates that are not; the header follows auto.conf. For every symbol whose *)
(* value differs from auto.conf, conf_split_config touches a file.              *)

ReadAuto(w, file) ==
    LET Last1(s) == FoldLeft(LAMBDA v, l : IF l.sym = s /\ Accepted(s, l.val) THEN l.val ELSE v,
                             NoVal, file)
    IN  IF file = Missing THEN w
        ELSE [w EXCEPT !.valid = ConstSym, !.auto = [s \in Sym |-> Last1(s)]]

(* The old value and the new one are compared; no old value is like n.          *)
MutTouches(w, s) ==
    s \in w.write /\ IF IsBool(s) THEN w.tri[s] # TriOf(w.auto[s])
                     ELSE StringValue(w, s) # w.auto[s]
Touches(w, s) ==
    IF s \in w.write
    THEN IF w.auto[s] # NoVal
         THEN IF IsBool(s) THEN w.tri[s] # TriOf(w.auto[s]) ELSE StringValue(w, s) # w.auto[s]
         ELSE ~(IsBool(s) /\ w.tri[s] = 0)
    ELSE w.auto[s] # NoVal

Named == SelectSeq(SymOrder, LAMBDA s : s \notin ChoiceSyms /\ SymType[s] # "unknown")

(* conf_write_autoconf begins by calculating everything again.                  *)
SplitConfig(w, auto) == CalcAllSymbols(Calc(ReadAuto(ClearAllValid(w), auto), ModulesSym))

AutoLines(w) ==
    LET Keep(s) == s \in w.write /\ ~(IsBool(s) /\ StringValue(w, s) = "n")
        kept    == SelectSeq(Named, Keep)
    IN  [i \in DOMAIN kept |-> WriteLine(w, kept[i])]

\* A macro for each of them: CONFIG_A, or CONFIG_A_MODULE for m.
HeaderLines(w) == AutoLines(w)

TristateLines(w) == SelectSeq(AutoLines(w), LAMBDA l : SymType[l.sym] = "tristate")

------------------------------------------------------------------------------
(* conf_set_all_new_symbols                                                     *)

NewValue(s, mode) == CASE mode = "yes" -> 2 [] mode = "mod" -> 1 [] OTHER -> 0

(* Symbols that have no value and were not looked at yet.                       *)
NewBools(w) == {s \in Range(SymOrder) : IsBool(s) /\ s \notin w.user \cup w.valid}

FillNew(w, mode) ==
    IF mode = "default" THEN w
    ELSE [w EXCEPT !.utri = [s \in Sym |-> IF s \in NewBools(w) THEN NewValue(s, mode) ELSE @[s]],
                   !.user = @ \cup NewBools(w)]

FillChoice(w, c) == IF c \notin ChoiceSyms \/ c \in w.user THEN w
                    ELSE SetAllChoiceValues(Calc(w, c), c)

RECURSIVE FillEach(_, _)
FillEach(w, ss) == IF ss = <<>> THEN w ELSE FillEach(FillChoice(w, Head(ss)), Tail(ss))

(* Whatever may belong to a choice that is new has it looked at first.          *)
Fresh(w) == [w EXCEPT !.spread = @ \cup {s \in Sym : \/ s \in ChoiceSyms \ w.user
                                                     \/ ChoiceOf(s) # NoSym}]

SetAllNew(w, mode) == FillEach(Fresh(ClearAllValid(FillNew(w, mode))), SymOrder)

(* randconfig: "pick" has the random numbers, the values of the new symbols and *)
(* which value of each choice. The caller repeats it while it says so.          *)
OneOf(c, pick) == tree.members[c][1 + (pick.choice % Len(tree.members[c]))]

(* What it returns replaces what the call would have returned so far.           *)
PickValue(w, c, pick) ==
    LET ms == Range(tree.members[c])
    IN  IF w.tri[c] # 2 THEN [w |-> w, again |-> FALSE]
        ELSE [w |-> [w EXCEPT !.utri    = [s \in Sym |-> IF s = OneOf(c, pick) THEN 2
                                                         ELSE IF s \in ms THEN 0 ELSE @[s]],
                              !.uchoice[c] = OneOf(c, pick),
                              !.user    = @ \cup ms \cup {c},
                              !.valid   = @ \ (ms \cup {c})],
              again |-> TRUE]

RandomizeChoice(r, c, pick) == IF c \notin ChoiceSyms \/ c \in r.w.user THEN r
                               ELSE PickValue(Calc(r.w, c), c, pick)

RECURSIVE RandomizeEach(_, _, _)
RandomizeEach(r, ss, pick) ==
    IF ss = <<>> THEN r
    ELSE RandomizeEach(RandomizeChoice(r, Head(ss), pick), Tail(ss), pick)

RandomValues(w, pick, new) ==
    ClearAllValid([w EXCEPT
        !.utri = [s \in Sym |-> IF s \notin new THEN @[s]
                                ELSE IF s \in pick.yes THEN 2
                                ELSE IF s \in pick.mod /\ SymType[s] = "tristate" THEN 1 ELSE 0],
        !.user = @ \cup (new \ ChoiceSyms)])

Randomize(w, pick) ==
    RandomizeEach([w |-> RandomValues(w, pick, NewBools(w)), again |-> NewBools(w) # {}],
                  SymOrder, pick)
=============================================================================
