------------------------------ MODULE MConfLists ------------------------------
(* What the dialogs of menuconfig list, support/kconfig/mconf.c and menu.c: the *)
(* functions that walk through the menu tree. Looking at an entry calculates    *)
(* symbols, so each returns the symbols as well. "view" is how menus are shown: *)
(* [showall, single, expanded].                                                 *)
EXTENDS KConfData

(* build_conf: what a menu lists. "r" has the symbols, the items and whether    *)
(* anything was listed in the menu "top".                                       *)

RECURSIVE BuildConf(_, _), BuildEach(_, _)

BuildEach(r, ks) == IF ks = <<>> THEN r ELSE BuildEach(BuildConf(r, Head(ks)), Tail(ks))

Item(r, k, tag) == [r EXCEPT !.items = Append(@, [node |-> k, tag |-> tag]),
                             !.any   = @ \/ k # r.top]
Within(r, k)    == BuildEach(r, tree.kids[k])

(* The value a choice has, when it is one that can be seen.                     *)
RECURSIVE SeeKids(_, _, _)
SeenKid(d, v, k, c) == [w |-> v.w, node |-> IF v.ok /\ SymOf(k) = c THEN k ELSE d.node]
SeeKids(d, ks, c) ==
    IF ks = <<>> THEN d
    ELSE SeeKids(SeenKid(d, MenuVisible(d.w, Head(ks)), Head(ks), c), Tail(ks), c)
DefMenu(v, k) == SeeKids([w |-> v, node |-> NoNode], tree.kids[k], v.chosen[SymOf(k)])

ListNoSym(r, k) ==
    IF k = r.top \/ ~HasPrompt(k) THEN Within(r, k)
    ELSE IF PromptType(k) # "menu" THEN Within(Item(r, k, ":"), k)
    ELSE IF r.view.single /\ k \in r.view.expanded THEN Within(Item(r, k, "m"), k)
    ELSE Item(r, k, "m")

ChoiceTag(v, s, node) == IF IsChangable(v, s) \/ node # NoNode THEN "t" ELSE ":"
BelowDef(r, node) == IF node = NoNode \/ tree.kids[node] = <<>> THEN r ELSE BuildConf(r, node)
ListValue(r, k, node) ==
    IF r.w.tri[SymOf(k)] = 2 THEN BelowDef(r, node) ELSE Within(r, k)
ListDef(r, k, d) ==
    ListValue([Item(r, k, ChoiceTag(d.w, SymOf(k), d.node)) EXCEPT !.w = d.w, !.any = TRUE],
              k, d.node)
ListChoice(r, k) == ListDef(r, k, DefMenu(r.w, k))

SymTag(v, s) == IF ChoiceOf(s) # NoSym /\ v.tri[s] = 2 THEN ":"
                ELSE IF IsBool(s) THEN "t" ELSE "s"
ListSymbol(r, k) ==
    IF k = r.top THEN Within(Item(r, k, ":"), k)
    ELSE IF PromptType(k) = "menu" /\ SymTag(r.w, SymOf(k)) # "s"
    THEN Item(r, k, SymTag(r.w, SymOf(k)))
    ELSE Within(Item(r, k, SymTag(r.w, SymOf(k))), k)

Listed(r, k) == LET s == SymOf(k)
                IN  IF s = NoSym THEN ListNoSym(r, k)
                    ELSE IF s \in ChoiceSyms THEN ListChoice(r, k) ELSE ListSymbol(r, k)

IfListed(r, v, k) ==
    IF IF r.view.showall THEN HasPrompt(k) ELSE v.ok THEN Listed([r EXCEPT !.w = v.w], k)
                                              ELSE [r EXCEPT !.w = v.w]
BuildConf(r, k) == IfListed(r, MenuVisible(r.w, k), k)

Built(v, k, view) ==
    BuildConf([w |-> v, items |-> <<>>, any |-> FALSE, top |-> k, view |-> view], k)

(* The values of a choice that are listed.                                      *)
RECURSIVE ListValues(_, _, _)
ChoiceTagOf(k, chosen) == IF SymOf(k) = NoSym THEN ":"
                          ELSE IF SymOf(k) = chosen THEN "X" ELSE " "
ValueItem(r, v, k, chosen) ==
    [w |-> v.w, items |-> IF v.ok THEN Append(r.items, [node |-> k, tag |-> ChoiceTagOf(k, chosen)])
                                  ELSE r.items]
ListValues(r, ks, chosen) ==
    IF ks = <<>> THEN r
    ELSE ListValues(ValueItem(r, MenuVisible(r.w, Head(ks)), Head(ks), chosen), Tail(ks), chosen)

ListedValues(v, k) ==
    ListValues([w |-> v, items |-> <<>>], tree.kids[k], v.chosen[SymOf(k)])

(* get_relations_str. From the line that says where a prompt is, one can jump   *)
(* to it, or, when it is not visible, to the nearest entry around it that is;   *)
(* not when none is, as for the entries of the main menu.                       *)
RECURSIVE Around(_, _), Locate(_, _), Locations(_, _)
Around(k, n) == IF n = 0 \/ ParentOf(k) = 0 THEN <<>>
                ELSE <<ParentOf(k)>> \o Around(ParentOf(k), n - 1)
Located(d, v, k) == [w |-> v.w, node |-> IF v.ok /\ d.node = NoNode THEN k ELSE d.node]
Locate(d, ks) == IF ks = <<>> THEN d ELSE Locate(Located(d, MenuVisible(d.w, Head(ks)), Head(ks)), Tail(ks))
JumpTo(r, d, v, p) ==
    [w |-> v.w, targets |-> Append(r.targets, [line |-> p.line, node |-> IF v.ok THEN p.node ELSE d.node])]
Location(r, d, p) == IF d.node = NoNode THEN [r EXCEPT !.w = d.w]
                     ELSE JumpTo(r, d, MenuVisible(d.w, p.node), p)
Locations(r, ps) ==
    IF ps = <<>> THEN r
    ELSE Locations(Location(r, Locate([w |-> r.w, node |-> NoNode], Around(Head(ps).node, 8)), Head(ps)),
                   Tail(ps))

Jumps(v, ps) == Locations([w |-> v, targets |-> <<>>], ps)
=============================================================================
