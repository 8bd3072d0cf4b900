-------------------------------- MODULE MConf --------------------------------
(* make menuconfig: support/kconfig/mconf.c over the dialogs of LxDialog. The   *)
(* functions that show dialogs call each other; "calls" is that stack, the      *)
(* innermost first. What is on the screen is "box": the dialog of the first     *)
(* call, or NoBox while it is being prepared.                                   *)
EXTENDS KCore, LxDialog, FiniteSetsExt

CONSTANTS FirstConfig,  \* contents of .config at first
          Names,        \* file names that may be typed; the first is .config
          Unwritable,   \* those that cannot be created
          Symbols(_),   \* what the symbols can be after so many changes
          MenuItems(_, _, _),   \* build_conf: symbols, menu, view -> [w, items, any]
          ChoiceItems(_, _),    \* the values of a choice that are listed: [w, items]
          JumpTargets(_, _),    \* get_relations_str: [w, targets]
          Answers,      \* strings that may be typed for a symbol
          Width,        \* [texts of input fields -> their length]
          HelpLines,    \* lines of a help text
          Results,      \* what searches find: [lines, prompts : the lines that show where]
          Sizes,        \* rows of the terminal
          MaxDepth,     \* bound: calls within each other, a jump apart
          MaxEdits,     \* bound: all but files only change among the first so many changes
          MaxChanges    \* bound: changes of symbols, of what is listed, of the size, and of
                        \* files, written or read

VARIABLES w,            \* the symbols in memory
          calls, box,
          rows,         \* rows of the terminal, as last seen
          showall,      \* show_all_options
          single,       \* single_menu_mode
          expanded,     \* menus shown in place in that mode
          seen,         \* child_count # 0: something was ever listed
          saving,       \* save_and_exit
          filename,
          files,        \* contents by name
          changes,
          resized,      \* history: the terminal changed its size while the dialog was shown
          ended,        \* how the program ended, or "no"
          slip          \* history: changes the program no longer knows of

dialogs == <<calls, box>>
view    == <<rows, showall, single, expanded, seen, resized>>
store   == <<saving, filename, files>>
vars    == <<w, dialogs, view, store, changes, ended, slip>>

(* The calls. *)
Conf(k, active) == [do |-> "conf", node |-> k, active |-> active, scroll |-> 0]
Choice(k, sym)  == [do |-> "choice", node |-> k, active |-> sym]
String(k)       == [do |-> "string", node |-> k]
Load            == [do |-> "load"]
Save            == [do |-> "save"]
Search          == [do |-> "search"]
Found(result)   == [do |-> "found", result |-> result, from |-> 0, targets |-> <<>>]
Text(lines, ended_, fixed) == [do |-> "text", lines |-> lines, ended |-> ended_, fixed |-> fixed]
SavedTo(name)   == [do |-> "written", name |-> name, lines |-> 1, ended |-> FALSE, fixed |-> 6]
Exit(by)        == [do |-> "exit", by |-> by]

Help       == Text(HelpLines, TRUE, 0)     \* show_helptext, show_help
SetToMod   == Text(2, FALSE, 6)            \* setmod_text
Refused    == Text(1, FALSE, 5)            \* invalid entry, no such file, no such directory

(* The places of the program: menus are what it goes into or jumps into.        *)
IsMenu(k)   == HasPrompt(k) /\ PromptType(k) = "menu"
Menus       == {k \in Nodes : k = 0 \/ IsMenu(k) \/ \E j \in Nodes : ParentOf(j) = k}
Submenus    == {k \in Nodes \ {0} : IsMenu(k) /\ SymOf(k) = NoSym}
ChoiceNodes == {k \in Nodes : SymOf(k) \in ChoiceSyms}
Places      == {k \in Nodes : ParentOf(k) \in Menus}
Views       == {o \in [showall : BOOLEAN, single : BOOLEAN, expanded : SUBSET Submenus] :
                  ~o.single => o.expanded = {}}

(* What can be in a file after so many changes.                                 *)
Contents(n) == {FirstConfig} \cup {ConfWrite(v).file : v \in UNION {Symbols(m) : m \in 0 .. n - 1}}

ASSUME DialogsAssumption ==
    /\ Sizes \subseteq Nat /\ MaxDepth \in Nat /\ MaxEdits \in Nat /\ MaxChanges \in Nat
    /\ HelpLines \in Nat \ {0}
    /\ \A r \in Results : r.lines \in Nat \ {0}
    /\ {"", "other"} \subseteq DOMAIN Width
    /\ Names \in Seq(DOMAIN Width) \ {<<>>}
    /\ \A text \in DOMAIN Width : Width[text] \in 0 .. MaxLen

(* What the proofs rely on of the symbols, for all that is done to them: what   *)
(* would be written stays, or the change is counted.                            *)
Kept(v, u) == u = v \/ u.changed \/ (~v.changed /\ Out(u) = Out(v))

Editing(next, v, u) == u = v \/ (u \in next /\ Kept(v, u))

SeenBy(v) == {MenuItems(v, k, o).w : k \in Menus, o \in Views}
             \cup {ChoiceItems(v, k).w : k \in ChoiceNodes}
             \cup {JumpTargets(v, r.prompts).w : r \in Results}
Looks(now, v) == \A u \in SeenBy(v) : u \in now /\ Kept(v, u)

Edits(next, v) ==
    /\ \A s \in Tristates : Editing(next, v, SymToggle(v, s))
    /\ \A s \in Tristates, t \in 0 .. 2 :
         SymCanBe(v, s, t) => Editing(next, v, SymSetTristate(v, s, t))
    /\ \A s \in Strings : \A str \in Answers \cup {v.str[s]} :
         SymStringCanBe(v, s, str) => Editing(next, v, SymSetString(v, s, str))

Writes(now, v) ==
    /\ Unchanged(v) \in now
    /\ LET r == ConfWrite(v) IN Kept(v, r.w) /\ Unchanged(r.w) \in now /\ Out(r.w) = r.file

Forgets(next, v)    == LET u == SymCalc(Unchanged(v), ModulesSym)
                       IN  u \in next /\ (v.changed \/ Out(u) = Out(v))
Reads(next, v, f)   == LET u == [ConfRead(v, f) EXCEPT !.changed = TRUE]
                       IN  u \in next /\ u.changed

(* ... and of what is listed: an entry is listed once, and its tag says what can *)
(* be done with it.                                                             *)
Prompted == {k \in Nodes : HasPrompt(k)}
Tags     == {"m", "t", "s", ":", "X", " "}
IsListing(items) ==
    /\ items \in Seq([node : Prompted, tag : Tags])
    /\ \A i, j \in DOMAIN items : items[i].node = items[j].node => i = j
    /\ \A i \in DOMAIN items :
         /\ items[i].tag = "m" => items[i].node \in Submenus
         /\ items[i].tag = "t" => SymOf(items[i].node) \in Tristates
         /\ items[i].tag = "s" => SymOf(items[i].node) \in Strings

IsYes(v, k) == v.tri[SymOf(k)] = 2
Lists(v) ==
    /\ \A k \in Menus, o \in Views : LET r == MenuItems(v, k, o)
                                    IN  r.any \in BOOLEAN /\ IsListing(r.items)
    /\ \A k \in ChoiceNodes :
         LET r == ChoiceItems(v, k)
         IN  /\ IsListing(r.items)
             /\ \A i \in DOMAIN r.items : SymOf(r.items[i].node) \in Tristates \cup {NoSym}
             /\ IsYes(v, k) => r.items # <<>> /\ IsYes(r.w, k)
    /\ \A r \in Results : JumpTargets(v, r.prompts).targets \in Seq([line : Nat, node : Places])

Keeps(now) ==
    \A v \in now : /\ v.changed \in BOOLEAN
                   /\ \A s \in Strings : v.str[s] \in DOMAIN Width
                   /\ \A k \in ChoiceNodes : v.chosen[SymOf(k)] \in {SymOf(j) : j \in Nodes}
                   /\ Looks(now, v) /\ Writes(now, v) /\ Lists(v)
Leads(n, now, next, contents) ==
    \A v \in now : /\ v \in next
                   /\ Forgets(next, v)
                   /\ \A f \in contents \ {Missing} : Reads(next, v, f)
                   /\ n < MaxEdits => Edits(next, v)

ASSUME SymbolsAssumption ==
    /\ LET v == ConfRead(NewSyms, FirstConfig)
       IN  v \in Symbols(0) /\ (v.changed \/ Out(v) = FirstConfig)
    /\ \A now \in {Symbols(n) : n \in 0 .. MaxChanges} : Keeps(now)
    /\ \A n \in 0 .. MaxChanges - 1 : Leads(n, Symbols(n), Symbols(n + 1), Contents(n))

Init == /\ w = NewSyms
        /\ calls = <<>>
        /\ box = NoBox
        /\ rows \in {r \in Sizes : r >= 19}
        /\ showall = FALSE
        /\ single \in BOOLEAN
        /\ expanded = {}
        /\ seen = FALSE
        /\ saving = FALSE
        /\ filename = Names[1]
        /\ files = [n \in Range(Names) |-> IF n = Names[1] THEN FirstConfig ELSE Missing]
        /\ changes = 0
        /\ resized = FALSE
        /\ ended = "no"
        /\ slip = FALSE

(* main: the configuration is read, and the main menu shown.                    *)
Start == /\ calls = <<>>
         /\ w' = ConfRead(w, FirstConfig)
         /\ calls' = <<Conf(0, NoNode)>>
         /\ UNCHANGED <<box, view, store, changes, ended, slip>>

------------------------------------------------------------------------------
(* Showing the dialog of the first call. *)

Top   == Head(calls)
Shown == [showall |-> showall, single |-> single, expanded |-> expanded]
Preparing(do) == calls # <<>> /\ ended = "no" /\ box = NoBox /\ Top.do = do

(* conf(&rootmenu) returns to main, which calls handle_exit.                    *)
Popped(cs) == IF Len(cs) = 1 THEN <<Exit("main")>> ELSE Tail(cs)

Quiet == /\ resized' = FALSE
         /\ UNCHANGED <<rows, showall, single, expanded, store, changes, ended, slip>>

ShowMenu ==
    /\ Preparing("conf")
    /\ \E r \in {MenuItems(w, Top.node, Shown)} :
         /\ w' = r.w
         /\ seen' = (seen \/ r.any)
         /\ IF seen'
            THEN box' = OpenMenu(r.items, Top.active, Top.scroll, rows) /\ calls' = calls
            ELSE box' = NoBox /\ calls' = Popped(calls)
    /\ Quiet

(* The cursor is on the value asked for, else on the one that is set.           *)
StartsAt(items, sym) ==
    LET At(ok(_)) == {i \in DOMAIN items : ok(items[i])}
        asked == At(LAMBDA i : SymOf(i.node) = sym)
        isset == At(LAMBDA i : i.tag = "X")
    IN  CASE asked # {} -> Min(asked) - 1
          [] asked = {} /\ isset # {} -> Min(isset) - 1
          [] OTHER -> 0

ShowChoice ==
    /\ Preparing("choice")
    /\ \E r \in {ChoiceItems(w, Top.node)} :
         /\ w' = r.w
         /\ box' = OpenList(r.items, StartsAt(r.items, Top.active), rows)
    /\ UNCHANGED <<calls, seen>>
    /\ Quiet

ShowBox(b) == box' = b /\ UNCHANGED <<w, calls, seen>> /\ Quiet
Field(text, height) == OpenInput(text, Width[text], height, rows)

ShowString == Preparing("string") /\ ShowBox(Field(w.str[SymOf(Top.node)], 10))
ShowName   == (Preparing("load") \/ Preparing("save")) /\ ShowBox(Field(filename, 11))
ShowSearch == Preparing("search") /\ ShowBox(Field("", 10))

ShowText ==
    /\ Preparing("text") \/ Preparing("written")
    /\ ShowBox(OpenText(Top.lines, Top.ended, Top.fixed, FALSE, 0, rows))

(* get_relations_str: from the lines that say where a prompt is, one can jump.  *)
ShowFound ==
    /\ Preparing("found")
    /\ \E r \in {JumpTargets(w, Top.result.prompts)} :
         /\ w' = r.w
         /\ calls' = <<[Top EXCEPT !.targets = r.targets]>> \o Tail(calls)
    /\ box' = OpenText(Top.result.lines, TRUE, 0, TRUE, Top.from, rows)
    /\ UNCHANGED seen
    /\ Quiet

(* handle_exit. Without changes it is done.                                     *)
ShowExit ==
    /\ Preparing("exit")
    /\ saving' = TRUE
    /\ resized' = FALSE
    /\ IF w.changed THEN box' = OpenYesNo(rows) /\ ended' = ended
                    ELSE box' = NoBox /\ ended' = "unchanged"
    /\ UNCHANGED <<w, calls, rows, showall, single, expanded, seen, filename, files, changes, slip>>

Showing == ShowMenu \/ ShowChoice \/ ShowString \/ ShowName \/ ShowSearch \/ ShowText
           \/ ShowFound \/ ShowExit

------------------------------------------------------------------------------
(* Keys that stay in the dialog. *)

Waiting(kind) == ended = "no" /\ box.kind = kind

Move ==
    /\ ended = "no"
    /\ \E b \in Moves(box) : b # box /\ box' = b
    /\ UNCHANGED <<w, calls, view, store, changes, ended, slip>>

Lay(b, r) == CASE b.kind = "menu"  -> LayMenu(b, Top.active, Top.scroll, r)
               [] b.kind = "list"  -> LayList(b, r)
               [] b.kind = "text"  -> ResizeText(b, r)
               [] b.kind = "input" -> LayInput(b, r)
               [] b.kind = "yesno" -> LayYesNo(b, r)

Counted(changed) == /\ changes' = changes + (IF changed THEN 1 ELSE 0)
                    /\ changes' <= MaxChanges
Early(changed)   == Counted(changed) /\ (changed => changes < MaxEdits)

(* The terminal has another size.                                               *)
Resize(r) ==
    /\ ended = "no"
    /\ box # NoBox /\ box # TooSmall
    /\ r # rows
    /\ resized' = TRUE
    /\ Early(TRUE)
    /\ rows' = r
    /\ box' = Lay(box, r)
    /\ ended' = IF DrawnBeyond(box') THEN "crashed" ELSE ended
    /\ UNCHANGED <<w, calls, showall, single, expanded, seen, store, slip>>

(* ^C: handle_exit runs in the signal handler, and the program ends with it.    *)
Interrupt ==
    /\ ended = "no"
    /\ box # NoBox
    /\ Top # Exit("signal")
    /\ calls' = <<Exit("signal")>>
    /\ box' = NoBox
    /\ slip' = (slip \/ Top.do = "written")
    /\ UNCHANGED <<w, view, store, changes, ended>>

------------------------------------------------------------------------------
(* Dialogs that end.                                                            *)

Finish == box' = NoBox
Unseen == UNCHANGED <<w, view, store, changes, ended, slip>>
Change(next) == /\ w' = next
                /\ Early(next # w)

(* conf returns. *)
LeaveMenu == Waiting("menu") /\ Finish /\ calls' = Popped(calls) /\ Unseen

(* conf goes on with the entry the cursor is on.                                *)
At     == IF box.items = <<>> THEN [node |-> NoNode, tag |-> "none"] ELSE Current(box)
AtSym  == IF At.node = NoNode THEN NoSym ELSE SymOf(At.node)
Here   == <<[Top EXCEPT !.active = At.node, !.scroll = box.scroll]>> \o Tail(calls)
Stay   == calls' = Here
Call(c) == Len(calls) < MaxDepth /\ calls' = <<c>> \o Here
Chose  == Waiting("menu") /\ Finish

IsMenuConfig == AtSym # NoSym /\ PromptType(At.node) = "menu"
Enter ==
    /\ Chose
    /\ box.button = 0
    /\ CASE At.tag = "m" /\ single -> Stay
         [] At.tag = "m" /\ ~single -> Call(Conf(At.node, NoNode))
         [] At.tag = "t" /\ AtSym \in ChoiceSyms /\ w.tri[AtSym] = 2 ->
              Call(Choice(At.node, w.chosen[AtSym]))
         [] At.tag = "t" /\ ~(AtSym \in ChoiceSyms /\ w.tri[AtSym] = 2) /\ IsMenuConfig ->
              Call(Conf(At.node, NoNode))
         [] At.tag = "s" -> Call(String(At.node))
         [] OTHER -> Stay
    /\ expanded' = IF At.tag # "m" \/ ~single THEN expanded
                   ELSE IF At.node \in expanded THEN expanded \ {At.node}
                   ELSE expanded \cup {At.node}
    /\ Early(expanded' # expanded)
    /\ UNCHANGED <<w, rows, showall, single, seen, resized, store, ended, slip>>

AskHelp == Chose /\ Call(Help) /\ Unseen
AskSave == Chose /\ box.button = 3 /\ Call(Save) /\ Unseen
AskLoad == Chose /\ box.button = 4 /\ Call(Load) /\ Unseen
AskSearch == Chose /\ Call(Search) /\ Unseen

ShowAll == /\ Chose
           /\ Stay
           /\ showall' = ~showall
           /\ Early(TRUE)
           /\ UNCHANGED <<w, rows, single, expanded, seen, resized, store, ended, slip>>

OnSymbol == Chose /\ At.tag = "t" /\ UNCHANGED <<view, store, ended, slip>>

(* y: if it cannot be y, m, with a message.                                     *)
SetYes == /\ OnSymbol
          /\ IF SymCanBe(w, AtSym, 2) THEN Change(SymSetTristate(w, AtSym, 2)) /\ Stay
             ELSE IF SymCanBe(w, AtSym, 1)
             THEN Change(SymSetTristate(w, AtSym, 1)) /\ Call(SetToMod)
             ELSE Change(w) /\ Stay

SetTo(v) == /\ OnSymbol
            /\ Change(IF SymCanBe(w, AtSym, v) THEN SymSetTristate(w, AtSym, v) ELSE w)
            /\ Stay

Space == OnSymbol /\ Change(SymToggle(w, AtSym)) /\ Stay
SpaceOnMenu == Chose /\ At.tag = "m" /\ Call(Conf(At.node, NoNode)) /\ Unseen

(* conf_choice *)
Return == calls' = Popped(calls)
LeaveChoice == Waiting("list") /\ Finish /\ Return /\ Unseen

SetChoice ==
    /\ Waiting("list")
    /\ Finish
    /\ LET s == IF box.items = <<>> THEN NoSym ELSE SymOf(Current(box).node)
       IN  /\ IF box.items # <<>> /\ s = NoSym THEN calls' = calls ELSE Return
           /\ Change(IF s # NoSym /\ SymCanBe(w, s, 2) THEN SymSetTristate(w, s, 2) ELSE w)
    /\ UNCHANGED <<view, store, ended, slip>>

HelpOnChoice ==
    /\ Waiting("list")
    /\ Finish
    /\ calls' = <<Help, IF box.items = <<>> THEN Top
                        ELSE [Top EXCEPT !.active = SymOf(Current(box).node)]>> \o Tail(calls)
    /\ Unseen

------------------------------------------------------------------------------
(* Fields *)

InField(do) == Waiting("input") /\ Top.do = do /\ Finish
Typed(texts) == IF box.text = "other" THEN texts ELSE {box.text}
Accept(do)   == InField(do) /\ box.button # 1
Become(c)    == calls' = <<c>> \o Tail(calls)
Tell(c)      == calls' = <<c>> \o calls

LeaveField == Waiting("input") /\ Finish /\ Return /\ Unseen
HelpOnField == Waiting("input") /\ Finish /\ Tell(Help) /\ Unseen

TakeString ==
    /\ Accept("string")
    /\ LET s == SymOf(Top.node)
       IN  \E str \in Typed(Answers) :
             IF SymStringCanBe(w, s, str) THEN Change(SymSetString(w, s, str)) /\ Return
                                             ELSE Change(w) /\ Tell(Refused)
    /\ UNCHANGED <<view, store, ended, slip>>

(* conf_load. A file that is read makes the configuration count as changed; one *)
(* that is not there makes it count as unchanged.                               *)
LoadFile(name) ==
    IF files[name] = Missing
    THEN /\ w' = SymCalc(Unchanged(w), ModulesSym)
         /\ slip' = (slip \/ w.changed)
         /\ filename' = filename
         /\ Tell(Refused)
    ELSE /\ w' = [ConfRead(w, files[name]) EXCEPT !.changed = TRUE]
         /\ slip' = FALSE
         /\ filename' = name
         /\ Return

TakeLoad ==
    /\ Accept("load")
    /\ \E name \in Typed(Range(Names)) : LoadFile(name)
    /\ Counted(TRUE)
    /\ UNCHANGED <<view, saving, files, ended>>

(* conf_save. What is written is only accounted for after the message about it, *)
(* which is not shown when the program has once begun to end.                   *)
MutAccounted(v, name) == w' = Unchanged(v) /\ slip' = FALSE /\ filename' = filename
Accounted(v, name) == w' = Unchanged(v) /\ filename' = name /\ slip' = FALSE

SaveFile(name) ==
    IF name \in Unwritable
    THEN Tell(Refused) /\ UNCHANGED <<w, files, filename, slip>>
    ELSE \E r \in {ConfWrite(w)} :
           /\ files' = [files EXCEPT ![name] = r.file]
           /\ IF saving THEN Return /\ Accounted(r.w, name)
              ELSE Become(SavedTo(name)) /\ w' = r.w /\ UNCHANGED <<filename, slip>>

TakeSave ==
    /\ Accept("save")
    /\ \E name \in Typed(Range(Names)) : SaveFile(name)
    /\ Counted(TRUE)
    /\ UNCHANGED <<view, saving, ended>>

(* Nothing typed: conf_load and conf_save return.                               *)
TakeNothing == (Accept("load") \/ Accept("save")) /\ box.text = "other" /\ Return /\ Unseen

TakeSearch == Accept("search") /\ (\E r \in Results : Become(Found(r))) /\ Unseen

------------------------------------------------------------------------------
(* Texts *)

LeaveText == /\ Waiting("text")
             /\ Top.do \in {"text", "found"}
             /\ Finish
             /\ Return
             /\ Unseen

LeaveWritten ==
    /\ Waiting("text")
    /\ Top.do = "written"
    /\ Finish
    /\ Return
    /\ Accounted(w, Top.name)
    /\ UNCHANGED <<view, saving, files, changes, ended>>

(* A jump to one of the places that can be seen; the results are shown again    *)
(* after it.                                                                    *)
Jump ==
    /\ Waiting("text")
    /\ Top.do = "found"
    /\ Len(calls) <= MaxDepth
    /\ \E t \in Range(Top.targets) :
         /\ box.top <= t.line /\ t.line < box.top + box.len
         /\ calls' = <<Conf(ParentOf(t.node), t.node), [Top EXCEPT !.from = LeftAt(box)]>>
                       \o Tail(calls)
    /\ Finish
    /\ Unseen

------------------------------------------------------------------------------
(* The end. *)

Yes == /\ Waiting("yesno")
       /\ \E r \in {ConfWrite(w)} :
            w' = Unchanged(r.w) /\ files' = [files EXCEPT ![filename] = r.file]
       /\ ended' = "saved"
       /\ Finish
       /\ UNCHANGED <<calls, view, saving, filename, changes, slip>>

No == /\ Waiting("yesno")
      /\ ended' = "discarded"
      /\ Finish
      /\ UNCHANGED <<w, calls, view, store, changes, slip>>

(* ESC goes back to the main menu, but not from the signal handler.             *)
Continue ==
    /\ Waiting("yesno")
    /\ Finish
    /\ IF Top = Exit("main") THEN calls' = <<Conf(0, NoNode)>> /\ ended' = ended
                             ELSE calls' = calls /\ ended' = "discarded"
    /\ UNCHANGED <<w, view, store, changes, slip>>

(* A dialog there is no room for. Fields for strings and for the names of files *)
(* are tried again, for ever: no key is read.                                   *)
GiveUp ==
    /\ Waiting("toosmall")
    /\ Top.do \notin {"string", "load", "save"}
    /\ Finish
    /\ ended' = IF Top.do = "exit" THEN "discarded" ELSE ended
    /\ calls' = IF Top.do = "exit" THEN calls ELSE Popped(calls)
    /\ IF Top.do = "written" THEN Accounted(w, Top.name) ELSE UNCHANGED <<w, filename, slip>>
    /\ UNCHANGED <<view, saving, files, changes>>

------------------------------------------------------------------------------
InMenu   == LeaveMenu \/ Enter \/ AskHelp \/ AskSave \/ AskLoad \/ AskSearch \/ ShowAll
            \/ SetYes \/ SetTo(0) \/ SetTo(1) \/ Space \/ SpaceOnMenu
InChoice == LeaveChoice \/ SetChoice \/ HelpOnChoice
InInput  == LeaveField \/ HelpOnField \/ TakeString \/ TakeLoad \/ TakeSave \/ TakeNothing
            \/ TakeSearch
InText   == LeaveText \/ LeaveWritten \/ Jump
InExit   == Yes \/ No \/ Continue

Next == \/ Start \/ Showing \/ Move \/ Interrupt \/ InMenu \/ InChoice \/ InInput \/ InText \/ InExit
        \/ GiveUp
        \/ \E r \in Sizes : Resize(r)

Spec == Init /\ [][Next]_vars

------------------------------------------------------------------------------
(* What is on the screen is what the keys act on: the entry, the lines, the     *)
(* character, and, until the terminal changes its size while the dialog is      *)
(* shown, the button. After that a menu may be drawn from another entry on than *)
(* the keys act on, the first button is highlighted whichever Enter presses, and*)
(* the cursor is in the field though a button may have the keys. Texts that do  *)
(* not end with a line are left out.                                            *)
ButtonsAreTrue == box.kind \in {"menu", "list", "input", "yesno"} => ButtonTrue(box)
EntriesAreTrue ==
    CASE box.kind = "menu"  -> MenuTrue(box) /\ (~resized => box.skew = 0)
      [] box.kind = "list"  -> MenuTrue(box)
      [] box.kind = "text"  -> box.ended /\ box.h > 0 => TextTrue(box)
      [] box.kind = "input" -> InputTrue(box)
      [] OTHER              -> TRUE
ScreenIsTrue == EntriesAreTrue /\ (~resized => ButtonsAreTrue)

(* After an entry was used its menu comes back with the cursor on it, if it is  *)
(* still listed.                                                                *)
CursorKept ==
    [][box = NoBox /\ box'.kind = "menu" =>
         \A i \in DOMAIN box'.items : box'.items[i].node = Top.active => Current(box') = box'.items[i]]_vars

(* When the program ends without saying that changes were not saved, the file   *)
(* has what would be written. Two slips are known: a name to load from that is  *)
(* not there makes it forget the changes, and ^C at the message that the file   *)
(* was written makes it write again, without the symbols.                       *)
EndsSaved ==
    ended \in {"saved", "unchanged"} =>
       slip \/ files[filename] = Out(w)

(* Whoever is told at the end that the configuration is done, and not that the  *)
(* changes were NOT saved, has them in the file.                                *)
ChangesTold ==
    ended \in {"saved", "unchanged"} =>
       files[filename] = Out(w)
=============================================================================
