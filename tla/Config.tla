-------------------------------- MODULE Config --------------------------------
(* The program conf (support/kconfig/conf.c) and, as far as they change the     *)
(* configuration, the menu programs beside it (mconf, nconf, gconf, qconf): one *)
(* run after the other on the same files, any of which may be killed.           *)
EXTENDS KConfData

CONSTANTS Files,        \* contents .config may have at first
          Seeds,        \* contents of the file of KCONFIG_ALLCONFIG
          Picks,        \* random numbers of randconfig
          Answers,      \* strings a user may type for an int
          Plans,        \* bound: the programs that are run, one after the other
          MaxEdits,     \* bound: changes in one run of a menu program
          MaxCrashes    \* bound

VARIABLES disk,         \* the files
          pc,           \* where the running program is
          mode,         \* input_mode; "menu" for the menu programs
          w,            \* the symbols in memory
          todo,         \* the calls of conf and check_conf to be made, the next one first
          root,         \* rootEntry
          again,        \* conf_cnt # 0
          edits,
          plan,         \* the programs still to be run
          crashes

memory == <<mode, w, todo, root, again, edits>>
vars == <<disk, pc, memory, plan, crashes>>

Loop == {"oldaskconfig", "oldconfig", "listnewconfig", "syncconfig"}
All  == {"allnoconfig", "allyesconfig", "allmodconfig", "alldefconfig"}
FillOf(m) == CASE m = "allnoconfig" -> "no" [] m = "allyesconfig" -> "yes"
               [] m = "allmodconfig" -> "mod" [] OTHER -> "default"

Init == /\ \E f \in Files :
             disk = [config |-> f, old |-> Missing, tmp |-> Missing, def |-> Missing,
                     auto |-> Missing, header |-> Missing, tristate |-> Missing,
                     stale   |-> TRUE,     \* auto.conf is older than .config
                     touched |-> {}]       \* since auto.conf was last replaced
        /\ pc = "idle"
        /\ mode = "none"
        /\ w = NewSymbols
        /\ todo = <<>>
        /\ root = 0
        /\ again = FALSE
        /\ edits = 0
        /\ plan \in Plans
        /\ crashes = 0

------------------------------------------------------------------------------
(* main: reading. *)

(* A program begins; the symbols are new.                                       *)
Run(m, at, symbols) ==
    /\ pc = "idle"
    /\ plan # <<>>
    /\ m = Head(plan)
    /\ plan' = Tail(plan)
    /\ pc' = at
    /\ mode' = m
    /\ w' = symbols
    /\ UNCHANGED <<disk, crashes>>

NoCalls == UNCHANGED <<todo, root, again, edits>>
Check(k) == [do |-> "check", node |-> k, new |-> FALSE]
Conf(k)  == [do |-> "conf", node |-> k, new |-> FALSE]
Calls(f(_), ks) == [i \in DOMAIN ks |-> f(ks[i])]

(* With a .config: read it, then ask. syncconfig needs one, and when            *)
(* KCONFIG_NOSILENTUPDATE is set it only starts when nothing is to be asked.    *)
StartLoop(m) ==
    /\ m \in Loop
    /\ m = "syncconfig" => disk.config # Missing
    /\ Run(m, "ask", Read(NewSymbols, disk.config))
    /\ root' = 0
    /\ todo' = <<IF m = "oldaskconfig" THEN Conf(0) ELSE Check(0)>>
    /\ again' = FALSE
    /\ UNCHANGED edits

NoSilentUpdate ==
    /\ pc = "ask"
    /\ mode = "syncconfig"
    /\ todo = <<Check(0)>> /\ ~again
    /\ w.changed
    /\ pc' = "exit"
    /\ UNCHANGED <<disk, memory, plan, crashes>>

StartPlain(m) ==
    /\ m \in {"olddefconfig", "savedefconfig"}
    /\ Run(m, IF m = "savedefconfig" THEN "savedef" ELSE "write", Read(NewSymbols, disk.config))
    /\ NoCalls

StartDefconfig ==
    /\ disk.def # Missing
    /\ Run("defconfig", "write", SetAllNew(Read(NewSymbols, disk.def), "default"))
    /\ NoCalls

(* Without one, but perhaps with values set beforehand.                         *)
StartAll(m) ==
    /\ m \in All
    /\ \E f \in Seeds :
         Run(m, "write", SetAllNew(IF f = Missing THEN NewSymbols
                                   ELSE Memory(ReadLines(NewSymbols, f)), FillOf(m)))
    /\ NoCalls

StartRandom == Run("randconfig", "random", NewSymbols) /\ NoCalls

(* conf_set_all_new_symbols(def_random), until it changes nothing.              *)
RandomRound ==
    /\ pc = "random"
    /\ \E p \in Picks :
         \E r \in {Randomize(w, p)} :
             /\ w' = r.w
             /\ pc' = IF r.again THEN "random" ELSE "write"
    /\ NoCalls
    /\ UNCHANGED <<disk, mode, plan, crashes>>

StartMenu == /\ Run("menu", "edit", Read(NewSymbols, disk.config))
             /\ edits' = 0
             /\ UNCHANGED <<todo, root, again>>

------------------------------------------------------------------------------
(* A menu program: what can be seen can be changed; at the end a changed        *)
(* configuration is saved or not.                                               *)

Shown(k) == MenuVisible(w, k).ok

EditWith(next) ==
    /\ pc = "edit"
    /\ edits < MaxEdits
    /\ edits' = edits + 1
    /\ w' = CalcAllSymbols(next)
    /\ UNCHANGED <<disk, pc, mode, todo, root, again, plan, crashes>>

Toggle(k) ==
    LET s == tree.node[k].sym
    IN  /\ s # NoSym /\ IsBool(s) /\ Shown(k)
        /\ IsChangable(w, s)
        /\ EditWith(ToggleTristate(w, s))

Type(k, str) ==
    LET s == tree.node[k].sym
    IN  /\ s # NoSym /\ ~IsBool(s) /\ Shown(k)
        /\ StringWithinRange(w, s, str)
        /\ EditWith(SetString(w, s, str))

LeaveMenu ==
    /\ pc = "edit"
    /\ \/ w.changed /\ pc' = "write"
       \/ pc' = "exit"
    /\ UNCHANGED <<disk, memory, plan, crashes>>

------------------------------------------------------------------------------
(* conf, check_conf and what they call, one call after the other. A call is     *)
(* replaced by those it makes.                                                  *)

Top  == Head(todo)
Node == tree.node[Top.node]
KidCalls(f(_)) == Calls(f, tree.kids[Top.node])
Become(calls)  == todo' = calls \o Tail(todo)

Ask(do) == pc = "ask" /\ todo # <<>> /\ Top.do = do
Quiet   == UNCHANGED <<disk, pc, mode, edits, plan, crashes>>

(* menu_get_parent_menu *)
RECURSIVE ParentMenu(_)
ParentMenu(k) == IF k = 0 \/ tree.node[k].kind = "menu" THEN k ELSE ParentMenu(tree.par[k])

IsNew(v, s) == s \notin v.user

(* check_conf: a new symbol that can be set makes the menu around it be asked.  *)
IsAsked(v, s) == /\ mode # "listnewconfig"
                 /\ s # NoSym
                 /\ IsNew(v, s)
                 /\ IsChangable(v, s) \/ (s \in ChoiceSyms /\ v.tri[s] = 2)

CheckConf ==
    /\ Ask("check")
    /\ \E r \in {MenuVisible(w, Top.node)} : \E asks \in {r.ok /\ IsAsked(r.w, Node.sym)} :
           /\ w' = r.w
           /\ again' = (again \/ asks)
           /\ root' = IF asks THEN ParentMenu(Top.node) ELSE root
           /\ Become((IF asks THEN <<Conf(ParentMenu(Top.node))>> ELSE <<>>)
                       \o (IF r.ok THEN KidCalls(Check) ELSE <<>>))
    /\ Quiet

(* conf: other menus are only checked for new symbols, unless all is asked.     *)
ConfCall ==
    /\ Ask("conf")
    /\ \E r \in {MenuVisible(w, Top.node)} :
       LET s == Node.sym
           this(do) == [do |-> do, node |-> Top.node, new |-> IsNew(r.w, s)]
       IN  /\ w' = r.w
           /\ Become(CASE ~r.ok -> <<>>
                       [] Node.kind = "menu" /\ mode # "oldaskconfig" /\ root # Top.node ->
                            <<Check(Top.node)>>
                       [] s = NoSym -> KidCalls(Conf)
                       [] s \in ChoiceSyms /\ IsChangable(r.w, s) -> <<this("mode")>>
                       [] s \in ChoiceSyms /\ ~IsChangable(r.w, s) -> <<this("values")>>
                       [] IsBool(s) -> <<this("sym")>> \o KidCalls(Conf)
                       [] OTHER -> <<this("string")>> \o KidCalls(Conf))
    /\ UNCHANGED <<root, again>>
    /\ Quiet

(* conf_askvalue: when the user is not asked.                                   *)
Settled(s) == ~IsChangable(w, s) \/ (mode # "oldaskconfig" /\ ~IsNew(w, s))

(* conf_sym, for a symbol and for the mode of a choice. An answer that cannot   *)
(* be is asked for again.                                                       *)
AskSym ==
    /\ Ask("sym") \/ Ask("mode")
    /\ LET s == Node.sym
           After == IF Top.do = "sym" THEN <<>> ELSE <<[Top EXCEPT !.do = "values"]>>
       IN  \/ /\ Settled(s)
              /\ w' = w
              /\ Become(After)
           \/ \E v \in 0 .. 2 :
              /\ ~Settled(s)
              /\ CanSetTristate(w, s, v)
              /\ w' = Calc(SetTristate(w, s, v), s)
              /\ Become(After)
    /\ UNCHANGED <<root, again>>
    /\ Quiet

(* conf_string: an empty answer means the value shown, which must be possible.  *)
AskString ==
    /\ Ask("string")
    /\ LET s == Node.sym
       IN  \/ Settled(s) /\ w' = w
           \/ \E str \in Answers \cup {w.str[s]} :
              /\ ~Settled(s)
              /\ StringWithinRange(w, s, str)
              /\ w' = SetString(w, s, str)
    /\ Become(<<>>)
    /\ UNCHANGED <<root, again>>
    /\ Quiet

(* conf_choice, after its mode is known: a choice that is m has its values      *)
(* asked one by one, one that is y which of them it is. A single value is not   *)
(* asked for, nor, outside oldaskconfig, one the choice has already.            *)
AskChoice ==
    /\ Ask("values")
    /\ LET s     == Node.sym
           Can(k) == tree.node[k].sym # NoSym /\ Shown(k)
           known == mode # "oldaskconfig" /\ ~Top.new
       IN  \/ w.tri[s] = 0 /\ w' = w /\ Become(<<>>)
           \/ w.tri[s] = 1 /\ w' = w /\ Become(KidCalls(Conf))
           \/ /\ w.tri[s] = 2
              /\ \E list \in {SelectSeq(tree.kids[Top.node], Can)} : \E k \in Range(list) :
                   /\ known /\ Len(list) # 1 => tree.node[k].sym = w.chosen[s]
                   /\ w' = IF CanSetTristate(w, tree.node[k].sym, 2)
                           THEN SetTristate(w, tree.node[k].sym, 2) ELSE w
                   /\ Become(Calls(Conf, tree.kids[k]))
    /\ UNCHANGED <<root, again>>
    /\ Quiet

(* All calls have returned: check again until nothing was asked.                *)
AskAgain ==
    /\ pc = "ask"
    /\ todo = <<>>
    /\ mode = "oldaskconfig" \/ again
    /\ mode' = IF mode = "oldaskconfig" THEN "oldconfig" ELSE mode
    /\ todo' = <<Check(0)>>
    /\ again' = FALSE
    /\ UNCHANGED <<disk, pc, w, root, edits, plan, crashes>>

MutAskedAll ==
    /\ pc = "ask" /\ todo = <<>> /\ mode # "oldaskconfig"
    /\ pc' = CASE mode = "listnewconfig" -> "exit"
               [] mode = "syncconfig" /\ ~w.changed -> "split"
               [] OTHER -> "write"
    /\ UNCHANGED <<disk, memory, plan, crashes>>
AskedAll ==
    /\ pc = "ask"
    /\ todo = <<>>
    /\ mode # "oldaskconfig" /\ ~again
    /\ pc' = CASE mode = "listnewconfig" -> "exit"
               [] mode = "syncconfig" /\ ~w.changed -> "split"
               [] OTHER -> "write"
    /\ UNCHANGED <<disk, memory, plan, crashes>>

------------------------------------------------------------------------------
(* Writing. *)

(* conf_write: a new file beside the old one, then two renames.                 *)
WriteTmp ==
    /\ pc = "write"
    /\ \E r \in {WriteConfig(w)} :
           /\ w' = r.w
           /\ disk' = [disk EXCEPT !.tmp = r.file]
    /\ pc' = "backup"
    /\ NoCalls
    /\ UNCHANGED <<mode, plan, crashes>>

KeepOld ==
    /\ pc = "backup"
    /\ disk' = IF disk.config = Missing THEN disk
               ELSE [disk EXCEPT !.old = disk.config, !.config = Missing]
    /\ pc' = "install"
    /\ UNCHANGED <<memory, plan, crashes>>

InstallNew ==
    /\ pc = "install"
    /\ disk' = [disk EXCEPT !.config = disk.tmp, !.tmp = Missing, !.stale = TRUE]
    /\ w' = [w EXCEPT !.changed = FALSE]
    /\ pc' = IF mode = "syncconfig" THEN "split" ELSE "saved"
    /\ NoCalls
    /\ UNCHANGED <<mode, plan, crashes>>

SaveDefconfig ==
    /\ pc = "savedef"
    /\ \E r \in {WriteDefconfig(w)} :
           /\ w' = r.w
           /\ disk' = [disk EXCEPT !.def = r.file]
    /\ pc' = "exit"
    /\ NoCalls
    /\ UNCHANGED <<mode, plan, crashes>>

(* conf_write_autoconf: the files of the symbols that changed are touched, one  *)
(* after the other ...                                                          *)
BeginSplit ==
    /\ pc = "split"
    /\ w' = SplitConfig(w, disk.auto)
    /\ pc' = "touch"
    /\ NoCalls
    /\ UNCHANGED <<disk, mode, plan, crashes>>

Untouched == SelectSeq(Named, LAMBDA s : Touches(w, s) /\ s \notin disk.touched)

TouchFile ==
    /\ pc = "touch"
    /\ Untouched # <<>>
    /\ disk' = [disk EXCEPT !.touched = @ \cup {Head(Untouched)}]
    /\ UNCHANGED <<pc, memory, plan, crashes>>

TouchedAll ==
    /\ pc = "touch"
    /\ Untouched = <<>>
    /\ pc' = "header"
    /\ UNCHANGED <<disk, memory, plan, crashes>>

(* ... and the three files are renamed into place, auto.conf last.              *)
Rename(from, to, d) ==
    /\ pc = from
    /\ pc' = to
    /\ disk' = d
    /\ UNCHANGED <<memory, plan, crashes>>

RenameHeader   == Rename("header", "tristate", [disk EXCEPT !.header = HeaderLines(w)])
RenameTristate == Rename("tristate", "auto", [disk EXCEPT !.tristate = TristateLines(w)])
RenameAuto     == Rename("auto", "saved", [disk EXCEPT !.auto = AutoLines(w), !.stale = FALSE,
                                                      !.touched = {}])

Exit ==
    /\ pc \in {"exit", "saved"}
    /\ pc' = "idle"
    /\ mode' = "none"
    /\ w' = NewSymbols
    /\ root' = 0
    /\ edits' = 0
    /\ todo' = <<>>
    /\ again' = FALSE
    /\ UNCHANGED <<disk, plan, crashes>>

(* Killed, at any moment.                                                       *)
Crash ==
    /\ pc \notin {"idle", "exit", "saved"}
    /\ crashes < MaxCrashes
    /\ crashes' = crashes + 1
    /\ pc' = "idle"
    /\ mode' = "none"
    /\ w' = NewSymbols
    /\ root' = 0
    /\ edits' = 0
    /\ todo' = <<>>
    /\ again' = FALSE
    /\ UNCHANGED <<disk, plan>>

------------------------------------------------------------------------------
Start == \/ \E m \in Loop : StartLoop(m)
         \/ \E m \in {"olddefconfig", "savedefconfig"} : StartPlain(m)
         \/ StartDefconfig
         \/ \E m \in All : StartAll(m)
         \/ StartRandom
         \/ StartMenu

Asking == \/ CheckConf \/ ConfCall \/ AskSym \/ AskString \/ AskChoice \/ AskAgain \/ AskedAll

Writing == \/ WriteTmp \/ KeepOld \/ InstallNew \/ SaveDefconfig \/ BeginSplit \/ TouchFile
           \/ TouchedAll \/ RenameHeader \/ RenameTristate \/ RenameAuto \/ Exit

Next == \/ Start \/ NoSilentUpdate \/ RandomRound \/ LeaveMenu \/ Asking \/ Writing \/ Crash
        \/ \E k \in DOMAIN tree.node : Toggle(k)
        \/ \E k \in DOMAIN tree.node, str \in Answers : Type(k, str)

Spec == Init /\ [][Next]_vars

------------------------------------------------------------------------------
(* What was saved reads back: writing it again gives the same file, and nothing *)
(* counts as changed. Two kinds of line are left out: a number that has no      *)
(* value is written but refused; and a value of a choice that cannot be seen is *)
(* written when it was seen before, because a choice that is not y takes the    *)
(* visibility of its values as it was last calculated. A saved defconfig gives  *)
(* the configuration it was made from.                                          *)
Odd(r, l) == \/ SymType[l.sym] = "int" /\ l.val = "" /\ r.vis[l.sym] # 0
             \/ ChoiceOf(l.sym) # NoSym /\ r.vis[l.sym] = 0

ConfigReadsBack ==
    With(Read(NewSymbols, disk.config), LAMBDA r :
         \/ \E i \in DOMAIN disk.config : Odd(r, disk.config[i])
         \/ ~r.changed /\ WriteConfig(r).file = disk.config)

DefconfigReadsBack ==
    WriteConfig(SetAllNew(Read(NewSymbols, disk.def), "default")).file
      = WriteConfig([w EXCEPT !.changed = FALSE]).file

SavedReadsBack == /\ pc = "saved" => ConfigReadsBack
                  /\ pc = "exit" /\ mode = "savedefconfig" => DefconfigReadsBack

(* What is cached is what would be calculated now, as long as no choice was set *)
(* to y while one of its values is new: sym_calc_choice then forgets that it was *)
(* set, and the next calculation gives its default again.                       *)
Forgotten(c) == c \in w.valid /\ w.tri[c] = 2 /\ w.utri[c] = 2 /\ c \notin w.user

CacheIsCurrent ==
    pc \in {"ask", "edit", "write", "split"} =>
       \/ \E c \in ChoiceSyms : Forgotten(c)
       \/ With(CalcAllSymbols(ClearAllValid(w)), LAMBDA now :
               \A s \in w.valid \ ConstSym : w.tri[s] = now.tri[s] /\ w.str[s] = now.str[s])

(* In a calculated configuration a choice that is y has exactly one value that  *)
(* is y, a visible one; one that is m none, one that is n none that is set. No  *)
(* other symbol is below what selects it.                                       *)
Values(c) == {s \in Sym : ChoiceOf(s) = c}
On(c)     == {s \in Values(c) : w.tri[s] = 2}

ChoiceHasOne ==
    pc \in {"edit", "backup", "touch", "exit"} =>
       /\ \A c \in ChoiceSyms : On(c) = IF w.tri[c] = 2 /\ \E s \in Values(c) : w.vis[s] # 0
                                        THEN {w.chosen[c]} ELSE {}
       /\ \A s \in Sym : IsBool(s) /\ ChoiceOf(s) = NoSym => w.rev[s] <= w.tri[s]

(* What "make" and the next run rely on. auto.conf is put in place last: by then *)
(* the other two files say the same, and every symbol it says something else    *)
(* about had its file touched. The configuration saved last stays in .config or *)
(* .config.old until the next one is in place.                                  *)
Said(file, s) == {file[i].val : i \in {j \in DOMAIN file : file[j].sym = s}}
Saved         == IF disk.config # Missing THEN disk.config ELSE disk.old

FilesInOrder ==
    [][/\ disk'.auto # disk.auto =>
            /\ disk'.header = disk'.auto
            /\ disk'.tristate = SelectSeq(disk'.auto, LAMBDA l : SymType[l.sym] = "tristate")
            /\ \A s \in Sym : Said(disk'.auto, s) # Said(disk.auto, s) => s \in disk.touched
       /\ Saved = Missing \/ Saved \in {disk'.config, disk'.old}]_vars

(* When conf stops asking, nothing the user can see and set is new.             *)
AskedEverything ==
    pc \in {"write", "split"} /\ mode \in {"oldconfig", "syncconfig"} =>
       \A k \in DOMAIN tree.node :
          LET s == tree.node[k].sym
          IN  s # NoSym /\ MenuVisible(w, k).ok /\ IsChangable(w, s) => s \in w.user
=============================================================================
