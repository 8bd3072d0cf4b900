----------------------------- MODULE MConfProofs -----------------------------
(***************************************************************************)
(* make menuconfig, for every menu tree and every behaviour of the symbols *)
(* that MConf assumes: what is on the screen is what the keys act on, a    *)
(* menu comes back with the cursor on the entry that was used, and who is  *)
(* not told otherwise has the changes in the file, but for two slips.      *)
(***************************************************************************)
EXTENDS MConf, LxDialogProofs, SequenceTheorems, WellFoundedInduction

(* The calls that can be on the stack. Only texts are shown over a choice, and *)
(* the message that a file was written is the innermost call.                  *)
Syms         == {SymOf(k) : k \in Nodes}
ConfCall     == [do : {"conf"}, node : Menus, active : Nodes \cup {NoNode}, scroll : Nat]
ChoiceCall   == [do : {"choice"}, node : ChoiceNodes, active : Syms]
StringCall   == [do : {"string"}, node : {k \in Nodes : SymOf(k) \in Strings}]
NameCall     == [do : {"load", "save", "search"}]
FoundCall    == [do : {"found"}, result : Results, from : Nat,
                 targets : Seq([line : Nat, node : Places])]
HelpCall     == [do : {"text"}, lines : Nat \ {0}, ended : {TRUE}, fixed : {0}]
MessageCall  == [do : {"text"}, lines : Nat \ {0}, ended : {FALSE}, fixed : {5, 6}]
WrittenCall  == [do : {"written"}, name : Range(Names), lines : {1}, ended : {FALSE}, fixed : {6}]
ExitCall     == [do : {"exit"}, by : {"main", "signal"}]

Resting == ConfCall \cup StringCall \cup NameCall \cup FoundCall
Called  == Resting \cup ChoiceCall \cup HelpCall \cup MessageCall \cup WrittenCall \cup ExitCall

(* A choice that is shown is y, and its values are listed.                     *)
AtRest(cs, v) ==
    /\ cs \in Seq(Called) /\ cs # <<>> /\ Tail(cs) \in Seq(Resting)
    /\ Head(cs).do = "choice" => IsYes(v, Head(cs).node)
Stacked(cs, v) ==
    \/ AtRest(cs, v)
    \/ /\ cs \in Seq(Called) /\ cs # <<>> /\ Head(cs).do = "text"
       /\ AtRest(Tail(cs), v) /\ Head(Tail(cs)).do = "choice"

(* What is on the screen belongs to the innermost call.                        *)
Entries == [node : Prompted, tag : Tags]
Texts   == DOMAIN Width
Values(items) == \A i \in DOMAIN items : SymOf(items[i].node) \in Tristates \cup {NoSym}

MenuShown(b)  == /\ b \in MenuBox(Entries) /\ IsListing(b.items) /\ MenuTrue(b)
                 /\ b.items = <<>> => b.choice = 0
ListShown(b)  == /\ b \in ListBox(Entries) /\ IsListing(b.items) /\ Values(b.items)
                 /\ MenuTrue(b) /\ ListFits(b) /\ b.items # <<>>
FieldShown(b) == b \in InputBox(Texts) /\ InputTrue(b)
TextShown(b)  == b \in TextBox /\ (b.ended => TextSound(b) /\ b.fixed = 0)
YesNoShown(b) == b = [kind |-> "yesno", button |-> b.button, drawn |-> b.drawn]

(* What a change of size may disturb.                                           *)
Fresh(b) == /\ b.kind = "menu" => b.skew = 0
            /\ b.kind \in {"menu", "list", "input", "yesno"} => ButtonTrue(b)

Shows(b, c, v, name) ==
    \/ b = TooSmall
    \/ c.do = "conf"   /\ MenuShown(b)
    \/ c.do = "choice" /\ ListShown(b)
    \/ c.do = "string" /\ FieldShown(b) /\ b.text \in {v.str[SymOf(c.node)], "other"}
    \/ c.do \in {"load", "save"} /\ FieldShown(b) /\ b.text \in {name, "other"}
    \/ c.do = "search" /\ FieldShown(b)
    \/ c.do \in {"text", "written", "found"} /\ TextShown(b)
    \/ c.do = "exit" /\ YesNoShown(b)

(* Which symbols are in memory: between a file that was written and the message *)
(* that it was, the changes still count.                                        *)
InMemory(c, v, n, s) ==
    \/ v \in Symbols(n)
    \/ c.do = "written" /\ Unchanged(v) \in Symbols(n)
    \/ c = Exit("signal") /\ s

Written(fs, n)       == \A name \in Range(Names) : fs[name] \in Contents(n) \cup {Missing}
Told(fs, name, v, s) == s \/ v.changed \/ fs[name] = Out(v)

Idle == /\ calls = <<>> /\ box = NoBox /\ w = NewSyms /\ changes = 0 /\ ended = "no"
        /\ files[filename] = FirstConfig

TypesInv == /\ rows \in Sizes /\ changes \in 0 .. MaxChanges
            /\ showall \in BOOLEAN /\ single \in BOOLEAN /\ seen \in BOOLEAN
            /\ expanded \in SUBSET Submenus /\ (~single => expanded = {})
            /\ resized \in BOOLEAN /\ slip \in BOOLEAN
            /\ filename \in Range(Names) /\ DOMAIN files = Range(Names)

CallsInv   == Idle \/ Stacked(calls, w)
BoxInv     == \/ box = NoBox
              \/ /\ calls # <<>> /\ Shows(box, Top, w, filename)
                 /\ ~resized => Fresh(box)
SymbolsInv == calls # <<>> /\ ended = "no" => InMemory(Top, w, changes, slip)
FilesInv   == /\ ended = "no" => Written(files, changes)
              /\ calls # <<>> => Told(files, filename, w, slip)
              /\ calls # <<>> /\ Top.do = "written" => files[Top.name] = Out(w)

IInv == TypesInv /\ CallsInv /\ BoxInv /\ SymbolsInv /\ FilesInv /\ EndsSaved

-----------------------------------------------------------------------------
(***************************************************************************)
(* The stack of calls                                                      *)
(***************************************************************************)

LEMMA Push ==
    ASSUME NEW S, NEW c \in S, NEW s \in Seq(S)
    PROVE  /\ <<c>> \o s \in Seq(S) /\ <<c>> \o s # <<>>
           /\ Head(<<c>> \o s) = c /\ Tail(<<c>> \o s) = s
           /\ Len(<<c>> \o s) = Len(s) + 1
OBVIOUS

LEMMA Pop ==
    ASSUME NEW S, NEW s \in Seq(S), s # <<>>
    PROVE  /\ Head(s) \in S /\ Tail(s) \in Seq(S) /\ Len(s) \in Nat
           /\ Len(s) = 1 <=> Tail(s) = <<>>
<1>1. Head(s) \in S /\ Tail(s) \in Seq(S) /\ Len(s) \in Nat /\ Len(Tail(s)) = Len(s) - 1
  OBVIOUS
<1>2. \A r \in Seq(S) : Len(r) = 0 <=> r = <<>>
  OBVIOUS
<1> DEFINE t == Tail(s)
           n == Len(s)
<1>3. t \in Seq(S) /\ n \in Nat /\ Len(t) = n - 1 /\ (Len(t) = 0 <=> t = <<>>)
  BY <1>1, <1>2
<1>4. n = 1 <=> t = <<>>
  <2> HIDE DEF n, t
  <2> QED BY <1>3
<1> QED BY <1>1, <1>4

LEMMA Widen ==
    ASSUME NEW S, NEW T, S \subseteq T, NEW s \in Seq(S)
    PROVE  s \in Seq(T)
OBVIOUS

LEMMA PushTwo ==
    ASSUME NEW S, NEW c \in S, NEW d \in S, NEW s \in Seq(S)
    PROVE  <<d>> \o s \in Seq(S) /\ <<c, d>> \o s = <<c>> \o (<<d>> \o s)
<1> DEFINE t == <<d>> \o s
           p == <<c, d>> \o s
           q == <<c>> \o t
<1>1. t \in Seq(S) /\ Len(t) = Len(s) + 1 /\ t[1] = d /\ \A i \in 1 .. Len(s) : t[i + 1] = s[i]
  OBVIOUS
<1>2. /\ p \in Seq(S) /\ Len(p) = Len(s) + 2 /\ p[1] = c /\ p[2] = d
      /\ \A i \in 1 .. Len(s) : p[i + 2] = s[i]
  OBVIOUS
<1> HIDE DEF t
<1>3. q \in Seq(S) /\ Len(q) = Len(t) + 1 /\ q[1] = c /\ \A i \in 1 .. Len(t) : q[i + 1] = t[i]
  BY <1>1
<1> HIDE DEF p, q
<1>4. Len(p) = Len(q) /\ Len(s) \in Nat
  BY <1>1, <1>2, <1>3
<1>5. ASSUME NEW i \in 1 .. Len(p) PROVE p[i] = q[i]
  <2>1. CASE i = 1
    BY <1>2, <1>3, <2>1
  <2>2. CASE i = 2
    BY <1>1, <1>2, <1>3, <1>4, <2>2
  <2>3. CASE i > 2
    <3> DEFINE j == i - 2
    <3>1. j \in 1 .. Len(s) /\ i = j + 2 /\ j + 1 \in 1 .. Len(t) /\ i = (j + 1) + 1
      BY <1>1, <1>2, <1>4, <2>3
    <3> HIDE DEF j
    <3> QED BY <1>1, <1>2, <1>3, <3>1
  <2> QED BY <1>2, <1>4, <2>1, <2>2, <2>3
<1>6. p = q
  BY <1>2, <1>3, <1>4, <1>5, SeqEqual
<1> QED BY <1>1, <1>6 DEF p, q, t

LEMMA OfARange == ASSUME NEW S, NEW s \in Seq(S), NEW t \in Range(s) PROVE t \in S
BY DEF Range

LEMMA OfNames == Names[1] \in Range(Names) /\ Range(Names) \subseteq DOMAIN Width
<1>1. Names \in Seq(DOMAIN Width) /\ Names # <<>>
  BY DialogsAssumption
<1>2. Range(Names) \subseteq DOMAIN Width
  BY <1>1, OfARange
<1>3. 1 \in DOMAIN Names
  BY <1>1
<1> QED BY <1>2, <1>3 DEF Range

LEMMA RestingIsCalled == Resting \subseteq Called
BY DEF Called

LEMMA OfACall ==
    ASSUME NEW c \in Called
    PROVE  /\ c.do \in {"conf", "choice", "string", "load", "save", "search", "found", "text",
                        "written", "exit"}
           /\ c.do = "conf" => c \in ConfCall
           /\ c.do = "choice" => c \in ChoiceCall
           /\ c.do = "string" => c \in StringCall
           /\ c.do = "found" => c \in FoundCall
           /\ c.do = "text" => c \in HelpCall \cup MessageCall
           /\ c.do = "written" => c \in WrittenCall
           /\ c.do = "exit" => c \in ExitCall
           /\ c.do \in {"conf", "string", "load", "save", "search", "found"} <=> c \in Resting
<1>1. /\ c \in ConfCall => c.do = "conf"
      /\ c \in ChoiceCall => c.do = "choice"
      /\ c \in StringCall => c.do = "string"
      /\ c \in NameCall => c.do \in {"load", "save", "search"}
      /\ c \in FoundCall => c.do = "found"
  BY DEF ConfCall, ChoiceCall, StringCall, NameCall, FoundCall
<1>2. /\ c \in HelpCall \/ c \in MessageCall => c.do = "text"
      /\ c \in WrittenCall => c.do = "written"
      /\ c \in ExitCall => c.do = "exit"
  BY DEF HelpCall, MessageCall, WrittenCall, ExitCall
<1>3. \/ c \in ConfCall \/ c \in ChoiceCall \/ c \in StringCall \/ c \in NameCall
      \/ c \in FoundCall \/ c \in HelpCall \/ c \in MessageCall \/ c \in WrittenCall
      \/ c \in ExitCall
  BY DEF Called, Resting
<1>4. c \in Resting <=> c \in ConfCall \/ c \in StringCall \/ c \in NameCall \/ c \in FoundCall
  BY DEF Resting
<1> DEFINE d == c.do
<1>5. d = c.do
  OBVIOUS
<1> HIDE DEF d
<1>6. CASE c \in Resting
  <2>1. d \in {"conf", "string", "load", "save", "search", "found"}
    BY <1>1, <1>4, <1>5, <1>6
  <2>2. (d = "conf" => c \in ConfCall) /\ (d = "string" => c \in StringCall)
        /\ (d = "found" => c \in FoundCall)
    BY <1>1, <1>4, <1>5, <1>6
  <2> QED BY <1>5, <1>6, <2>1, <2>2
<1>7. CASE c \notin Resting
  <2>1. \/ c \in ChoiceCall /\ d = "choice"
        \/ (c \in HelpCall \/ c \in MessageCall) /\ d = "text"
        \/ c \in WrittenCall /\ d = "written"
        \/ c \in ExitCall /\ d = "exit"
    BY <1>1, <1>2, <1>3, <1>4, <1>5, <1>7
  <2> QED BY <1>5, <1>7, <2>1
<1> QED BY <1>6, <1>7

LEMMA OverRest ==
    ASSUME NEW c \in Called, NEW s \in Seq(Resting), NEW v, c.do = "choice" => IsYes(v, c.node)
    PROVE  /\ <<c>> \o s \in Seq(Called) /\ <<c>> \o s # <<>> /\ Head(<<c>> \o s) = c
           /\ Stacked(<<c>> \o s, v)
<1>1. s \in Seq(Called)
  BY RestingIsCalled, Widen
<1>2. /\ <<c>> \o s \in Seq(Called) /\ <<c>> \o s # <<>> /\ Head(<<c>> \o s) = c
      /\ Tail(<<c>> \o s) = s
  BY <1>1, Push
<1> QED BY <1>2 DEF Stacked, AtRest

LEMMA OfAStack ==
    ASSUME NEW cs, NEW v, Stacked(cs, v)
    PROVE  /\ cs \in Seq(Called) /\ cs # <<>> /\ Head(cs) \in Called
           /\ Head(cs).do # "text" => Tail(cs) \in Seq(Resting)
           /\ Head(cs).do = "choice" => IsYes(v, Head(cs).node)
<1>1. cs \in Seq(Called) /\ cs # <<>>
  BY DEF Stacked, AtRest
<1> QED BY <1>1, Pop DEF Stacked, AtRest

LEMMA PoppedIsStacked ==
    ASSUME NEW cs, NEW v, Stacked(cs, v)
    PROVE  Stacked(Popped(cs), v) /\ Head(Popped(cs)).do \notin {"text", "written"}
<1>1. cs \in Seq(Called) /\ cs # <<>> /\ Len(cs) \in Nat /\ (Len(cs) = 1 <=> Tail(cs) = <<>>)
  BY OfAStack, Pop
<1>2. CASE Len(cs) = 1
  <2>1. Exit("main") \in Called /\ Exit("main").do = "exit"
    BY DEF Exit, Called, ExitCall
  <2>2. << >> \in Seq(Resting)
    OBVIOUS
  <2>3. <<Exit("main")>> \o << >> = <<Exit("main")>>
    OBVIOUS
  <2>4. Stacked(<<Exit("main")>>, v) /\ Head(<<Exit("main")>>) = Exit("main")
    BY <2>1, <2>2, <2>3, OverRest
  <2> QED BY <1>2, <2>1, <2>4 DEF Popped
<1>3. CASE Len(cs) # 1
  <2>1. Popped(cs) = Tail(cs) /\ Tail(cs) # <<>>
    BY <1>1, <1>3 DEF Popped
  <2>2. CASE AtRest(cs, v)
    <3>1. Tail(cs) \in Seq(Resting) /\ Head(Tail(cs)) \in Resting /\ Tail(Tail(cs)) \in Seq(Resting)
      BY <2>1, <2>2, Pop DEF AtRest
    <3>2. Tail(cs) \in Seq(Called) /\ Head(Tail(cs)) \in Called
      BY <3>1, RestingIsCalled, Widen
    <3>3. Head(Tail(cs)).do \in {"conf", "string", "load", "save", "search", "found"}
      BY <3>1, <3>2, OfACall
    <3> QED BY <2>1, <3>1, <3>2, <3>3 DEF Stacked, AtRest
  <2>3. CASE ~AtRest(cs, v)
    <3>1. AtRest(Tail(cs), v) /\ Head(Tail(cs)).do = "choice"
      BY <2>3 DEF Stacked
    <3> QED BY <2>1, <3>1 DEF Stacked
  <2> QED BY <2>2, <2>3
<1> QED BY <1>2, <1>3

-----------------------------------------------------------------------------
(***************************************************************************)
(* The symbols                                                             *)
(***************************************************************************)

LEMMA StillUnchanged == ASSUME NEW v PROVE Out(Unchanged(v)) = Out(v)
<1>1. Unchanged(Unchanged(v)) = Unchanged(v)
  BY DEF Unchanged
<1> QED BY <1>1 DEF Out

LEMMA BoundsAreNat == Sizes \subseteq Nat /\ MaxChanges \in Nat /\ MaxEdits \in Nat
BY DialogsAssumption

\* What the assumption says of symbols that can be in memory.
LEMMA SymbolsNow ==
    ASSUME NEW n \in 0 .. MaxChanges, NEW v \in Symbols(n)
    PROVE  /\ v.changed \in BOOLEAN
           /\ \A s \in Strings : v.str[s] \in Texts
           /\ \A k \in ChoiceNodes : v.chosen[SymOf(k)] \in Syms
           /\ Looks(Symbols(n), v) /\ Writes(Symbols(n), v) /\ Lists(v)
<1>1. Keeps(Symbols(n))
  BY SymbolsAssumption
<1> QED BY <1>1 DEF Keeps, Texts, Syms

LEMMA SymbolsNext ==
    ASSUME NEW n \in 0 .. MaxChanges, NEW v \in Symbols(n), n < MaxChanges
    PROVE  /\ v \in Symbols(n + 1)
           /\ Forgets(Symbols(n + 1), v)
           /\ \A f \in Contents(n) \ {Missing} : Reads(Symbols(n + 1), v, f)
           /\ n < MaxEdits => Edits(Symbols(n + 1), v)
<1>1. n \in 0 .. MaxChanges - 1
  BY BoundsAreNat
<1>2. Leads(n, Symbols(n), Symbols(n + 1), Contents(n))
  BY <1>1, SymbolsAssumption, Zenon
<1> QED BY <1>2 DEF Leads

LEMMA FirstSymbols ==
    LET v == ConfRead(NewSyms, FirstConfig)
    IN  v \in Symbols(0) /\ (v.changed \/ Out(v) = FirstConfig)
BY SymbolsAssumption

LEMMA ContentsGrow ==
    ASSUME NEW n \in Nat
    PROVE  /\ Contents(n) \subseteq Contents(n + 1) /\ FirstConfig \in Contents(n)
           /\ \A v \in Symbols(n) : ConfWrite(v).file \in Contents(n + 1)
<1>1. 0 .. n - 1 \subseteq 0 .. (n + 1) - 1 /\ n \in 0 .. (n + 1) - 1
  OBVIOUS
<1>2. /\ UNION {Symbols(m) : m \in 0 .. n - 1} \subseteq UNION {Symbols(m) : m \in 0 .. (n + 1) - 1}
      /\ Symbols(n) \subseteq UNION {Symbols(m) : m \in 0 .. (n + 1) - 1}
  BY <1>1
<1> QED BY <1>2 DEF Contents

\* What is told of the symbols stays true as they are looked at and changed.
LEMMA ToldStays ==
    ASSUME NEW fs, NEW name, NEW v, NEW s, Told(fs, name, v, s), NEW u, Kept(v, u)
    PROVE  Told(fs, name, u, s)
BY DEF Told, Kept

LEMMA LookedAt ==
    ASSUME NEW n \in 0 .. MaxChanges, NEW v \in Symbols(n)
    PROVE  /\ \A k \in Menus, o \in Views :
                MenuItems(v, k, o).w \in Symbols(n) /\ Kept(v, MenuItems(v, k, o).w)
           /\ \A k \in ChoiceNodes :
                ChoiceItems(v, k).w \in Symbols(n) /\ Kept(v, ChoiceItems(v, k).w)
           /\ \A r \in Results :
                JumpTargets(v, r.prompts).w \in Symbols(n) /\ Kept(v, JumpTargets(v, r.prompts).w)
<1>1. Looks(Symbols(n), v)
  BY SymbolsNow
<1>2. /\ \A k \in Menus, o \in Views : MenuItems(v, k, o).w \in SeenBy(v)
      /\ \A k \in ChoiceNodes : ChoiceItems(v, k).w \in SeenBy(v)
      /\ \A r \in Results : JumpTargets(v, r.prompts).w \in SeenBy(v)
  BY DEF SeenBy
<1> QED BY <1>1, <1>2 DEF Looks

-----------------------------------------------------------------------------
(***************************************************************************)
(* The dialogs                                                             *)
(***************************************************************************)

LEMMA Kinds ==
    ASSUME NEW b
    PROVE  /\ MenuShown(b) => b.kind = "menu"
           /\ ListShown(b) => b.kind = "list"
           /\ FieldShown(b) => b.kind = "input"
           /\ TextShown(b) => b.kind = "text"
           /\ YesNoShown(b) => b.kind = "yesno"
           /\ b = TooSmall => b.kind = "toosmall"
           /\ b = NoBox => b.kind = "none"
<1>1. MenuShown(b) => b.kind = "menu"
  BY DEF MenuShown, MenuBox
<1>2. ListShown(b) => b.kind = "list"
  BY DEF ListShown, ListBox
<1>3. FieldShown(b) => b.kind = "input"
  BY DEF FieldShown, InputBox
<1>4. TextShown(b) => b.kind = "text"
  BY DEF TextShown, TextBox
<1>5. YesNoShown(b) => b.kind = "yesno"
  <2>1. ASSUME NEW x, NEW y, b = [kind |-> "yesno", button |-> x, drawn |-> y]
        PROVE  b.kind = "yesno"
    BY <2>1
  <2> QED BY <2>1 DEF YesNoShown
<1>6. (b = TooSmall => b.kind = "toosmall") /\ (b = NoBox => b.kind = "none")
  BY DEF TooSmall, NoBox
<1> QED BY <1>1, <1>2, <1>3, <1>4, <1>5, <1>6

\* The kind of a dialog tells what shows it.
LEMMA OfADialog ==
    ASSUME NEW b, NEW c, NEW v, NEW name, Shows(b, c, v, name)
    PROVE  /\ b.kind = "menu" => c.do = "conf" /\ MenuShown(b)
           /\ b.kind = "list" => c.do = "choice" /\ ListShown(b)
           /\ b.kind = "input" =>
                /\ c.do \in {"string", "load", "save", "search"} /\ FieldShown(b)
                /\ c.do = "string" => b.text \in {v.str[SymOf(c.node)], "other"}
                /\ c.do \in {"load", "save"} => b.text \in {name, "other"}
           /\ b.kind = "text" => c.do \in {"text", "written", "found"} /\ TextShown(b)
           /\ b.kind = "yesno" => c.do = "exit" /\ YesNoShown(b)
           /\ b.kind \in {"menu", "list", "input", "text", "yesno"} \/ b = TooSmall
<1>1. CASE b = TooSmall
  BY <1>1, Kinds
<1>2. CASE c.do = "conf" /\ MenuShown(b)
  BY <1>2, Kinds
<1>3. CASE c.do = "choice" /\ ListShown(b)
  BY <1>3, Kinds
<1>4. CASE c.do = "string" /\ FieldShown(b) /\ b.text \in {v.str[SymOf(c.node)], "other"}
  BY <1>4, Kinds
<1>5. CASE c.do \in {"load", "save"} /\ FieldShown(b) /\ b.text \in {name, "other"}
  BY <1>5, Kinds
<1>6. CASE c.do = "search" /\ FieldShown(b)
  BY <1>6, Kinds
<1>7. CASE c.do \in {"text", "written", "found"} /\ TextShown(b)
  BY <1>7, Kinds
<1>8. CASE c.do = "exit" /\ YesNoShown(b)
  BY <1>8, Kinds
<1> QED BY <1>1, <1>2, <1>3, <1>4, <1>5, <1>6, <1>7, <1>8 DEF Shows

LEMMA MenuKeys ==
    ASSUME NEW b, MenuShown(b), NEW d \in MenuMoves(b) \cup ButtonMoves(b)
    PROVE  MenuShown(d) /\ (Fresh(b) => Fresh(d))
<1>1. b \in MenuBox(Entries) /\ MenuTrue(b)
  BY DEF MenuShown
<1>2. CASE d \in MenuMoves(b)
  <2>1. d \in MenuBox(Entries) /\ MenuTrue(d)
    BY <1>1, <1>2, MenuKeysKeepTrue
  <2>2. /\ d.items = b.items /\ d.skew = b.skew /\ (b.items = <<>> => d = b)
        /\ SameButton(d, b)
    BY <1>1, <1>2, MenuKeysKeepEntries
  <2>3. MenuShown(d)
    BY <2>1, <2>2 DEF MenuShown
  <2> QED BY <2>2, <2>3, Kinds DEF Fresh, ButtonTrue, SameButton
<1>3. CASE d \in ButtonMoves(b)
  <2>1. /\ d \in MenuBox(Entries) /\ d.items = b.items /\ d.max = b.max /\ d.skew = b.skew
        /\ d.scroll = b.scroll /\ d.choice = b.choice /\ ButtonTrue(d)
    BY <1>1, <1>3, MenuButtons
  <2>2. MenuShown(d)
    BY <2>1 DEF MenuShown, MenuTrue
  <2> QED BY <2>1, <2>2, Kinds DEF Fresh
<1> QED BY <1>2, <1>3

LEMMA ListKeys ==
    ASSUME NEW b, ListShown(b), NEW d \in ListMoves(b) \cup ButtonMoves(b)
    PROVE  ListShown(d) /\ (Fresh(b) => Fresh(d))
<1>1. b \in ListBox(Entries) /\ ListFits(b) /\ MenuTrue(b)
  BY DEF ListShown
<1>2. CASE d \in ListMoves(b)
  <2>1. d \in ListBox(Entries) /\ ListFits(d) /\ MenuTrue(d)
    BY <1>1, <1>2, ListKeysKeepTrue
  <2>2. d.items = b.items /\ SameButton(d, b)
    BY <1>1, <1>2, ListKeysKeepEntries
  <2>3. ListShown(d)
    BY <2>1, <2>2 DEF ListShown
  <2> QED BY <2>2, <2>3, Kinds DEF Fresh, ButtonTrue, SameButton
<1>3. CASE d \in ButtonMoves(b)
  <2>1. /\ d \in ListBox(Entries) /\ d.items = b.items /\ d.max = b.max
        /\ d.scroll = b.scroll /\ d.choice = b.choice /\ ButtonTrue(d)
    BY <1>1, <1>3, ListButtons
  <2>2. ListShown(d)
    BY <2>1 DEF ListShown, MenuTrue, ListFits
  <2> QED BY <2>1, <2>2, Kinds DEF Fresh
<1> QED BY <1>2, <1>3

LEMMA FieldKeys ==
    ASSUME NEW b, FieldShown(b), NEW d \in InputMoves(b)
    PROVE  FieldShown(d) /\ d.text \in {b.text, "other"} /\ (Fresh(b) => Fresh(d))
<1>1. "other" \in Texts /\ b \in InputBox(Texts) /\ InputTrue(b)
  BY DialogsAssumption DEF FieldShown, Texts
<1>2. d \in InputBox(Texts) /\ InputTrue(d) /\ (ButtonTrue(b) => ButtonTrue(d))
  BY <1>1, FieldKeysKeepTrue
<1>3. FieldShown(d) /\ d.text \in {b.text, "other"}
  BY <1>1, <1>2, FieldKeysKeepText DEF FieldShown
<1> QED BY <1>2, <1>3, Kinds DEF Fresh

LEMMA TextKeys ==
    ASSUME NEW b, TextShown(b), NEW d \in TextMoves(b)
    PROVE  TextShown(d) /\ Fresh(d)
<1>1. b \in TextBox /\ (b.ended => TextSound(b) /\ b.fixed = 0)
  BY DEF TextShown
<1>2. d \in TextBox /\ d.ended = b.ended /\ d.fixed = b.fixed
  BY <1>1, TextStaysText DEF SameLines
<1>3. b.ended => TextSound(d)
  BY <1>1, TextKeysKeepTrue
<1>4. TextShown(d)
  BY <1>1, <1>2, <1>3 DEF TextShown
<1> QED BY <1>4, Kinds DEF Fresh

LEMMA YesNoKeys ==
    ASSUME NEW b, YesNoShown(b), NEW d \in ButtonMoves(b)
    PROVE  YesNoShown(d) /\ Fresh(d)
<1>1. PICK s \in {1, -1} : d = Select(b, Turn(b.button, s, Buttons[b.kind]))
  BY DEF ButtonMoves
<1> DEFINE t == Turn(b.button, s, Buttons[b.kind])
<1>2. d = [b EXCEPT !.button = t, !.drawn = t]
  BY <1>1 DEF Select
<1> HIDE DEF t
<1>3. YesNoShown(d) /\ ButtonTrue(d)
  <2>1. ASSUME NEW x, NEW y, b = [kind |-> "yesno", button |-> x, drawn |-> y]
        PROVE  d = [kind |-> "yesno", button |-> d.button, drawn |-> d.drawn] /\ d.drawn = d.button
    BY <1>2, <2>1
  <2> QED BY <2>1 DEF YesNoShown, ButtonTrue
<1> QED BY <1>3, Kinds DEF Fresh

\* Whatever key is pressed, the dialog still belongs to its call.
LEMMA KeysKeepShown ==
    ASSUME NEW b, NEW c, NEW v, NEW name, Shows(b, c, v, name), NEW d \in Moves(b)
    PROVE  Shows(d, c, v, name) /\ (Fresh(b) => Fresh(d))
<1>1. CASE b.kind = "menu"
  <2>1. d \in MenuMoves(b) \cup ButtonMoves(b)
    BY <1>1 DEF Moves
  <2> QED BY <1>1, <2>1, OfADialog, MenuKeys, Kinds DEF Shows
<1>2. CASE b.kind = "list"
  <2>1. d \in ListMoves(b) \cup ButtonMoves(b)
    BY <1>2 DEF Moves
  <2> QED BY <1>2, <2>1, OfADialog, ListKeys, Kinds DEF Shows
<1>3. CASE b.kind = "input"
  <2>1. d \in InputMoves(b)
    BY <1>3 DEF Moves
  <2>2. FieldShown(d) /\ d.text \in {b.text, "other"} /\ (Fresh(b) => Fresh(d))
    BY <1>3, <2>1, OfADialog, FieldKeys
  <2>3. /\ c.do \in {"string", "load", "save", "search"}
        /\ c.do = "string" => d.text \in {v.str[SymOf(c.node)], "other"}
        /\ c.do \in {"load", "save"} => d.text \in {name, "other"}
    BY <1>3, <2>2, OfADialog
  <2> QED BY <2>2, <2>3, Kinds DEF Shows
<1>4. CASE b.kind = "text"
  <2>1. d \in TextMoves(b)
    BY <1>4 DEF Moves
  <2> QED BY <1>4, <2>1, OfADialog, TextKeys, Kinds DEF Shows
<1>5. CASE b.kind = "yesno"
  <2>1. d \in ButtonMoves(b)
    BY <1>5 DEF Moves
  <2> QED BY <1>5, <2>1, OfADialog, YesNoKeys, Kinds DEF Shows
<1>6. CASE b.kind \notin {"menu", "list", "input", "text", "yesno"}
  BY <1>6 DEF Moves
<1> QED BY <1>1, <1>2, <1>3, <1>4, <1>5, <1>6

LEMMA MenuOpens ==
    ASSUME NEW items, IsListing(items), NEW active, NEW scroll \in Nat, NEW r \in Nat, NEW b,
           b = OpenMenu(items, active, scroll, r), b # TooSmall
    PROVE  /\ MenuShown(b) /\ Fresh(b)
           /\ b.items = items
           /\ OnIt(b, active)
<1> DEFINE a == [kind |-> "menu", items |-> items, max |-> 0, scroll |-> 0, choice |-> 0,
                 first |-> 0, skew |-> 0, button |-> 0, drawn |-> 0]
<1>1. items \in Seq(Entries)
  BY DEF IsListing, Entries
<1>2. /\ a \in MenuBox(Entries) /\ a.items = items /\ a.choice = 0 /\ a.first = 0
      /\ a.button = 0
      /\ b = LayMenu(a, active, scroll, r)
  BY <1>1 DEF MenuBox, OpenMenu
<1> HIDE DEF a
<1>3. a.items # <<>> => a.choice < Len(a.items)
  BY <1>1, <1>2
<1>4. /\ b \in MenuBox(Entries) /\ MenuTrue(b) /\ b.items = items
      /\ items = <<>> => b.choice = 0
      /\ OnIt(b, active)
      /\ b.skew = 0 /\ b.drawn = 0 /\ b.button = a.button
  BY <1>2, <1>3, MenuIsLaidOutTrue
<1>5. MenuShown(b) /\ Fresh(b)
  BY <1>2, <1>4, Kinds DEF MenuShown, Fresh, ButtonTrue
<1> QED BY <1>4, <1>5

LEMMA MenuLaid ==
    ASSUME NEW b, MenuShown(b), NEW active, NEW scroll \in Nat, NEW r \in Nat,
           NEW d, d = LayMenu(b, active, scroll, r), d # TooSmall
    PROVE  MenuShown(d)
<1>1. b \in MenuBox(Entries) /\ MenuTrue(b) /\ (b.items = <<>> => b.choice = 0) /\ IsListing(b.items)
  BY DEF MenuShown
<1>2. 0 <= b.choice /\ (b.items # <<>> => b.choice < Len(b.items))
  <2>1. Len(b.items) \in Nat /\ b.max \in Nat /\ b.scroll \in Int /\ b.choice \in Int
    BY <1>1, MenuFields
  <2> QED BY <1>1, <2>1 DEF MenuTrue
<1>3. /\ d \in MenuBox(Entries) /\ MenuTrue(d) /\ d.items = b.items
      /\ b.items = <<>> /\ b.choice = 0 => d.choice = 0
  BY <1>1, <1>2, MenuIsLaidOutTrue
<1> QED BY <1>1, <1>3 DEF MenuShown

LEMMA ListOpens ==
    ASSUME NEW items, IsListing(items), Values(items), items # <<>>, NEW at \in Nat, at < Len(items),
           NEW r \in Nat, NEW b, b = OpenList(items, at, r), b # TooSmall
    PROVE  ListShown(b) /\ Fresh(b)
<1>1. items \in Seq(Entries)
  BY DEF IsListing, Entries
<1>2. /\ b \in ListBox(Entries) /\ b.items = items /\ ListFits(b) /\ MenuTrue(b)
      /\ ButtonTrue(b)
  BY <1>1, ListIsLaidOutTrue
<1>3. ListShown(b)
  BY <1>2 DEF ListShown
<1> QED BY <1>2, <1>3, Kinds DEF Fresh

LEMMA ListLaid ==
    ASSUME NEW b, ListShown(b), NEW r \in Nat, NEW d, d = LayList(b, r), d # TooSmall
    PROVE  ListShown(d)
<1> DEFINE z == 0
<1>1. /\ b \in ListBox(Entries) /\ IsListing(b.items) /\ Values(b.items)
      /\ MenuTrue(b) /\ ListFits(b) /\ b.items # <<>>
  BY DEF ListShown
<1>2. d = [b EXCEPT !.drawn = z]
  BY <1>1, ListKeysKeepTrue
<1>3. z \in Int
  OBVIOUS
<1> HIDE DEF z
<1>4. d \in ListBox(Entries)
  BY <1>1, <1>2, <1>3 DEF ListBox
<1>5. d.items = b.items /\ d.max = b.max /\ d.scroll = b.scroll /\ d.choice = b.choice
  BY <1>1, <1>2 DEF ListBox
<1> QED BY <1>1, <1>4, <1>5 DEF ListShown, MenuTrue, ListFits

LEMMA FieldOpens ==
    ASSUME NEW text \in Texts, NEW height \in Nat, NEW r \in Nat, NEW b,
           b = OpenInput(text, Width[text], height, r), b # TooSmall
    PROVE  FieldShown(b) /\ b.text = text /\ Fresh(b)
<1> DEFINE n == Width[text]
           a == [kind |-> "input", text |-> text, len |-> n, height |-> height, pos |-> 0,
                 show |-> 0, x |-> 0, button |-> -1, drawn |-> -1]
<1>1. n \in Nat /\ n <= MaxLen
  <2>1. n \in 0 .. MaxLen /\ MaxLen \in Nat
    BY DialogsAssumption, DialogAssumption DEF Texts
  <2> HIDE DEF n
  <2> QED BY <2>1
<1>2. b = LayInput(a, r)
  BY DEF OpenInput
<1> HIDE DEF n
<1>3. a \in InputBox(Texts) /\ a.len = n /\ a.text = text /\ a.button = -1
  BY <1>1 DEF InputBox
<1> HIDE DEF a
<1>4. b \in InputBox(Texts) /\ InputTrue(b) /\ b.drawn = -1 /\ b.button = a.button
  BY <1>1, <1>2, <1>3, FieldIsLaidOutTrue
<1>5. b.text = a.text
  BY <1>2, <1>3 DEF LayInput, InputBox
<1>6. FieldShown(b)
  BY <1>4 DEF FieldShown
<1> QED BY <1>3, <1>4, <1>5, <1>6, Kinds DEF Fresh, ButtonTrue

LEMMA FieldLaid ==
    ASSUME NEW b, FieldShown(b), NEW r \in Nat, NEW d, d = LayInput(b, r), d # TooSmall
    PROVE  FieldShown(d) /\ d.text = b.text
<1>1. b \in InputBox(Texts) /\ InputTrue(b)
  BY DEF FieldShown
<1>2. b.len <= MaxLen
  BY <1>1 DEF InputTrue
<1>3. d \in InputBox(Texts) /\ InputTrue(d)
  BY <1>1, <1>2, FieldIsLaidOutTrue
<1>4. d.text = b.text
  BY <1>1 DEF LayInput, InputBox
<1> QED BY <1>3, <1>4 DEF FieldShown

LEMMA TextIsOpened ==
    ASSUME NEW lines \in Nat \ {0}, NEW fixed \in {0, 5, 6}, NEW ended_ \in BOOLEAN,
           ended_ => fixed = 0, NEW jumps \in BOOLEAN, NEW from \in Nat, NEW r \in Nat, NEW b,
           b = OpenText(lines, ended_, fixed, jumps, from, r), b # TooSmall
    PROVE  TextShown(b) /\ Fresh(b)
<1>1. lines \in Nat /\ 0 < lines /\ fixed \in Nat /\ (fixed = 0 \/ fixed >= 4)
  OBVIOUS
<1>2. b \in TextBox /\ b.ended = ended_ /\ b.fixed = fixed
  BY <1>1, TextOpens
<1>3. b.ended => TextSound(b)
  BY <1>1, TextIsLaidOutTrue
<1>4. TextShown(b)
  BY <1>2, <1>3 DEF TextShown
<1> QED BY <1>4, Kinds DEF Fresh

LEMMA TextLaid ==
    ASSUME NEW b, TextShown(b), NEW r \in Nat, NEW d, d = ResizeText(b, r), d # TooSmall
    PROVE  TextShown(d)
<1>1. b \in TextBox /\ (b.ended => TextSound(b) /\ b.fixed = 0)
  BY DEF TextShown
<1>2. d \in TextBox /\ d.ended = b.ended /\ d.fixed = b.fixed
  BY <1>1, TextStaysText DEF SameLines
<1>3. b.ended => TextSound(d)
  BY <1>1, TextResizedTrue
<1> QED BY <1>1, <1>2, <1>3 DEF TextShown

LEMMA YesNoLaid ==
    ASSUME NEW b, YesNoShown(b), NEW r, NEW d, d = LayYesNo(b, r), d # TooSmall
    PROVE  YesNoShown(d) /\ d.drawn = 0 /\ d.button = b.button
<1>1. d = [b EXCEPT !.drawn = 0]
  BY DEF LayYesNo
<1>2. ASSUME NEW x, NEW y, b = [kind |-> "yesno", button |-> x, drawn |-> y]
      PROVE  /\ d = [kind |-> "yesno", button |-> d.button, drawn |-> d.drawn]
             /\ d.drawn = 0 /\ d.button = b.button
  BY <1>1, <1>2
<1> QED BY <1>2 DEF YesNoShown

LEMMA YesNoOpens ==
    ASSUME NEW r, NEW d, d = OpenYesNo(r), d # TooSmall
    PROVE  YesNoShown(d) /\ Fresh(d)
<1> DEFINE a == [kind |-> "yesno", button |-> 0, drawn |-> 0]
<1>1. YesNoShown(a) /\ a.button = 0 /\ d = LayYesNo(a, r)
  BY DEF YesNoShown, OpenYesNo
<1> HIDE DEF a
<1>2. YesNoShown(d) /\ d.drawn = 0 /\ d.button = 0
  BY <1>1, YesNoLaid
<1> QED BY <1>2, Kinds DEF Fresh, ButtonTrue

LEMMA LeastOf ==
    ASSUME NEW T, T \subseteq Nat, T # {}
    PROVE  Min(T) \in T
<1>1. \E x \in T : \A y \in T : ~(<<y, x>> \in OpToRel(<, Nat))
  BY NatLessThanWellFounded, WFMin
<1>2. \A x, y \in Nat : <<y, x>> \in OpToRel(<, Nat) <=> y < x
  BY DEF OpToRel
<1>3. PICK x \in T : \A y \in T : ~(<<y, x>> \in OpToRel(<, Nat))
  BY <1>1
<1>4. \A y \in T : x <= y
  <2>1. ASSUME NEW y \in T PROVE x <= y
    <3>1. x \in Nat /\ y \in Nat /\ ~(y < x)
      BY <1>2, <1>3
    <3> QED BY <3>1
  <2> QED BY <2>1
<1> QED BY <1>4 DEF Min

\* The cursor starts on a value that is listed.
LEMMA StartsOnAValue ==
    ASSUME NEW items \in Seq(Entries), items # <<>>, NEW sym
    PROVE  StartsAt(items, sym) \in Nat /\ StartsAt(items, sym) < Len(items)
<1>1. Len(items) \in Nat /\ Len(items) > 0 /\ DOMAIN items = 1 .. Len(items)
  OBVIOUS
<1>2. ASSUME NEW T, T \subseteq DOMAIN items, T # {}
      PROVE  Min(T) - 1 \in Nat /\ Min(T) - 1 < Len(items)
  <2>1. Min(T) \in T
    <3>1. T \subseteq Nat
      BY <1>1, <1>2
    <3> QED BY <1>2, <3>1, LeastOf
  <2> QED BY <1>1, <1>2, <2>1
<1> DEFINE asked == {i \in DOMAIN items : SymOf(items[i].node) = sym}
           isset == {i \in DOMAIN items : items[i].tag = "X"}
<1>3. \/ asked # {} /\ StartsAt(items, sym) = Min(asked) - 1
      \/ isset # {} /\ StartsAt(items, sym) = Min(isset) - 1
      \/ StartsAt(items, sym) = 0
  BY DEF StartsAt
<1>4. asked \subseteq DOMAIN items /\ isset \subseteq DOMAIN items
  OBVIOUS
<1> HIDE DEF asked, isset
<1> QED BY <1>1, <1>2, <1>3, <1>4

\* When the terminal has another size the dialog is laid out again, and belongs to the call.
LEMMA LaidAgain ==
    ASSUME NEW b, NEW c \in Called, c = Top, NEW v, NEW name, Shows(b, c, v, name), b # TooSmall,
           NEW r \in Nat, NEW d, d = Lay(b, r)
    PROVE  Shows(d, c, v, name)
<1>1. CASE d = TooSmall
  BY <1>1 DEF Shows
<1>2. CASE d # TooSmall /\ b.kind = "menu"
  <2>1. c.do = "conf" /\ MenuShown(b)
    BY <1>2, OfADialog
  <2>2. c.scroll \in Nat
    BY <2>1, OfACall DEF ConfCall
  <2>3. d = LayMenu(b, c.active, c.scroll, r)
    BY <1>2 DEF Lay
  <2> QED BY <1>2, <2>1, <2>2, <2>3, MenuLaid DEF Shows
<1>3. CASE d # TooSmall /\ b.kind = "list"
  <2>1. c.do = "choice" /\ ListShown(b)
    BY <1>3, OfADialog
  <2>2. d = LayList(b, r)
    BY <1>3 DEF Lay
  <2> QED BY <1>3, <2>1, <2>2, ListLaid DEF Shows
<1>4. CASE d # TooSmall /\ b.kind = "text"
  <2>1. c.do \in {"text", "written", "found"} /\ TextShown(b)
    BY <1>4, OfADialog
  <2>2. d = ResizeText(b, r)
    BY <1>4 DEF Lay
  <2> QED BY <1>4, <2>1, <2>2, TextLaid DEF Shows
<1>5. CASE d # TooSmall /\ b.kind = "input"
  <2>1. /\ c.do \in {"string", "load", "save", "search"} /\ FieldShown(b)
        /\ c.do = "string" => b.text \in {v.str[SymOf(c.node)], "other"}
        /\ c.do \in {"load", "save"} => b.text \in {name, "other"}
    BY <1>5, OfADialog
  <2>2. d = LayInput(b, r)
    BY <1>5 DEF Lay
  <2>3. FieldShown(d) /\ d.text = b.text
    BY <1>5, <2>1, <2>2, FieldLaid
  <2> QED BY <2>1, <2>3 DEF Shows
<1>6. CASE d # TooSmall /\ b.kind = "yesno"
  <2>1. c.do = "exit" /\ YesNoShown(b)
    BY <1>6, OfADialog
  <2>2. d = LayYesNo(b, r)
    BY <1>6 DEF Lay
  <2> QED BY <1>6, <2>1, <2>2, YesNoLaid DEF Shows
<1> QED BY <1>1, <1>2, <1>3, <1>4, <1>5, <1>6, OfADialog

-----------------------------------------------------------------------------
(***************************************************************************)
(* The steps                                                               *)
(***************************************************************************)

\* What is known while the program runs.
LEMMA Running ==
    ASSUME IInv, calls # <<>>, ended = "no"
    PROVE  /\ TypesInv /\ changes \in 0 .. MaxChanges
           /\ Stacked(calls, w) /\ Top \in Called
           /\ Top.do # "text" => Tail(calls) \in Seq(Resting)
           /\ Top.do = "choice" => IsYes(w, Top.node)
           /\ Top.do \notin {"written", "exit"} => w \in Symbols(changes)
           /\ InMemory(Top, w, changes, slip)
           /\ Written(files, changes) /\ Told(files, filename, w, slip)
           /\ Top.do = "written" => files[Top.name] = Out(w)
           /\ box # NoBox => Shows(box, Top, w, filename)
<1>1. /\ TypesInv /\ changes \in 0 .. MaxChanges /\ Stacked(calls, w)
      /\ InMemory(Top, w, changes, slip)
      /\ Written(files, changes) /\ Told(files, filename, w, slip)
      /\ Top.do = "written" => files[Top.name] = Out(w)
      /\ box # NoBox => Shows(box, Top, w, filename)
  BY DEF IInv, TypesInv, CallsInv, BoxInv, SymbolsInv, FilesInv, Idle
<1>2. /\ Top \in Called
      /\ Top.do # "text" => Tail(calls) \in Seq(Resting)
      /\ Top.do = "choice" => IsYes(w, Top.node)
  BY <1>1, OfAStack DEF Top
<1>3. Top.do \notin {"written", "exit"} => w \in Symbols(changes)
  BY <1>1 DEF InMemory, Exit
<1> QED BY <1>1, <1>2, <1>3

LEMMA Dialog ==
    ASSUME IInv, box # NoBox
    PROVE  calls # <<>> /\ Shows(box, Top, w, filename)
BY DEF IInv, BoxInv

\* A step after which a call prepares its dialog, the symbols being those the files go by.
LEMMA Prepared ==
    ASSUME TypesInv', Stacked(calls, w)', box' = NoBox, ended' = "no",
           InMemory(Top, w, changes, slip)', Written(files, changes)',
           Told(files, filename, w, slip)', (Top.do = "written" => files[Top.name] = Out(w))'
    PROVE  IInv'
BY DEF IInv, CallsInv, BoxInv, SymbolsInv, FilesInv, EndsSaved

\* ... and after which the dialog of a call is shown, the symbols having been looked at.
LEMMA Opens ==
    ASSUME IInv, calls # <<>>, ended = "no", Top.do # "written", Quiet, seen' \in BOOLEAN,
           w' \in Symbols(changes), Kept(w, w'), Stacked(calls, w)', Top'.do # "written",
           \/ box' = NoBox
           \/ Shows(box, Top, w, filename)' /\ Fresh(box')
    PROVE  IInv'
<1>1. TypesInv' /\ ended' = "no" /\ Written(files, changes)'
  BY Running DEF Quiet, store, TypesInv, Written
<1>2. InMemory(Top, w, changes, slip)'
  BY DEF InMemory, Quiet
<1>3. Told(files, filename, w', slip)
  BY Running, ToldStays
<1>4. Told(files, filename, w, slip)'
  BY <1>3 DEF Quiet, store
<1>5. (calls # <<>>)'
  BY DEF Stacked, AtRest
<1>6. BoxInv'
  BY <1>5 DEF BoxInv
<1> QED BY <1>1, <1>2, <1>4, <1>6 DEF IInv, CallsInv, SymbolsInv, FilesInv, EndsSaved

LEMMA Appears ==
    ASSUME IInv, calls # <<>>, ended = "no", NEW b, ShowBox(b), Shows(b, Top, w, filename),
           Fresh(b)
    PROVE  IInv'
<1>1. /\ TypesInv' /\ Stacked(calls, w)' /\ calls' # <<>> /\ ended' = "no"
      /\ InMemory(Top, w, changes, slip)' /\ Written(files, changes)'
      /\ Told(files, filename, w, slip)' /\ (Top.do = "written" => files[Top.name] = Out(w))'
  BY Running DEF ShowBox, Quiet, store, TypesInv, Written, Top, Told
<1>2. Shows(box, Top, w, filename)' /\ Fresh(box')
  BY DEF ShowBox, Quiet, store, Top
<1> QED BY <1>1, <1>2 DEF IInv, CallsInv, BoxInv, SymbolsInv, FilesInv, EndsSaved

LEMMA SmallIsShown ==
    ASSUME NEW c, NEW v, NEW name
    PROVE  Shows(TooSmall, c, v, name) /\ Fresh(TooSmall)
BY Kinds DEF Shows, Fresh

LEMMA StartStep ==
    ASSUME IInv, Start
    PROVE  IInv'
<1> DEFINE c == Conf(0, NoNode)
<1>1. Idle /\ TypesInv /\ Written(files, changes) /\ calls' = <<c>>
  BY OfAStack DEF IInv, CallsInv, FilesInv, Start, Idle
<1>2. c \in Called /\ c.do = "conf"
  BY RootAssumption DEF Conf, Menus, ConfCall, Resting, Called
<1> HIDE DEF c
<1>3. Stacked(calls, w)' /\ Top' = c
  <2>1. <<c>> = <<c>> \o << >> /\ << >> \in Seq(Resting)
    OBVIOUS
  <2> QED BY <1>1, <1>2, <2>1, OverRest DEF Top
<1>4. w' \in Symbols(0) /\ (w'.changed \/ Out(w') = FirstConfig)
  BY <1>1, FirstSymbols DEF Start, Idle
<1>5. /\ TypesInv' /\ box' = NoBox /\ ended' = "no" /\ Written(files, changes)'
      /\ InMemory(Top, w, changes, slip)'
  BY <1>1, <1>4 DEF Start, Idle, TypesInv, Written, InMemory, view, store
<1>6. Told(files, filename, w, slip)'
  BY <1>1, <1>4 DEF Start, Idle, Told, store
<1> QED BY <1>2, <1>3, <1>5, <1>6, Prepared

LEMMA ShownIsAView == ASSUME TypesInv PROVE Shown \in Views
BY DEF TypesInv, Shown, Views

LEMMA ShowMenuStep ==
    ASSUME IInv, ShowMenu
    PROVE  IInv'
<1>1. /\ calls # <<>> /\ ended = "no" /\ Top.do = "conf" /\ Quiet
  BY DEF ShowMenu, Preparing
<1>2. /\ Top \in ConfCall /\ w \in Symbols(changes) /\ changes \in 0 .. MaxChanges /\ TypesInv
      /\ Stacked(calls, w) /\ Tail(calls) \in Seq(Resting) /\ Top \in Called
  BY <1>1, Running, OfACall
<1> DEFINE r == MenuItems(w, Top.node, Shown)
<1>3. Top.node \in Menus /\ Top.scroll \in Nat /\ rows \in Nat /\ Shown \in Views
  BY <1>2, ShownIsAView, BoundsAreNat DEF ConfCall, TypesInv
<1>4. /\ w' = r.w /\ seen' = (seen \/ r.any)
      /\ \/ box' = OpenMenu(r.items, Top.active, Top.scroll, rows) /\ calls' = calls
         \/ box' = NoBox /\ calls' = Popped(calls)
  BY DEF ShowMenu
<1>5. r.w \in Symbols(changes) /\ Kept(w, r.w)
  BY <1>2, <1>3, LookedAt
<1>6. r.any \in BOOLEAN /\ IsListing(r.items)
  BY <1>2, <1>3, SymbolsNow DEF Lists
<1> HIDE DEF r
<1>7. w' \in Symbols(changes) /\ Kept(w, w') /\ seen' \in BOOLEAN
  BY <1>2, <1>4, <1>5, <1>6 DEF TypesInv
<1>8. CASE box' = OpenMenu(r.items, Top.active, Top.scroll, rows) /\ calls' = calls
  <2>1. Stacked(calls, w)' /\ Top' = Top
    <3>1. Stacked(calls, w')
      <4>1. calls \in Seq(Called) /\ calls # <<>>
        BY <1>2, OfAStack
      <4> QED BY <1>1, <1>2, <4>1 DEF Stacked, AtRest, Top
    <3> QED BY <1>8, <3>1 DEF Top
  <2>2. CASE box' = TooSmall
    BY <1>1, <1>7, <2>1, <2>2, SmallIsShown, Opens DEF Quiet, store
  <2>3. CASE box' # TooSmall
    <3>1. MenuShown(box') /\ Fresh(box')
      BY <1>3, <1>6, <1>8, <2>3, MenuOpens
    <3>2. Shows(box, Top, w, filename)'
      BY <1>1, <2>1, <3>1 DEF Shows
    <3> QED BY <1>1, <1>7, <2>1, <3>1, <3>2, Opens
  <2> QED BY <2>2, <2>3
<1>9. CASE box' = NoBox /\ calls' = Popped(calls)
  <2>1. Stacked(Popped(calls), w') /\ Head(Popped(calls)).do # "written"
    <3>1. Stacked(calls, w')
      <4>1. calls \in Seq(Called) /\ calls # <<>>
        BY <1>2, OfAStack
      <4> QED BY <1>1, <1>2, <4>1 DEF Stacked, AtRest, Top
    <3> QED BY <3>1, PoppedIsStacked
  <2>2. Stacked(calls, w)' /\ Top'.do # "written"
    BY <1>9, <2>1 DEF Top
  <2> QED BY <1>1, <1>7, <1>9, <2>2, Opens
<1> QED BY <1>4, <1>8, <1>9

LEMMA ShowChoiceStep ==
    ASSUME IInv, ShowChoice
    PROVE  IInv'
<1>1. /\ calls # <<>> /\ ended = "no" /\ Top.do = "choice" /\ Quiet /\ seen' = seen
      /\ calls' = calls
  BY DEF ShowChoice, Preparing
<1>2. /\ Top \in ChoiceCall /\ w \in Symbols(changes) /\ changes \in 0 .. MaxChanges /\ TypesInv
      /\ Stacked(calls, w) /\ Tail(calls) \in Seq(Resting) /\ Top \in Called
      /\ IsYes(w, Top.node)
  BY <1>1, Running, OfACall
<1> DEFINE r  == ChoiceItems(w, Top.node)
           at == StartsAt(r.items, Top.active)
<1>3. Top.node \in ChoiceNodes /\ rows \in Nat /\ seen \in BOOLEAN
  BY <1>2, BoundsAreNat DEF ChoiceCall, TypesInv
<1>4. w' = r.w /\ box' = OpenList(r.items, at, rows)
  BY DEF ShowChoice
<1>5. r.w \in Symbols(changes) /\ Kept(w, r.w)
  BY <1>2, <1>3, LookedAt
<1>6. /\ IsListing(r.items) /\ Values(r.items) /\ r.items # <<>> /\ IsYes(r.w, Top.node)
      /\ r.items \in Seq(Entries)
  BY <1>2, <1>3, SymbolsNow DEF Lists, Values, IsListing, Entries
<1>7. at \in Nat /\ at < Len(r.items)
  BY <1>6, StartsOnAValue
<1> HIDE DEF r, at
<1>8. w' \in Symbols(changes) /\ Kept(w, w') /\ seen' \in BOOLEAN
  BY <1>1, <1>3, <1>4, <1>5
<1>9. Stacked(calls, w)' /\ Top' = Top
  <2>1. Stacked(calls, w')
    <3>1. calls \in Seq(Called) /\ calls # <<>>
      BY <1>2, OfAStack
    <3> QED BY <1>2, <1>4, <1>6, <3>1 DEF Stacked, AtRest, Top
  <2> QED BY <1>1, <2>1 DEF Top
<1>10. CASE box' = TooSmall
  BY <1>1, <1>8, <1>9, <1>10, SmallIsShown, Opens DEF Quiet, store
<1>11. CASE box' # TooSmall
  <2>1. ListShown(box') /\ Fresh(box')
    BY <1>3, <1>4, <1>6, <1>7, <1>11, ListOpens
  <2>2. Shows(box, Top, w, filename)'
    BY <1>1, <1>9, <2>1 DEF Shows
  <2> QED BY <1>1, <1>8, <1>9, <2>1, <2>2, Opens
<1> QED BY <1>10, <1>11

LEMMA ShowFieldStep ==
    ASSUME IInv, ShowString \/ ShowName \/ ShowSearch
    PROVE  IInv'
<1>1. calls # <<>> /\ ended = "no"
  BY DEF ShowString, ShowName, ShowSearch, Preparing
<1>2. /\ Top \in Called /\ TypesInv /\ changes \in 0 .. MaxChanges
      /\ Top.do \notin {"written", "exit"} => w \in Symbols(changes)
  BY <1>1, Running
<1>3. rows \in Nat /\ "" \in Texts /\ filename \in Texts
  BY <1>2, BoundsAreNat, DialogsAssumption, OfNames DEF TypesInv, Texts
<1>4. ASSUME NEW text \in Texts, NEW height \in Nat,
             \/ Top.do = "string" /\ text = w.str[SymOf(Top.node)]
             \/ Top.do \in {"load", "save"} /\ text = filename
             \/ Top.do = "search"
      PROVE  Shows(Field(text, height), Top, w, filename) /\ Fresh(Field(text, height))
  <2> DEFINE b == Field(text, height)
  <2>1. b = OpenInput(text, Width[text], height, rows)
    BY DEF Field
  <2> SUFFICES Shows(b, Top, w, filename) /\ Fresh(b)
    OBVIOUS
  <2> HIDE DEF b
  <2>2. CASE b = TooSmall
    BY <2>2, SmallIsShown
  <2>3. CASE b # TooSmall
    <3>1. FieldShown(b) /\ b.text = text /\ Fresh(b)
      BY <1>3, <2>1, <2>3, FieldOpens
    <3> QED BY <1>4, <3>1 DEF Shows
  <2> QED BY <2>2, <2>3
<1>5. CASE ShowString
  <2>1. Top.do = "string" /\ ShowBox(Field(w.str[SymOf(Top.node)], 10))
    BY <1>5 DEF ShowString, Preparing
  <2>2. w.str[SymOf(Top.node)] \in Texts
    <3>1. SymOf(Top.node) \in Strings
      BY <1>2, <2>1, OfACall DEF StringCall
    <3> QED BY <1>2, <2>1, <3>1, SymbolsNow
  <2>3. /\ Shows(Field(w.str[SymOf(Top.node)], 10), Top, w, filename)
        /\ Fresh(Field(w.str[SymOf(Top.node)], 10))
    BY <1>4, <2>1, <2>2
  <2> QED BY <1>1, <2>1, <2>3, Appears
<1>6. CASE ShowName
  <2>1. Top.do \in {"load", "save"} /\ ShowBox(Field(filename, 11))
    BY <1>6 DEF ShowName, Preparing
  <2>2. Shows(Field(filename, 11), Top, w, filename) /\ Fresh(Field(filename, 11))
    BY <1>3, <1>4, <2>1
  <2> QED BY <1>1, <2>1, <2>2, Appears
<1>7. CASE ShowSearch
  <2>1. Top.do = "search" /\ ShowBox(Field("", 10))
    BY <1>7 DEF ShowSearch, Preparing
  <2>2. Shows(Field("", 10), Top, w, filename) /\ Fresh(Field("", 10))
    BY <1>3, <1>4, <2>1
  <2> QED BY <1>1, <2>1, <2>2, Appears
<1> QED BY <1>5, <1>6, <1>7

LEMMA ShowTextStep ==
    ASSUME IInv, ShowText
    PROVE  IInv'
<1> DEFINE no == FALSE
           b == OpenText(Top.lines, Top.ended, Top.fixed, no, 0, rows)
<1>1. /\ calls # <<>> /\ ended = "no" /\ Top.do \in {"text", "written"} /\ ShowBox(b)
  BY DEF ShowText, Preparing
<1>2. Top \in HelpCall \cup MessageCall \cup WrittenCall /\ rows \in Nat
  BY <1>1, Running, OfACall, BoundsAreNat DEF TypesInv
<1>3. /\ Top.lines \in Nat \ {0} /\ Top.fixed \in {0, 5, 6} /\ Top.ended \in BOOLEAN
      /\ Top.ended => Top.fixed = 0
  <2> DEFINE Good == /\ Top.lines \in Nat \ {0} /\ Top.fixed \in {0, 5, 6} /\ Top.ended \in BOOLEAN
                     /\ Top.ended => Top.fixed = 0
  <2>1. Top \in HelpCall => Good
    BY DEF HelpCall
  <2>2. Top \in MessageCall => Good
    BY DEF MessageCall
  <2>3. Top \in WrittenCall => Good
    <3>1. Top \in WrittenCall => Top.lines \in {1} /\ Top.fixed \in {6}
      BY DEF WrittenCall
    <3>2. Top \in WrittenCall => Top.ended \in BOOLEAN /\ ~Top.ended
      BY DEF WrittenCall
    <3> QED BY <3>1, <3>2
  <2> QED BY <1>2, <2>1, <2>2, <2>3
<1>4. no \in BOOLEAN /\ b = OpenText(Top.lines, Top.ended, Top.fixed, no, 0, rows)
  OBVIOUS
<1> HIDE DEF no, b
<1>5. Shows(b, Top, w, filename) /\ Fresh(b)
  <2>1. CASE b = TooSmall
    BY <2>1, SmallIsShown
  <2>2. CASE b # TooSmall
    <3>1. TextShown(b) /\ Fresh(b)
      BY <1>2, <1>3, <1>4, <2>2, TextIsOpened
    <3> QED BY <1>1, <3>1 DEF Shows
  <2> QED BY <2>1, <2>2
<1> QED BY <1>1, <1>5, Appears

LEMMA ShowFoundStep ==
    ASSUME IInv, ShowFound
    PROVE  IInv'
<1> DEFINE yes == TRUE
           r == JumpTargets(w, Top.result.prompts)
           c == [Top EXCEPT !.targets = r.targets]
<1>1. /\ calls # <<>> /\ ended = "no" /\ Top.do = "found" /\ Quiet /\ seen' = seen
      /\ w' = r.w /\ calls' = <<c>> \o Tail(calls)
      /\ box' = OpenText(Top.result.lines, yes, 0, yes, Top.from, rows)
  BY DEF ShowFound, Preparing
<1>2. /\ Top \in FoundCall /\ w \in Symbols(changes) /\ changes \in 0 .. MaxChanges /\ TypesInv
      /\ Tail(calls) \in Seq(Resting) /\ Top \in Called
  BY <1>1, Running, OfACall
<1>3. Top.result \in Results /\ Top.from \in Nat /\ rows \in Nat /\ seen \in BOOLEAN
  BY <1>2, BoundsAreNat DEF FoundCall, TypesInv
<1>4. Top.result.lines \in Nat \ {0}
  BY <1>3, DialogsAssumption
<1>5. r.w \in Symbols(changes) /\ Kept(w, r.w)
  BY <1>2, <1>3, LookedAt
<1>6. r.targets \in Seq([line : Nat, node : Places])
  BY <1>2, <1>3, SymbolsNow DEF Lists
<1>7. yes \in BOOLEAN /\ (yes => 0 = 0)
  OBVIOUS
<1> HIDE DEF r, yes
<1>8. c \in FoundCall
  BY <1>2, <1>6 DEF FoundCall
<1>9. c \in Called /\ c.do = "found"
  BY <1>8 DEF Called, Resting, FoundCall
<1> HIDE DEF c
<1>10. Stacked(calls, w)' /\ Top' = c
  BY <1>1, <1>2, <1>9, OverRest DEF Top
<1>11. w' \in Symbols(changes) /\ Kept(w, w') /\ seen' \in BOOLEAN
  BY <1>1, <1>3, <1>5
<1>12. Shows(box, Top, w, filename)' /\ Fresh(box')
  <2>1. CASE box' = TooSmall
    BY <2>1, SmallIsShown
  <2>2. CASE box' # TooSmall
    <3>1. TextShown(box') /\ Fresh(box')
      BY <1>1, <1>3, <1>4, <1>7, <2>2, TextIsOpened
    <3> QED BY <1>9, <1>10, <3>1 DEF Shows
  <2> QED BY <2>1, <2>2
<1> QED BY <1>1, <1>9, <1>10, <1>11, <1>12, Opens

LEMMA ShowExitStep ==
    ASSUME IInv, ShowExit
    PROVE  IInv'
<1>1. calls # <<>> /\ ended = "no" /\ Top.do = "exit" /\ calls' = calls /\ Top' = Top
  BY DEF ShowExit, Preparing, Top
<1>2. /\ TypesInv /\ Stacked(calls, w) /\ InMemory(Top, w, changes, slip)
      /\ Written(files, changes) /\ Told(files, filename, w, slip)
  BY <1>1, Running
<1>3. /\ TypesInv' /\ Stacked(calls, w)' /\ InMemory(Top, w, changes, slip)'
      /\ Written(files, changes)' /\ Told(files, filename, w, slip)' /\ calls' # <<>>
      /\ Top'.do # "written"
  BY <1>1, <1>2 DEF ShowExit, TypesInv, view, Written, Told
<1>4. CASE w.changed
  <2>1. box' = OpenYesNo(rows) /\ ended' = "no"
    BY <1>1, <1>4 DEF ShowExit
  <2>2. Shows(box, Top, w, filename)' /\ Fresh(box')
    BY <1>1, <2>1, YesNoOpens, SmallIsShown DEF Shows
  <2> QED BY <1>3, <2>1, <2>2 DEF IInv, CallsInv, BoxInv, SymbolsInv, FilesInv, EndsSaved
<1>5. CASE ~w.changed
  <2>1. box' = NoBox /\ ended' = "unchanged"
    BY <1>5 DEF ShowExit
  <2>2. EndsSaved'
    BY <1>2, <1>5 DEF Told, EndsSaved, ShowExit
  <2> QED BY <1>3, <2>1, <2>2 DEF IInv, CallsInv, BoxInv, SymbolsInv, FilesInv
<1> QED BY <1>4, <1>5

LEMMA MoveStep ==
    ASSUME IInv, Move
    PROVE  IInv'
<1>1. ended = "no" /\ box' \in Moves(box)
  BY DEF Move
<1>2. box # NoBox
  BY <1>1, Kinds DEF Moves
<1>3. calls # <<>> /\ Shows(box, Top, w, filename)
  BY <1>2, Dialog
<1>4. Shows(box', Top, w, filename) /\ (Fresh(box) => Fresh(box'))
  BY <1>1, <1>3, KeysKeepShown
<1>5. BoxInv'
  BY <1>2, <1>3, <1>4 DEF IInv, BoxInv, Move, view, store, Top
<1>6. /\ TypesInv' /\ CallsInv' /\ SymbolsInv' /\ FilesInv' /\ EndsSaved'
  BY <1>1, <1>3 DEF IInv, TypesInv, CallsInv, SymbolsInv, FilesInv, EndsSaved, Move, view, store,
                    Idle, Top, Written, Told
<1> QED BY <1>5, <1>6 DEF IInv

LEMMA ResizeStep ==
    ASSUME IInv, NEW r \in Sizes, Resize(r)
    PROVE  IInv'
<1>1. /\ ended = "no" /\ box # NoBox /\ box # TooSmall /\ box' = Lay(box, r)
      /\ resized' = TRUE /\ rows' = r /\ changes' = changes + 1 /\ changes' <= MaxChanges
      /\ ended' \in {"no", "crashed"}
      /\ UNCHANGED <<w, calls, showall, single, expanded, seen, store, slip>>
  BY DEF Resize, Early, Counted
<1>2. /\ calls # <<>> /\ Top \in Called /\ changes \in 0 .. MaxChanges /\ TypesInv /\ r \in Nat
      /\ Stacked(calls, w) /\ InMemory(Top, w, changes, slip)
      /\ Written(files, changes) /\ Told(files, filename, w, slip)
      /\ Top.do = "written" => files[Top.name] = Out(w)
      /\ Shows(box, Top, w, filename)
  BY <1>1, Running, Dialog, BoundsAreNat
<1>3. Shows(box, Top, w, filename)'
  <2>1. Shows(box', Top, w, filename)
    BY <1>1, <1>2, LaidAgain
  <2> QED BY <1>1, <2>1 DEF Top, store
<1>4. changes' \in 0 .. MaxChanges /\ changes < MaxChanges /\ changes \in Nat
  BY <1>1, <1>2, BoundsAreNat
<1>5. InMemory(Top, w, changes, slip)'
  <2>1. \A v \in Symbols(changes) : v \in Symbols(changes + 1)
    BY <1>2, <1>4, SymbolsNext
  <2> QED BY <1>1, <1>2, <2>1 DEF InMemory, Top
<1>6. Written(files, changes)'
  BY <1>1, <1>2, <1>4, ContentsGrow DEF Written, store
<1>7. TypesInv'
  BY <1>1, <1>2, <1>4 DEF TypesInv, store
<1>8. /\ Stacked(calls, w)' /\ Told(files, filename, w, slip)' /\ calls' # <<>>
      /\ (Top.do = "written" => files[Top.name] = Out(w))'
  BY <1>1, <1>2 DEF store, Top, Told
<1>9. BoxInv' /\ EndsSaved'
  BY <1>1, <1>3, <1>8 DEF BoxInv, EndsSaved
<1> QED BY <1>5, <1>6, <1>7, <1>8, <1>9 DEF IInv, CallsInv, SymbolsInv, FilesInv

LEMMA InterruptStep ==
    ASSUME IInv, Interrupt
    PROVE  IInv'
<1> DEFINE c == Exit("signal")
<1>1. /\ ended = "no" /\ box # NoBox /\ calls # <<>> /\ Top # c /\ calls' = <<c>>
      /\ box' = NoBox /\ slip' = (slip \/ Top.do = "written")
      /\ UNCHANGED <<w, view, store, changes, ended>>
  BY Dialog DEF Interrupt
<1>2. /\ TypesInv /\ InMemory(Top, w, changes, slip)
      /\ Written(files, changes) /\ Told(files, filename, w, slip)
  BY <1>1, Running
<1>3. c \in Called /\ c.do = "exit"
  BY DEF Exit, ExitCall, Called
<1>4. c = Exit("signal")
  OBVIOUS
<1> HIDE DEF c
<1>5. Stacked(calls, w)' /\ Top' = c
  <2>1. <<c>> = <<c>> \o << >> /\ << >> \in Seq(Resting)
    OBVIOUS
  <2> QED BY <1>1, <1>3, <2>1, OverRest DEF Top
<1>6. InMemory(Top, w, changes, slip)'
  BY <1>1, <1>2, <1>4, <1>5 DEF InMemory
<1>7. /\ TypesInv' /\ Written(files, changes)' /\ Told(files, filename, w, slip)'
  BY <1>1, <1>2 DEF TypesInv, view, store, Written, Told
<1> QED BY <1>1, <1>3, <1>5, <1>6, <1>7, Prepared

\* Changes are counted, and what was possible before them still is.
LEMMA Grows ==
    ASSUME changes \in 0 .. MaxChanges, changes' \in {changes, changes + 1}, changes' <= MaxChanges
    PROVE  /\ changes' \in 0 .. MaxChanges
           /\ \A v \in Symbols(changes) : v \in Symbols(changes')
           /\ Contents(changes) \subseteq Contents(changes')
<1>1. CASE changes' = changes
  BY <1>1
<1>2. CASE changes' = changes + 1
  <2>1. changes \in Nat /\ changes < MaxChanges /\ changes' \in 0 .. MaxChanges
    BY <1>2, BoundsAreNat
  <2> QED BY <1>2, <2>1, SymbolsNext, ContentsGrow
<1> QED BY <1>1, <1>2

\* The steps that end a dialog: those that change nothing but the calls ...
LEMMA Goes ==
    ASSUME IInv, calls # <<>>, ended = "no", w \in Symbols(changes), box' = NoBox, Unseen,
           Stacked(calls', w), Head(calls').do # "written"
    PROVE  IInv'
<1>1. /\ TypesInv' /\ Written(files, changes)' /\ Told(files, filename, w, slip)'
      /\ InMemory(Top, w, changes, slip)' /\ Stacked(calls, w)' /\ Top'.do # "written"
      /\ ended' = "no"
  BY Running DEF Unseen, view, store, TypesInv, Written, Told, InMemory, Top
<1> QED BY <1>1, Prepared

\* ... those that change what is listed ...
LEMMA Relists ==
    ASSUME IInv, calls # <<>>, ended = "no", w \in Symbols(changes), box' = NoBox,
           UNCHANGED <<w, rows, single, seen, resized, store, ended, slip>>,
           showall' \in BOOLEAN, expanded' \in SUBSET Submenus, ~single => expanded' = {},
           changes' \in {changes, changes + 1}, changes' <= MaxChanges,
           Stacked(calls', w), Head(calls').do # "written"
    PROVE  IInv'
<1>1. /\ TypesInv /\ changes \in 0 .. MaxChanges
      /\ Written(files, changes) /\ Told(files, filename, w, slip)
  BY Running
<1>2. /\ TypesInv' /\ Written(files, changes)' /\ Told(files, filename, w, slip)'
      /\ InMemory(Top, w, changes, slip)' /\ Stacked(calls, w)' /\ Top'.do # "written"
      /\ ended' = "no"
  BY <1>1, Grows DEF store, TypesInv, Written, Told, InMemory, Top
<1> QED BY <1>2, Prepared

\* ... and those that change a symbol.
LEMMA Changed ==
    ASSUME IInv, calls # <<>>, ended = "no", w \in Symbols(changes), box' = NoBox,
           UNCHANGED <<view, store, ended, slip>>, NEW u, Change(u),
           changes < MaxEdits /\ changes < MaxChanges => Editing(Symbols(changes + 1), w, u),
           Stacked(calls', u), Head(calls').do # "written"
    PROVE  IInv'
<1>1. /\ TypesInv /\ changes \in 0 .. MaxChanges /\ changes \in Nat
      /\ Written(files, changes) /\ Told(files, filename, w, slip)
  BY Running
<1>2. /\ w' = u /\ changes' <= MaxChanges
      /\ \/ u = w /\ changes' = changes
         \/ u # w /\ changes' = changes + 1 /\ changes < MaxEdits
  BY <1>1 DEF Change, Early, Counted
<1>3. /\ changes' \in 0 .. MaxChanges
      /\ \A v \in Symbols(changes) : v \in Symbols(changes')
      /\ Contents(changes) \subseteq Contents(changes')
  BY <1>1, <1>2, Grows
<1>4. u \in Symbols(changes') /\ Kept(w, u)
  <2>1. CASE u = w
    BY <1>3, <2>1 DEF Kept
  <2>2. CASE u # w
    <3>1. changes' = changes + 1 /\ changes < MaxEdits /\ changes < MaxChanges
      BY <1>1, <1>2, <2>2, BoundsAreNat
    <3> QED BY <2>2, <3>1 DEF Editing
  <2> QED BY <2>1, <2>2
<1>5. Told(files, filename, u, slip)
  BY <1>1, <1>4, ToldStays
<1>6. /\ TypesInv' /\ Written(files, changes)' /\ Told(files, filename, w, slip)'
      /\ InMemory(Top, w, changes, slip)' /\ Stacked(calls, w)' /\ Top'.do # "written"
      /\ ended' = "no"
  BY <1>1, <1>2, <1>3, <1>4, <1>5 DEF view, store, TypesInv, Written, InMemory, Top
<1> QED BY <1>6, Prepared

LEMMA InAMenu ==
    ASSUME IInv, Chose
    PROVE  /\ calls # <<>> /\ ended = "no" /\ box' = NoBox
           /\ Top \in ConfCall /\ Tail(calls) \in Seq(Resting) /\ Stacked(calls, w)
           /\ w \in Symbols(changes) /\ changes \in 0 .. MaxChanges /\ TypesInv
           /\ MenuShown(box)
<1>1. ended = "no" /\ box.kind = "menu" /\ box' = NoBox /\ box # NoBox
  BY Kinds DEF Chose, Waiting, Finish
<1>2. calls # <<>> /\ Shows(box, Top, w, filename)
  BY <1>1, Dialog
<1>3. Top.do = "conf" /\ MenuShown(box)
  BY <1>1, <1>2, OfADialog
<1> QED BY <1>1, <1>2, <1>3, Running, OfACall

\* The cursor is on an entry that is listed, whose tag says what can be done with it.
LEMMA AtAnEntry ==
    ASSUME MenuShown(box)
    PROVE  /\ At.node \in Nodes \cup {NoNode} /\ box.scroll \in Nat
           /\ At.tag \in {"m", "t", "s"} => At.node \in Nodes /\ HasPrompt(At.node)
                                            /\ AtSym = SymOf(At.node)
           /\ At.tag = "m" => At.node \in Submenus
           /\ At.tag = "t" => AtSym \in Tristates
           /\ At.tag = "s" => AtSym \in Strings
<1>1. /\ box \in MenuBox(Entries) /\ IsListing(box.items) /\ MenuTrue(box)
  BY DEF MenuShown
<1>2. box.items \in Seq(Entries) /\ box.scroll \in Int /\ box.max \in Nat /\ box.choice \in Int
  BY <1>1, MenuFields DEF MenuBox
<1>3. box.scroll \in Nat /\ Len(box.items) \in Nat
  BY <1>1, <1>2 DEF MenuTrue
<1>4. CASE box.items = <<>>
  <2>1. At.node = NoNode /\ At.tag = "none"
    BY <1>4 DEF At
  <2> QED BY <1>3, <2>1
<1>5. CASE box.items # <<>>
  <2> DEFINE i == box.scroll + box.choice + 1
             e == box.items[i]
  <2>1. At = e
    BY <1>5 DEF At, Current
  <2>2. i \in DOMAIN box.items
    <3>1. 0 <= box.choice /\ box.choice < box.max /\ box.scroll + box.max <= Len(box.items)
      BY <1>1, <1>5 DEF MenuTrue
    <3>2. i \in 1 .. Len(box.items)
      BY <1>2, <1>3, <3>1
    <3> QED BY <1>2, <3>2
  <2> HIDE DEF i
  <2>3. /\ e \in Entries
        /\ e.tag = "m" => e.node \in Submenus
        /\ e.tag = "t" => SymOf(e.node) \in Tristates
        /\ e.tag = "s" => SymOf(e.node) \in Strings
    BY <1>1, <1>2, <2>2 DEF IsListing
  <2> HIDE DEF e
  <2>4. e.node \in Nodes /\ HasPrompt(e.node) /\ e.node # NoNode
    <3>1. NoNode \notin Nodes
      BY RootAssumption DEF NoNode
    <3> QED BY <2>3, <3>1 DEF Entries, Prompted
  <2>5. AtSym = SymOf(e.node)
    BY <2>1, <2>4 DEF AtSym
  <2> QED BY <1>3, <2>1, <2>3, <2>4, <2>5
<1> QED BY <1>4, <1>5

\* The menu it was chosen in waits, with the entry to come back to.
LEMMA OverAMenu ==
    ASSUME Top \in ConfCall, Tail(calls) \in Seq(Resting), MenuShown(box), NEW v
    PROVE  /\ Stacked(Here, v) /\ Head(Here).do = "conf"
           /\ \A c \in Called : (c.do = "choice" => IsYes(v, c.node)) =>
                Stacked(<<c>> \o Here, v) /\ Head(<<c>> \o Here) = c
<1> DEFINE d == [Top EXCEPT !.active = At.node, !.scroll = box.scroll]
           t == Tail(calls)
<1>1. d \in ConfCall /\ d.do = "conf"
  BY AtAnEntry DEF ConfCall
<1>2. Here = <<d>> \o t /\ t \in Seq(Resting)
  BY DEF Here
<1> HIDE DEF d, t
<1>3. d \in Resting /\ d \in Called
  BY <1>1, RestingIsCalled DEF Resting
<1>4. Here \in Seq(Resting) /\ Stacked(Here, v) /\ Head(Here) = d
  BY <1>1, <1>2, <1>3, Push, OverRest
<1> QED BY <1>1, <1>4, OverRest

\* What a menu can call.
LEMMA Callees ==
    /\ \A k \in Menus : Conf(k, NoNode) \in Called /\ Conf(k, NoNode).do = "conf"
    /\ \A k \in ChoiceNodes, s \in Syms : Choice(k, s) \in Called /\ Choice(k, s).do = "choice"
                                          /\ Choice(k, s).node = k
    /\ \A k \in Nodes : SymOf(k) \in Strings => String(k) \in Called /\ String(k).do = "string"
    /\ \A c \in {Load, Save, Search} : c \in Called /\ c.do \in {"load", "save", "search"}
    /\ \A c \in {Help, SetToMod, Refused} : c \in Called /\ c.do = "text"
<1>1. \A k \in Menus : Conf(k, NoNode) \in ConfCall /\ Conf(k, NoNode).do = "conf"
  BY DEF Conf, ConfCall
<1>2. \A k \in ChoiceNodes, s \in Syms : Choice(k, s) \in ChoiceCall /\ Choice(k, s).do = "choice"
                                         /\ Choice(k, s).node = k
  BY DEF Choice, ChoiceCall
<1>3. \A k \in Nodes : SymOf(k) \in Strings => String(k) \in StringCall /\ String(k).do = "string"
  BY DEF String, StringCall
<1>4. \A c \in {Load, Save, Search} : c \in NameCall /\ c.do \in {"load", "save", "search"}
  BY DEF Load, Save, Search, NameCall
<1>5. Help \in HelpCall /\ Help.do = "text"
  BY DialogsAssumption DEF Help, Text, HelpCall
<1>6. SetToMod \in MessageCall /\ SetToMod.do = "text"
  BY DEF SetToMod, Text, MessageCall
<1>7. Refused \in MessageCall /\ Refused.do = "text"
  BY DEF Refused, Text, MessageCall
<1> QED BY <1>1, <1>2, <1>3, <1>4, <1>5, <1>6, <1>7 DEF Called, Resting

LEMMA LeaveMenuStep ==
    ASSUME IInv, LeaveMenu
    PROVE  IInv'
<1>1. Chose /\ calls' = Popped(calls) /\ Unseen
  BY DEF LeaveMenu, Chose
<1>2. /\ calls # <<>> /\ ended = "no" /\ box' = NoBox /\ Stacked(calls, w)
      /\ w \in Symbols(changes)
  BY <1>1, InAMenu
<1>3. Stacked(Popped(calls), w) /\ Head(Popped(calls)).do # "written"
  BY <1>2, PoppedIsStacked
<1> QED BY <1>1, <1>2, <1>3, Goes

\* A menu that calls something else.
LEMMA CallStep ==
    ASSUME IInv, Chose, NEW c \in Called, Call(c), c.do # "written",
           c.do = "choice" => IsYes(w, c.node)
    PROVE  Stacked(calls', w) /\ Head(calls').do # "written"
<1>1. calls' = <<c>> \o Here /\ Stacked(<<c>> \o Here, w) /\ Head(<<c>> \o Here) = c
  BY InAMenu, OverAMenu DEF Call
<1> QED BY <1>1

LEMMA AskStep ==
    ASSUME IInv, AskHelp \/ AskSave \/ AskLoad \/ AskSearch \/ SpaceOnMenu
    PROVE  IInv'
<1>1. /\ Chose /\ Unseen
      /\ \/ \E c \in {Help, Load, Save, Search} : Call(c)
         \/ At.tag = "m" /\ Call(Conf(At.node, NoNode))
  BY DEF AskHelp, AskSave, AskLoad, AskSearch, SpaceOnMenu
<1>2. /\ calls # <<>> /\ ended = "no" /\ box' = NoBox /\ w \in Symbols(changes)
      /\ MenuShown(box)
  BY <1>1, InAMenu
<1>3. At.tag = "m" => At.node \in Menus
  BY <1>2, AtAnEntry DEF Submenus, Menus
<1>4. PICK c \in Called : Call(c) /\ c.do \notin {"written", "choice"}
  BY <1>1, <1>3, Callees
<1>5. Stacked(calls', w) /\ Head(calls').do # "written"
  BY <1>1, <1>4, CallStep
<1> QED BY <1>1, <1>2, <1>5, Goes

LEMMA ShowAllStep ==
    ASSUME IInv, ShowAll
    PROVE  IInv'
<1>1. /\ Chose /\ calls' = Here /\ showall' = ~showall
      /\ changes' = changes + 1 /\ changes' <= MaxChanges
      /\ UNCHANGED <<w, rows, single, expanded, seen, resized, store, ended, slip>>
  BY DEF ShowAll, Stay, Early, Counted
<1>2. /\ calls # <<>> /\ ended = "no" /\ box' = NoBox /\ w \in Symbols(changes)
      /\ MenuShown(box) /\ Top \in ConfCall /\ Tail(calls) \in Seq(Resting) /\ TypesInv
  BY <1>1, InAMenu
<1>3. Stacked(calls', w) /\ Head(calls').do # "written"
  BY <1>1, <1>2, OverAMenu
<1>4. showall' \in BOOLEAN /\ expanded' \in SUBSET Submenus /\ (~single => expanded' = {})
  BY <1>1, <1>2 DEF TypesInv
<1> QED BY <1>1, <1>2, <1>3, <1>4, Relists

LEMMA EnterStep ==
    ASSUME IInv, Enter
    PROVE  IInv'
<1>1. /\ Chose
      /\ UNCHANGED <<w, rows, showall, single, seen, resized, store, ended, slip>>
  BY DEF Enter
<1>2. /\ calls # <<>> /\ ended = "no" /\ box' = NoBox /\ w \in Symbols(changes)
      /\ changes \in 0 .. MaxChanges
      /\ MenuShown(box) /\ Top \in ConfCall /\ Tail(calls) \in Seq(Resting) /\ TypesInv
  BY <1>1, InAMenu
<1>3. /\ At.tag \in {"m", "t", "s"} => At.node \in Nodes /\ HasPrompt(At.node)
                                       /\ AtSym = SymOf(At.node)
      /\ At.tag = "m" => At.node \in Submenus
      /\ At.tag = "s" => AtSym \in Strings
  BY <1>2, AtAnEntry
<1>4. Stacked(calls', w) /\ Head(calls').do # "written"
  <2>1. CASE calls' = Here
    BY <1>2, <2>1, OverAMenu
  <2>2. CASE At.tag = "m" /\ Call(Conf(At.node, NoNode))
    <3>1. Conf(At.node, NoNode) \in Called /\ Conf(At.node, NoNode).do = "conf"
      BY <1>3, <2>2, Callees DEF Submenus, Menus
    <3> QED BY <1>1, <2>2, <3>1, CallStep
  <2>3. CASE /\ At.tag = "t" /\ AtSym \in ChoiceSyms /\ w.tri[AtSym] = 2
             /\ Call(Choice(At.node, w.chosen[AtSym]))
    <3>1. At.node \in ChoiceNodes /\ AtSym = SymOf(At.node) /\ IsYes(w, At.node)
      BY <1>3, <2>3 DEF ChoiceNodes, IsYes
    <3>2. w.chosen[AtSym] \in Syms
      BY <1>2, <3>1, SymbolsNow
    <3> DEFINE c == Choice(At.node, w.chosen[AtSym])
    <3>3. c \in Called /\ c.do = "choice" /\ c.node = At.node
      BY <3>1, <3>2, Callees
    <3> HIDE DEF c
    <3>4. Call(c)
      BY <2>3 DEF c
    <3> QED BY <1>1, <3>1, <3>3, <3>4, CallStep
  <2>4. CASE At.tag = "t" /\ IsMenuConfig /\ Call(Conf(At.node, NoNode))
    <3>1. At.node \in Menus
      BY <1>3, <2>4 DEF IsMenuConfig, IsMenu, Menus
    <3>2. Conf(At.node, NoNode) \in Called /\ Conf(At.node, NoNode).do = "conf"
      BY <3>1, Callees
    <3> QED BY <1>1, <2>4, <3>2, CallStep
  <2>5. CASE At.tag = "s" /\ Call(String(At.node))
    <3>1. String(At.node) \in Called /\ String(At.node).do = "string"
      BY <1>3, <2>5, Callees
    <3> QED BY <1>1, <2>5, <3>1, CallStep
  <2> QED BY <2>1, <2>2, <2>3, <2>4, <2>5 DEF Enter, Stay
<1>5. /\ showall' \in BOOLEAN /\ expanded' \in SUBSET Submenus /\ (~single => expanded' = {})
      /\ changes' \in {changes, changes + 1} /\ changes' <= MaxChanges
  <2>1. /\ expanded' \in {expanded, expanded \ {At.node}, expanded \cup {At.node}}
        /\ expanded' # expanded => At.tag = "m" /\ single
    BY DEF Enter
  <2>2. expanded' \in SUBSET Submenus /\ (~single => expanded' = {})
    BY <1>2, <1>3, <2>1 DEF TypesInv
  <2>3. changes' \in {changes, changes + 1} /\ changes' <= MaxChanges
    BY <1>2 DEF Enter, Early, Counted
  <2> QED BY <1>1, <1>2, <2>2, <2>3 DEF TypesInv
<1> QED BY <1>1, <1>2, <1>4, <1>5, Relists

LEMMA Edited ==
    ASSUME w \in Symbols(changes), changes \in 0 .. MaxChanges,
           changes < MaxEdits, changes < MaxChanges
    PROVE  /\ \A s \in Tristates : Editing(Symbols(changes + 1), w, SymToggle(w, s))
           /\ \A s \in Tristates, t \in 0 .. 2 :
                SymCanBe(w, s, t) => Editing(Symbols(changes + 1), w, SymSetTristate(w, s, t))
           /\ \A s \in Strings : \A str \in Answers \cup {w.str[s]} :
                SymStringCanBe(w, s, str) => Editing(Symbols(changes + 1), w, SymSetString(w, s, str))
           /\ Editing(Symbols(changes + 1), w, w)
<1>1. Edits(Symbols(changes + 1), w)
  BY SymbolsNext
<1> QED BY <1>1 DEF Edits, Editing

LEMMA SetStep ==
    ASSUME IInv, SetYes \/ (\E v \in {0, 1} : SetTo(v)) \/ Space
    PROVE  IInv'
<1>1. Chose /\ At.tag = "t" /\ UNCHANGED <<view, store, ended, slip>>
  BY DEF SetYes, SetTo, Space, OnSymbol
<1>2. /\ calls # <<>> /\ ended = "no" /\ box' = NoBox /\ w \in Symbols(changes)
      /\ changes \in 0 .. MaxChanges
      /\ MenuShown(box) /\ Top \in ConfCall /\ Tail(calls) \in Seq(Resting)
  BY <1>1, InAMenu
<1>3. AtSym \in Tristates
  BY <1>1, <1>2, AtAnEntry
<1>4. /\ \E u : /\ Change(u)
                /\ \/ u = w
                   \/ u = SymToggle(w, AtSym)
                   \/ \E t \in 0 .. 2 : SymCanBe(w, AtSym, t) /\ u = SymSetTristate(w, AtSym, t)
      /\ calls' = Here \/ Call(SetToMod)
  <2>1. CASE SetYes
    BY <2>1 DEF SetYes, Stay
  <2>2. ASSUME NEW v \in {0, 1}, SetTo(v)
        PROVE  /\ Change(IF SymCanBe(w, AtSym, v) THEN SymSetTristate(w, AtSym, v) ELSE w)
               /\ calls' = Here /\ v \in 0 .. 2
    BY <2>2 DEF SetTo, Stay
  <2>3. CASE Space
    BY <2>3 DEF Space, Stay
  <2>4. CASE \E v \in {0, 1} : SetTo(v)
    BY <2>2, <2>4
  <2> QED BY <2>1, <2>3, <2>4
<1>5. PICK u : /\ Change(u)
               /\ \/ u = w
                  \/ u = SymToggle(w, AtSym)
                  \/ \E t \in 0 .. 2 : SymCanBe(w, AtSym, t) /\ u = SymSetTristate(w, AtSym, t)
  BY <1>4
<1>6. changes < MaxEdits /\ changes < MaxChanges => Editing(Symbols(changes + 1), w, u)
  BY <1>2, <1>3, <1>5, Edited
<1>7. Stacked(calls', u) /\ Head(calls').do # "written"
  <2>1. CASE calls' = Here
    BY <1>2, <2>1, OverAMenu
  <2>2. CASE Call(SetToMod)
    <3>1. SetToMod \in Called /\ SetToMod.do = "text"
      BY Callees
    <3>2. Stacked(<<SetToMod>> \o Here, u) /\ Head(<<SetToMod>> \o Here) = SetToMod
      BY <1>2, <3>1, OverAMenu
    <3> QED BY <2>2, <3>1, <3>2 DEF Call
  <2> QED BY <1>4, <2>1, <2>2
<1> QED BY <1>1, <1>2, <1>5, <1>6, <1>7, Changed

LEMMA InMenuStep == ASSUME IInv, InMenu PROVE IInv'
<1>1. SetTo(0) \/ SetTo(1) => \E v \in {0, 1} : SetTo(v)
  OBVIOUS
<1> QED BY <1>1, LeaveMenuStep, EnterStep, AskStep, ShowAllStep, SetStep DEF InMenu

LEMMA InAChoice ==
    ASSUME IInv, Waiting("list"), Finish
    PROVE  /\ calls # <<>> /\ ended = "no" /\ box' = NoBox
           /\ Top \in ChoiceCall /\ Top \in Called /\ Tail(calls) \in Seq(Resting)
           /\ Stacked(calls, w) /\ IsYes(w, Top.node)
           /\ w \in Symbols(changes) /\ changes \in 0 .. MaxChanges
           /\ ListShown(box)
<1>1. ended = "no" /\ box.kind = "list" /\ box' = NoBox /\ box # NoBox
  BY Kinds DEF Waiting, Finish
<1>2. calls # <<>> /\ Shows(box, Top, w, filename)
  BY <1>1, Dialog
<1>3. Top.do = "choice" /\ ListShown(box)
  BY <1>1, <1>2, OfADialog
<1> QED BY <1>1, <1>2, <1>3, Running, OfACall

\* The cursor is on a value that is listed, or on a comment between them.
LEMMA AtAValue ==
    ASSUME ListShown(box)
    PROVE  /\ box.items # <<>> /\ Current(box).node \in Nodes
           /\ SymOf(Current(box).node) \in Tristates \cup {NoSym}
<1>1. /\ box \in ListBox(Entries) /\ Values(box.items) /\ MenuTrue(box) /\ box.items # <<>>
  BY DEF ListShown
<1> DEFINE i == box.scroll + box.choice + 1
<1>2. i \in DOMAIN box.items
  <2>1. box.items \in Seq(Entries) /\ box.scroll \in Int /\ box.max \in Nat /\ box.choice \in Int
    BY <1>1 DEF ListBox
  <2>2. /\ 0 <= box.scroll /\ 0 <= box.choice /\ box.choice < box.max
        /\ box.scroll + box.max <= Len(box.items) /\ Len(box.items) \in Nat
    BY <1>1, <2>1 DEF MenuTrue
  <2>3. i \in 1 .. Len(box.items)
    BY <2>1, <2>2
  <2> QED BY <2>1, <2>3
<1>3. Current(box) = box.items[i]
  BY DEF Current
<1> HIDE DEF i
<1>4. box.items[i] \in Entries
  BY <1>1, <1>2 DEF ListBox
<1> QED BY <1>1, <1>2, <1>3, <1>4 DEF Values, Entries, Prompted

LEMMA LeaveChoiceStep ==
    ASSUME IInv, LeaveChoice
    PROVE  IInv'
<1>1. Waiting("list") /\ Finish /\ calls' = Popped(calls) /\ Unseen
  BY DEF LeaveChoice, Return
<1>2. Stacked(Popped(calls), w) /\ Head(Popped(calls)).do # "written"
  BY <1>1, InAChoice, PoppedIsStacked
<1> QED BY <1>1, <1>2, InAChoice, Goes

\* What a choice or a field returns to waits, whatever becomes of the symbols.
LEMMA ReturnsToRest ==
    ASSUME calls \in Seq(Called), calls # <<>>, Tail(calls) \in Seq(Resting), NEW v
    PROVE  Stacked(Popped(calls), v) /\ Head(Popped(calls)).do # "written"
<1>1. Stacked(Popped(calls), v) /\ Head(Popped(calls)).do \notin {"text", "written"}
  <2> DEFINE c == Exit("main")
             s == <<c>> \o Tail(calls)
  <2>1. c \in Called /\ c.do = "exit"
    BY DEF Exit, Called, ExitCall
  <2> HIDE DEF c
  <2>2. Stacked(s, v) /\ Tail(s) = Tail(calls) /\ Len(s) = Len(calls)
    <3>1. Stacked(s, v)
      BY <2>1, OverRest
    <3>2. Tail(s) = Tail(calls) /\ Len(s) = Len(calls)
      BY <2>1
    <3> QED BY <3>1, <3>2
  <2> HIDE DEF s
  <2>3. Popped(s) = Popped(calls)
    BY <2>2 DEF Popped
  <2> QED BY <2>2, <2>3, PoppedIsStacked
<1> QED BY <1>1

LEMMA SetChoiceStep ==
    ASSUME IInv, SetChoice
    PROVE  IInv'
<1> DEFINE s == SymOf(Current(box).node)
           u == IF s # NoSym /\ SymCanBe(w, s, 2) THEN SymSetTristate(w, s, 2) ELSE w
<1>1. Waiting("list") /\ Finish /\ UNCHANGED <<view, store, ended, slip>>
  BY DEF SetChoice
<1>2. /\ calls # <<>> /\ ended = "no" /\ box' = NoBox
      /\ Top \in ChoiceCall /\ Top \in Called /\ Tail(calls) \in Seq(Resting)
      /\ Stacked(calls, w) /\ w \in Symbols(changes) /\ changes \in 0 .. MaxChanges
      /\ ListShown(box)
  BY <1>1, InAChoice
<1>3. box.items # <<>> /\ s \in Tristates \cup {NoSym}
  BY <1>2, AtAValue
<1>4. Change(u) /\ (IF s = NoSym THEN calls' = calls ELSE calls' = Popped(calls))
  BY <1>3 DEF SetChoice, Return
<1>5. u = w \/ (s # NoSym /\ SymCanBe(w, s, 2) /\ u = SymSetTristate(w, s, 2))
  OBVIOUS
<1>6. s = NoSym => u = w
  OBVIOUS
<1> HIDE DEF s, u
<1>7. changes < MaxEdits /\ changes < MaxChanges => Editing(Symbols(changes + 1), w, u)
  BY <1>2, <1>3, <1>5, Edited
<1>8. Stacked(calls', u) /\ Head(calls').do # "written"
  <2>1. CASE s = NoSym
    <3>1. Top.do = "choice"
      BY <1>2 DEF ChoiceCall
    <3> QED BY <1>2, <1>4, <1>6, <2>1, <3>1 DEF Top
  <2>2. CASE s # NoSym
    <3>1. calls \in Seq(Called) /\ calls' = Popped(calls)
      BY <1>2, <1>4, <2>2, OfAStack
    <3> QED BY <1>2, <3>1, ReturnsToRest
  <2> QED BY <2>1, <2>2
<1> QED BY <1>1, <1>2, <1>4, <1>7, <1>8, Changed

LEMMA HelpOnChoiceStep ==
    ASSUME IInv, HelpOnChoice
    PROVE  IInv'
<1> DEFINE c == [Top EXCEPT !.active = SymOf(Current(box).node)]
           t == Tail(calls)
<1>1. Waiting("list") /\ Finish /\ Unseen
  BY DEF HelpOnChoice
<1>2. /\ calls # <<>> /\ ended = "no" /\ box' = NoBox
      /\ Top \in ChoiceCall /\ t \in Seq(Resting)
      /\ IsYes(w, Top.node) /\ w \in Symbols(changes)
      /\ ListShown(box)
  BY <1>1, InAChoice
<1>3. box.items # <<>> /\ Current(box).node \in Nodes
  BY <1>2, AtAValue
<1>4. calls' = <<Help, c>> \o t
  BY <1>3 DEF HelpOnChoice
<1>5. c \in ChoiceCall /\ c.do = "choice" /\ c.node = Top.node
  BY <1>2, <1>3 DEF ChoiceCall, Syms
<1>6. c \in Called /\ IsYes(w, c.node)
  BY <1>2, <1>5 DEF Called
<1> HIDE DEF c, t
<1>7. AtRest(<<c>> \o t, w) /\ <<c>> \o t \in Seq(Called) /\ Head(<<c>> \o t) = c
  <2>1. t \in Seq(Called)
    BY <1>2, RestingIsCalled, Widen
  <2>2. /\ <<c>> \o t \in Seq(Called) /\ <<c>> \o t # <<>> /\ Head(<<c>> \o t) = c
        /\ Tail(<<c>> \o t) = t
    BY <1>6, <2>1, Push
  <2> QED BY <1>2, <1>6, <2>2 DEF AtRest
<1>8. Help \in Called /\ Help.do = "text"
  BY Callees
<1>9. Stacked(calls', w) /\ Head(calls').do # "written"
  <2> DEFINE h == Help
             s == <<c>> \o t
  <2>1. calls' = <<h>> \o s
    BY <1>2, <1>4
  <2>2. h \in Called /\ h.do = "text" /\ s \in Seq(Called) /\ AtRest(s, w) /\ Head(s).do = "choice"
    BY <1>5, <1>7, <1>8
  <2> HIDE DEF h, s
  <2>3. calls' \in Seq(Called) /\ calls' # <<>> /\ Head(calls') = h /\ Tail(calls') = s
    BY <2>1, <2>2, Push
  <2> QED BY <2>2, <2>3 DEF Stacked
<1> QED BY <1>1, <1>2, <1>9, Goes

LEMMA InChoiceStep == ASSUME IInv, InChoice PROVE IInv'
BY LeaveChoiceStep, SetChoiceStep, HelpOnChoiceStep DEF InChoice

LEMMA InAField ==
    ASSUME IInv, Waiting("input"), Finish
    PROVE  /\ calls # <<>> /\ calls \in Seq(Called) /\ ended = "no" /\ box' = NoBox
           /\ Top \in Resting /\ Tail(calls) \in Seq(Resting) /\ Stacked(calls, w)
           /\ w \in Symbols(changes) /\ changes \in 0 .. MaxChanges
           /\ Top.do = "string" => Top \in StringCall
                                   /\ box.text \in {w.str[SymOf(Top.node)], "other"}
           /\ Top.do \in {"load", "save"} => box.text \in {filename, "other"}
<1>1. ended = "no" /\ box.kind = "input" /\ box' = NoBox /\ box # NoBox
  BY Kinds DEF Waiting, Finish
<1>2. calls # <<>> /\ Shows(box, Top, w, filename)
  BY <1>1, Dialog
<1>3. /\ Top.do \in {"string", "load", "save", "search"}
      /\ Top.do = "string" => box.text \in {w.str[SymOf(Top.node)], "other"}
      /\ Top.do \in {"load", "save"} => box.text \in {filename, "other"}
  BY <1>1, <1>2, OfADialog
<1>4. /\ Top \in Called /\ Stacked(calls, w) /\ changes \in 0 .. MaxChanges
      /\ w \in Symbols(changes) /\ Tail(calls) \in Seq(Resting)
  BY <1>1, <1>2, <1>3, Running
<1> QED BY <1>1, <1>2, <1>3, <1>4, OfACall, OfAStack

\* A field is left, waits under a message or becomes something else.
LEMMA FieldGoes ==
    ASSUME calls # <<>>, calls \in Seq(Called), Top \in Resting, Tail(calls) \in Seq(Resting), NEW v
    PROVE  /\ Return => Stacked(calls', v) /\ Head(calls').do # "written"
           /\ \A c \in {Help, Refused} :
                Tell(c) => Stacked(calls', v) /\ Head(calls').do # "written"
           /\ \A c \in Called : Become(c) /\ c.do # "choice" => Stacked(calls', v) /\ Head(calls') = c
<1>1. ASSUME Return PROVE Stacked(calls', v) /\ Head(calls').do # "written"
  BY <1>1, ReturnsToRest DEF Return
<1>2. ASSUME NEW c \in {Help, Refused}, Tell(c) PROVE Stacked(calls', v) /\ Head(calls').do # "written"
  <2>1. calls \in Seq(Resting)
    <3>1. calls = <<Top>> \o Tail(calls)
      BY DEF Top
    <3> QED BY <3>1, Push
  <2>2. c \in Called /\ c.do = "text"
    BY <1>2, Callees
  <2> QED BY <1>2, <2>1, <2>2, OverRest DEF Tell
<1>3. ASSUME NEW c \in Called, Become(c), c.do # "choice" PROVE Stacked(calls', v) /\ Head(calls') = c
  BY <1>3, OverRest DEF Become
<1> QED BY <1>1, <1>2, <1>3

LEMMA LeaveFieldStep ==
    ASSUME IInv, LeaveField \/ HelpOnField \/ TakeNothing
    PROVE  IInv'
<1>1. Waiting("input") /\ Finish /\ Unseen /\ (Return \/ Tell(Help))
  BY DEF LeaveField, HelpOnField, TakeNothing, Accept, InField
<1>2. /\ calls # <<>> /\ calls \in Seq(Called) /\ ended = "no" /\ box' = NoBox
      /\ Top \in Resting /\ Tail(calls) \in Seq(Resting) /\ w \in Symbols(changes)
  BY <1>1, InAField
<1>3. Stacked(calls', w) /\ Head(calls').do # "written"
  BY <1>1, <1>2, FieldGoes
<1> QED BY <1>1, <1>2, <1>3, Goes

LEMMA TakeSearchStep ==
    ASSUME IInv, TakeSearch
    PROVE  IInv'
<1>1. Waiting("input") /\ Finish /\ Unseen
  BY DEF TakeSearch, Accept, InField
<1>2. /\ calls # <<>> /\ calls \in Seq(Called) /\ ended = "no" /\ box' = NoBox
      /\ Top \in Resting /\ Tail(calls) \in Seq(Resting) /\ w \in Symbols(changes)
  BY <1>1, InAField
<1>3. PICK r \in Results : Become(Found(r))
  BY DEF TakeSearch
<1> DEFINE c == Found(r)
<1>4. c \in Called /\ c.do = "found"
  <2>1. << >> \in Seq([line : Nat, node : Places])
    OBVIOUS
  <2>2. c \in FoundCall /\ c.do = "found"
    BY <2>1 DEF Found, FoundCall
  <2> QED BY <2>2 DEF Called, Resting
<1>5. Become(c)
  BY <1>3
<1> HIDE DEF c
<1>6. Stacked(calls', w) /\ Head(calls').do # "written"
  BY <1>2, <1>4, <1>5, FieldGoes
<1> QED BY <1>1, <1>2, <1>6, Goes

LEMMA TakeStringStep ==
    ASSUME IInv, TakeString
    PROVE  IInv'
<1> DEFINE s == SymOf(Top.node)
<1>1. /\ Waiting("input") /\ Finish /\ Top.do = "string"
      /\ UNCHANGED <<view, store, ended, slip>>
  BY DEF TakeString, Accept, InField
<1>2. /\ calls # <<>> /\ calls \in Seq(Called) /\ ended = "no" /\ box' = NoBox
      /\ Top \in Resting /\ Tail(calls) \in Seq(Resting)
      /\ w \in Symbols(changes) /\ changes \in 0 .. MaxChanges
      /\ Top \in StringCall /\ box.text \in {w.str[s], "other"}
  BY <1>1, InAField
<1>3. s \in Strings
  BY <1>2 DEF StringCall
<1>4. \E str \in Typed(Answers) :
        IF SymStringCanBe(w, s, str) THEN Change(SymSetString(w, s, str)) /\ Return
                                     ELSE Change(w) /\ Tell(Refused)
  BY DEF TakeString
<1> HIDE DEF s
<1>5. PICK str \in Typed(Answers) :
        IF SymStringCanBe(w, s, str) THEN Change(SymSetString(w, s, str)) /\ Return
                                     ELSE Change(w) /\ Tell(Refused)
  BY <1>4
<1>6. str \in Answers \cup {w.str[s]}
  BY <1>2 DEF Typed
<1>7. CASE SymStringCanBe(w, s, str)
  <2> DEFINE u == SymSetString(w, s, str)
  <2>1. Change(u) /\ Return
    BY <1>5, <1>7
  <2>2. changes < MaxEdits /\ changes < MaxChanges => Editing(Symbols(changes + 1), w, u)
    BY <1>2, <1>3, <1>6, <1>7, Edited
  <2> HIDE DEF u
  <2>3. Stacked(calls', u) /\ Head(calls').do # "written"
    BY <1>2, <2>1, FieldGoes
  <2> QED BY <1>1, <1>2, <2>1, <2>2, <2>3, Changed
<1>8. CASE ~SymStringCanBe(w, s, str)
  <2>1. Change(w) /\ Tell(Refused)
    BY <1>5, <1>8
  <2>2. Stacked(calls', w) /\ Head(calls').do # "written"
    BY <1>2, <2>1, FieldGoes
  <2>3. Editing(Symbols(changes + 1), w, w)
    BY DEF Editing
  <2> QED BY <1>1, <1>2, <2>1, <2>2, <2>3, Changed
<1> QED BY <1>7, <1>8

\* A name is one of those the files go by.
LEMMA ANameIsTyped ==
    ASSUME IInv, Top.do \in {"load", "save"}, Waiting("input"), Finish, NEW name \in Typed(Range(Names))
    PROVE  name \in Range(Names)
<1>1. box.text \in {filename, "other"} /\ filename \in Range(Names)
  BY InAField DEF IInv, TypesInv
<1> QED BY <1>1 DEF Typed

LEMMA TakeLoadStep ==
    ASSUME IInv, TakeLoad
    PROVE  IInv'
<1>1. /\ Waiting("input") /\ Finish /\ Top.do = "load"
      /\ changes' = changes + 1 /\ changes' <= MaxChanges
      /\ UNCHANGED <<view, saving, files, ended>>
  BY DEF TakeLoad, Accept, InField, Counted
<1>2. /\ calls # <<>> /\ calls \in Seq(Called) /\ ended = "no" /\ box' = NoBox
      /\ Top \in Resting /\ Tail(calls) \in Seq(Resting)
      /\ w \in Symbols(changes) /\ changes \in 0 .. MaxChanges
  BY <1>1, InAField
<1>3. TypesInv /\ Written(files, changes) /\ Told(files, filename, w, slip)
  BY <1>2, Running
<1>4. PICK name \in Range(Names) : LoadFile(name)
  BY <1>1, ANameIsTyped DEF TakeLoad
<1>5. changes \in Nat /\ changes < MaxChanges /\ changes' \in 0 .. MaxChanges
  BY <1>1, <1>2, BoundsAreNat
<1>6. /\ Forgets(Symbols(changes + 1), w)
      /\ \A f \in Contents(changes) \ {Missing} : Reads(Symbols(changes + 1), w, f)
  BY <1>2, <1>5, SymbolsNext
<1>7. Written(files, changes)'
  BY <1>1, <1>3, <1>5, ContentsGrow DEF Written
<1>8. CASE files[name] = Missing
  <2>1. /\ w' = SymCalc(Unchanged(w), ModulesSym) /\ slip' = (slip \/ w.changed)
        /\ filename' = filename /\ Tell(Refused)
    BY <1>4, <1>8 DEF LoadFile
  <2>2. w' \in Symbols(changes') /\ (w.changed \/ Out(w') = Out(w))
    BY <1>1, <1>6, <2>1 DEF Forgets
  <2>3. Stacked(calls', w') /\ Head(calls').do # "written"
    BY <1>2, <2>1, FieldGoes
  <2>4. w.changed \in BOOLEAN
    BY <1>2, SymbolsNow
  <2>5. TypesInv'
    BY <1>1, <1>3, <1>5, <2>1, <2>4 DEF TypesInv, view
  <2>6. Told(files, filename, w, slip)'
    BY <1>1, <1>3, <2>1, <2>2 DEF Told
  <2> QED BY <1>1, <1>2, <1>7, <2>2, <2>3, <2>5, <2>6, Prepared DEF InMemory, Top
<1>9. CASE files[name] # Missing
  <2>1. /\ w' = [ConfRead(w, files[name]) EXCEPT !.changed = TRUE] /\ slip' = FALSE
        /\ filename' = name /\ Return
    BY <1>4, <1>9 DEF LoadFile
  <2>2. w' \in Symbols(changes') /\ w'.changed
    <3>1. Reads(Symbols(changes + 1), w, files[name])
      BY <1>3, <1>4, <1>6, <1>9 DEF Written
    <3> QED BY <1>1, <2>1, <3>1 DEF Reads
  <2>3. Stacked(calls', w') /\ Head(calls').do # "written"
    BY <1>2, <2>1, FieldGoes
  <2>4. TypesInv'
    BY <1>1, <1>3, <1>4, <1>5, <2>1 DEF TypesInv, view
  <2>5. Told(files, filename, w, slip)'
    BY <2>2 DEF Told
  <2> QED BY <1>1, <1>2, <1>7, <2>2, <2>3, <2>4, <2>5, Prepared DEF InMemory, Top
<1> QED BY <1>8, <1>9

LEMMA TakeSaveStep ==
    ASSUME IInv, TakeSave
    PROVE  IInv'
<1>1. /\ Waiting("input") /\ Finish /\ Top.do = "save"
      /\ changes' = changes + 1 /\ changes' <= MaxChanges
      /\ UNCHANGED <<view, saving, ended>>
  BY DEF TakeSave, Accept, InField, Counted
<1>2. /\ calls # <<>> /\ calls \in Seq(Called) /\ ended = "no" /\ box' = NoBox
      /\ Top \in Resting /\ Tail(calls) \in Seq(Resting)
      /\ w \in Symbols(changes) /\ changes \in 0 .. MaxChanges
  BY <1>1, InAField
<1>3. TypesInv /\ Written(files, changes) /\ Told(files, filename, w, slip)
  BY <1>2, Running
<1>4. PICK name \in Range(Names) : SaveFile(name)
  BY <1>1, ANameIsTyped DEF TakeSave
<1>5. changes \in Nat /\ changes < MaxChanges /\ changes' \in 0 .. MaxChanges
  BY <1>1, <1>2, BoundsAreNat
<1>6. CASE name \in Unwritable
  <2>1. Tell(Refused) /\ UNCHANGED <<w, files, filename, slip>>
    BY <1>4, <1>6 DEF SaveFile
  <2>2. Stacked(calls', w') /\ Head(calls').do # "written"
    BY <1>2, <2>1, FieldGoes
  <2>3. TypesInv' /\ Written(files, changes)' /\ Told(files, filename, w, slip)'
    BY <1>1, <1>3, <1>5, <2>1, ContentsGrow DEF TypesInv, view, Written, Told
  <2>4. w' \in Symbols(changes')
    BY <1>1, <1>2, <1>5, <2>1, SymbolsNext
  <2> QED BY <1>1, <1>2, <2>2, <2>3, <2>4, Prepared DEF InMemory, Top
<1>7. CASE name \notin Unwritable
  <2> DEFINE r == ConfWrite(w)
  <2>1. /\ files' = [files EXCEPT ![name] = r.file]
        /\ \/ Return /\ Accounted(r.w, name)
           \/ Become(SavedTo(name)) /\ w' = r.w /\ UNCHANGED <<filename, slip>>
    BY <1>4, <1>7 DEF SaveFile
  <2>2. Kept(w, r.w) /\ Unchanged(r.w) \in Symbols(changes) /\ Out(r.w) = r.file
    BY <1>2, SymbolsNow DEF Writes
  <2>3. r.file \in Contents(changes + 1)
    BY <1>2, <1>5, ContentsGrow
  <2> HIDE DEF r
  <2>4. DOMAIN files = Range(Names) /\ files'[name] = r.file
    BY <1>3, <2>1 DEF TypesInv
  <2>5. Written(files, changes)'
    BY <1>1, <1>3, <1>5, <2>1, <2>3, <2>4, ContentsGrow DEF Written
  <2>6. Unchanged(r.w) \in Symbols(changes')
    BY <1>1, <1>2, <1>5, <2>2, SymbolsNext
  <2>7. CASE Return /\ Accounted(r.w, name)
    <3>1. w' = Unchanged(r.w) /\ filename' = name /\ slip' = FALSE
      BY <2>7 DEF Accounted
    <3>2. Stacked(calls', w') /\ Head(calls').do # "written"
      BY <1>2, <2>7, FieldGoes
    <3>3. TypesInv'
      BY <1>1, <1>3, <1>5, <2>1, <3>1 DEF TypesInv, view
    <3>4. Told(files, filename, w, slip)'
      BY <2>2, <2>4, <3>1, StillUnchanged DEF Told
    <3> QED BY <1>1, <1>2, <2>5, <2>6, <3>1, <3>2, <3>3, <3>4, Prepared DEF InMemory, Top
  <2>8. CASE Become(SavedTo(name)) /\ w' = r.w /\ UNCHANGED <<filename, slip>>
    <3> DEFINE c == SavedTo(name)
    <3>1. c \in WrittenCall /\ c.do = "written" /\ c.name = name
      BY DEF SavedTo, WrittenCall
    <3>2. c \in Called /\ Become(c)
      BY <2>8, <3>1 DEF Called
    <3> HIDE DEF c
    <3>3. Stacked(calls', w') /\ Head(calls') = c
      BY <1>2, <3>1, <3>2, FieldGoes
    <3>4. TypesInv'
      BY <1>1, <1>3, <1>5, <2>1, <2>8 DEF TypesInv, view
    <3>5. Told(files, filename, r.w, slip)
      BY <1>3, <2>2, ToldStays
    <3>6. Told(files, filename, w, slip)'
      BY <1>3, <2>1, <2>2, <2>4, <2>8, <3>5 DEF Told, TypesInv
    <3>7. InMemory(Top, w, changes, slip)'
      BY <2>6, <2>8, <3>1, <3>3 DEF InMemory, Top
    <3>8. (Top.do = "written" => files[Top.name] = Out(w))'
      BY <2>2, <2>4, <2>8, <3>1, <3>3 DEF Top
    <3> QED BY <1>1, <1>2, <2>5, <3>3, <3>4, <3>6, <3>7, <3>8, Prepared
  <2> QED BY <2>1, <2>7, <2>8
<1> QED BY <1>6, <1>7

LEMMA InInputStep == ASSUME IInv, InInput PROVE IInv'
BY LeaveFieldStep, TakeSearchStep, TakeStringStep, TakeLoadStep, TakeSaveStep DEF InInput

\* After the message that a file was written, it counts as the one the changes are in.
LEMMA Accounts ==
    ASSUME IInv, calls # <<>>, ended = "no", Top.do = "written", box' = NoBox,
           calls' = Popped(calls), Accounted(w, Top.name),
           UNCHANGED <<view, saving, files, changes, ended>>
    PROVE  IInv'
<1>1. /\ TypesInv /\ changes \in 0 .. MaxChanges /\ Stacked(calls, w) /\ Top \in WrittenCall
      /\ InMemory(Top, w, changes, slip) /\ Written(files, changes) /\ files[Top.name] = Out(w)
      /\ Tail(calls) \in Seq(Resting)
  BY Running, OfACall
<1>2. w' = Unchanged(w) /\ filename' = Top.name /\ slip' = FALSE
  BY DEF Accounted
<1>3. Unchanged(w) \in Symbols(changes)
  <2>1. w \in Symbols(changes) => Unchanged(w) \in Symbols(changes)
    BY <1>1, SymbolsNow DEF Writes
  <2> QED BY <1>1, <2>1 DEF InMemory, Exit
<1>4. Stacked(calls', w') /\ Head(calls').do # "written"
  BY <1>1, OfAStack, ReturnsToRest
<1>5. TypesInv' /\ Written(files, changes)'
  BY <1>1, <1>2 DEF TypesInv, view, Written, WrittenCall
<1>6. Told(files, filename, w, slip)'
  BY <1>1, <1>2, StillUnchanged DEF Told
<1> QED BY <1>2, <1>3, <1>4, <1>5, <1>6, Prepared DEF InMemory, Top

LEMMA InAText ==
    ASSUME IInv, Waiting("text"), Finish
    PROVE  /\ calls # <<>> /\ ended = "no" /\ box' = NoBox
           /\ Top.do \in {"text", "written", "found"} /\ TextShown(box)
<1>1. ended = "no" /\ box.kind = "text" /\ box' = NoBox /\ box # NoBox
  BY Kinds DEF Waiting, Finish
<1>2. calls # <<>> /\ Shows(box, Top, w, filename)
  BY <1>1, Dialog
<1> QED BY <1>1, <1>2, OfADialog

LEMMA LeaveTextStep ==
    ASSUME IInv, LeaveText \/ LeaveWritten
    PROVE  IInv'
<1>1. Waiting("text") /\ Finish
  BY DEF LeaveText, LeaveWritten
<1>2. calls # <<>> /\ ended = "no" /\ box' = NoBox
  BY <1>1, InAText
<1>3. CASE LeaveText
  <2>1. Top.do \in {"text", "found"} /\ calls' = Popped(calls) /\ Unseen
    BY <1>3 DEF LeaveText, Return
  <2>2. Stacked(calls, w) /\ w \in Symbols(changes)
    BY <1>2, <2>1, Running
  <2>3. Stacked(calls', w) /\ Head(calls').do # "written"
    BY <2>1, <2>2, PoppedIsStacked
  <2> QED BY <1>2, <2>1, <2>2, <2>3, Goes
<1>4. CASE LeaveWritten
  BY <1>2, <1>4, Accounts DEF LeaveWritten, Return
<1> QED BY <1>3, <1>4

LEMMA LeftAtALine == ASSUME NEW b \in TextBox PROVE LeftAt(b) \in Nat
<1> DEFINE n == b.len
           k == IF n > 0 /\ b.page = b.lines /\ b.end THEN n - 1 ELSE Max2(0, n)
<1>1. b.page \in Int /\ n \in Int
  BY TextFields
<1>2. k \in Int
  BY <1>1 DEF Max2
<1>3. LeftAt(b) = Max2(0, b.page - k)
  BY DEF LeftAt, BackLines, TextBox
<1> HIDE DEF n, k
<1> QED BY <1>1, <1>2, <1>3 DEF Max2

LEMMA JumpStep ==
    ASSUME IInv, Jump
    PROVE  IInv'
<1>1. Waiting("text") /\ Finish /\ Top.do = "found" /\ Unseen
  BY DEF Jump
<1>2. calls # <<>> /\ ended = "no" /\ box' = NoBox /\ TextShown(box)
  BY <1>1, InAText
<1>3. Top \in FoundCall /\ Tail(calls) \in Seq(Resting) /\ w \in Symbols(changes)
  BY <1>1, <1>2, Running, OfACall
<1>4. PICK t \in Range(Top.targets) :
        calls' = <<Conf(ParentOf(t.node), t.node), [Top EXCEPT !.from = LeftAt(box)]>> \o Tail(calls)
  BY DEF Jump
<1> DEFINE c == Conf(ParentOf(t.node), t.node)
           d == [Top EXCEPT !.from = LeftAt(box)]
           s == Tail(calls)
<1>5. c \in ConfCall /\ c.do = "conf"
  <2>1. Top.targets \in Seq([line : Nat, node : Places])
    BY <1>3 DEF FoundCall
  <2>2. t \in [line : Nat, node : Places]
    BY <2>1, OfARange
  <2>3. t.node \in Nodes /\ ParentOf(t.node) \in Menus
    BY <2>2 DEF Places
  <2> QED BY <2>3 DEF Conf, ConfCall
<1>6. d \in FoundCall
  BY <1>2, <1>3, LeftAtALine DEF TextShown, FoundCall
<1>7. calls' = <<c, d>> \o s /\ s \in Seq(Resting)
  BY <1>3, <1>4
<1>8. c \in Called /\ d \in Resting /\ c \in Resting
  BY <1>5, <1>6 DEF Called, Resting
<1> HIDE DEF c, d, s
<1>9. <<d>> \o s \in Seq(Resting) /\ <<c, d>> \o s = <<c>> \o (<<d>> \o s)
  <2>1. c \in Resting
    BY <1>8
  <2>2. d \in Resting
    BY <1>8
  <2>3. s \in Seq(Resting)
    BY <1>7
  <2> QED BY <2>1, <2>2, <2>3, PushTwo
<1>10. Stacked(calls', w) /\ Head(calls').do # "written"
  BY <1>5, <1>7, <1>8, <1>9, OverRest
<1> QED BY <1>1, <1>2, <1>3, <1>10, Goes

LEMMA InTextStep == ASSUME IInv, InText PROVE IInv'
BY LeaveTextStep, JumpStep DEF InText

LEMMA AtTheEnd ==
    ASSUME IInv, Waiting("yesno"), Finish
    PROVE  /\ calls # <<>> /\ ended = "no" /\ box' = NoBox
           /\ Top.do = "exit" /\ Top \in ExitCall /\ Stacked(calls, w) /\ TypesInv
           /\ changes \in 0 .. MaxChanges /\ (~slip => w \in Symbols(changes))
           /\ Top # Exit("signal") => w \in Symbols(changes)
           /\ Written(files, changes) /\ Told(files, filename, w, slip)
<1>1. ended = "no" /\ box.kind = "yesno" /\ box' = NoBox /\ box # NoBox
  BY Kinds DEF Waiting, Finish
<1>2. calls # <<>> /\ Shows(box, Top, w, filename)
  BY <1>1, Dialog
<1>3. Top.do = "exit"
  BY <1>1, <1>2, OfADialog
<1>4. /\ Top \in ExitCall /\ Stacked(calls, w) /\ TypesInv /\ changes \in 0 .. MaxChanges
      /\ InMemory(Top, w, changes, slip)
      /\ Written(files, changes) /\ Told(files, filename, w, slip)
  BY <1>1, <1>2, <1>3, Running, OfACall
<1> QED BY <1>1, <1>2, <1>3, <1>4 DEF InMemory

LEMMA YesStep ==
    ASSUME IInv, Yes
    PROVE  IInv'
<1> DEFINE r == ConfWrite(w)
<1>1. /\ Waiting("yesno") /\ Finish /\ ended' = "saved"
      /\ w' = Unchanged(r.w) /\ files' = [files EXCEPT ![filename] = r.file]
      /\ UNCHANGED <<calls, view, saving, filename, changes, slip>>
  BY DEF Yes
<1>2. /\ calls # <<>> /\ box' = NoBox /\ Top.do = "exit" /\ Stacked(calls, w) /\ TypesInv
      /\ changes \in 0 .. MaxChanges /\ (~slip => w \in Symbols(changes))
  BY <1>1, AtTheEnd
<1>3. ~slip => Out(r.w) = r.file
  BY <1>2, SymbolsNow DEF Writes
<1> HIDE DEF r
<1>4. files'[filename] = r.file /\ TypesInv' /\ slip \in BOOLEAN
  BY <1>1, <1>2 DEF TypesInv, view
<1>5. slip' \/ files'[filename'] = Out(w')
  BY <1>1, <1>3, <1>4, StillUnchanged
<1>6. Stacked(calls, w)' /\ Top' = Top
  BY <1>1, <1>2 DEF Stacked, AtRest, Top
<1>7. CallsInv' /\ BoxInv' /\ SymbolsInv' /\ FilesInv' /\ EndsSaved'
  BY <1>1, <1>2, <1>5, <1>6 DEF CallsInv, BoxInv, SymbolsInv, FilesInv, EndsSaved, Told
<1> QED BY <1>4, <1>7 DEF IInv

LEMMA NoStep ==
    ASSUME IInv, No
    PROVE  IInv'
<1>1. /\ Waiting("yesno") /\ Finish /\ ended' = "discarded"
      /\ UNCHANGED <<w, calls, view, store, changes, slip>>
  BY DEF No
<1>2. /\ calls # <<>> /\ box' = NoBox /\ Top.do = "exit" /\ Stacked(calls, w) /\ TypesInv
      /\ Told(files, filename, w, slip)
  BY <1>1, AtTheEnd
<1>3. /\ TypesInv' /\ Stacked(calls, w)' /\ Told(files, filename, w, slip)' /\ Top' = Top
  BY <1>1, <1>2 DEF TypesInv, view, store, Told, Top
<1> QED BY <1>1, <1>2, <1>3 DEF IInv, CallsInv, BoxInv, SymbolsInv, FilesInv, EndsSaved

LEMMA ContinueStep ==
    ASSUME IInv, Continue
    PROVE  IInv'
<1>1. /\ Waiting("yesno") /\ Finish /\ UNCHANGED <<w, view, store, changes, slip>>
      /\ IF Top = Exit("main") THEN calls' = <<Conf(0, NoNode)>> /\ ended' = ended
                               ELSE calls' = calls /\ ended' = "discarded"
  BY DEF Continue
<1>2. /\ calls # <<>> /\ ended = "no" /\ box' = NoBox /\ Top.do = "exit" /\ Stacked(calls, w)
      /\ TypesInv /\ Told(files, filename, w, slip) /\ Written(files, changes)
      /\ Top # Exit("signal") => w \in Symbols(changes)
  BY <1>1, AtTheEnd
<1>3. TypesInv' /\ Told(files, filename, w, slip)' /\ Written(files, changes)'
  BY <1>1, <1>2 DEF TypesInv, view, store, Told, Written
<1>4. CASE Top = Exit("main")
  <2> DEFINE c == Conf(0, NoNode)
  <2>1. calls' = <<c>> /\ ended' = ended
    BY <1>1, <1>4
  <2>2. c \in Called /\ c.do = "conf"
    BY RootAssumption DEF Conf, Menus, ConfCall, Resting, Called
  <2> HIDE DEF c
  <2>3. Stacked(calls, w)' /\ Top' = c
    <3>1. <<c>> = <<c>> \o << >> /\ << >> \in Seq(Resting)
      OBVIOUS
    <3> QED BY <2>1, <2>2, <3>1, OverRest DEF Top
  <2>4. w \in Symbols(changes)
    BY <1>2, <1>4 DEF Exit
  <2>5. InMemory(Top, w, changes, slip)'
    BY <1>1, <2>4 DEF InMemory
  <2> QED BY <1>2, <1>3, <2>1, <2>2, <2>3, <2>5, Prepared
<1>5. CASE Top # Exit("main")
  <2>1. calls' = calls /\ ended' = "discarded" /\ w' = w /\ Top' = Top
    BY <1>1, <1>5 DEF Top
  <2> QED BY <1>2, <1>3, <2>1 DEF IInv, CallsInv, BoxInv, SymbolsInv, FilesInv, EndsSaved
<1> QED BY <1>4, <1>5

LEMMA GiveUpStep ==
    ASSUME IInv, GiveUp
    PROVE  IInv'
<1>1. /\ ended = "no" /\ box # NoBox /\ box' = NoBox
      /\ UNCHANGED <<view, saving, files, changes>>
      /\ ended' = IF Top.do = "exit" THEN "discarded" ELSE ended
      /\ calls' = IF Top.do = "exit" THEN calls ELSE Popped(calls)
      /\ IF Top.do = "written" THEN Accounted(w, Top.name) ELSE UNCHANGED <<w, filename, slip>>
  BY Kinds DEF GiveUp, Waiting, Finish
<1>2. calls # <<>>
  BY <1>1, Dialog
<1>3. /\ TypesInv /\ Stacked(calls, w) /\ Told(files, filename, w, slip)
      /\ Top.do \notin {"written", "exit"} => w \in Symbols(changes)
  BY <1>1, <1>2, Running
<1>4. CASE Top.do = "exit"
  <2>1. calls' = calls /\ ended' = "discarded" /\ w' = w /\ Top' = Top /\ UNCHANGED <<filename, slip>>
    BY <1>1, <1>4 DEF Top
  <2>2. TypesInv' /\ Told(files, filename, w, slip)' /\ Stacked(calls, w)'
    BY <1>1, <1>3, <2>1 DEF TypesInv, view, Told
  <2> QED BY <1>1, <1>2, <1>4, <2>1, <2>2
          DEF IInv, CallsInv, BoxInv, SymbolsInv, FilesInv, EndsSaved
<1>5. CASE Top.do = "written"
  BY <1>1, <1>2, <1>5, Accounts
<1>6. CASE Top.do \notin {"exit", "written"}
  <2>1. Unseen /\ calls' = Popped(calls) /\ w \in Symbols(changes)
    BY <1>1, <1>3, <1>6 DEF Unseen, store
  <2>2. Stacked(calls', w) /\ Head(calls').do # "written"
    BY <1>3, <2>1, PoppedIsStacked
  <2> QED BY <1>1, <1>2, <2>1, <2>2, Goes
<1> QED BY <1>4, <1>5, <1>6

-----------------------------------------------------------------------------
(***************************************************************************)
(* The theorems                                                            *)
(***************************************************************************)

\* The invariant holds at first.
LEMMA InitStep == ASSUME Init PROVE IInv
<1>1. Names[1] \in Range(Names)
  BY OfNames
<1> DEFINE fs == [n \in Range(Names) |-> IF n = Names[1] THEN FirstConfig ELSE Missing]
<1>2. files = fs /\ filename = Names[1] /\ DOMAIN fs = Range(Names) /\ fs[Names[1]] = FirstConfig
  BY <1>1 DEF Init
<1>3. TypesInv
  <2>1. rows \in Sizes /\ changes \in 0 .. MaxChanges
    BY BoundsAreNat DEF Init
  <2>2. /\ showall \in BOOLEAN /\ single \in BOOLEAN /\ seen \in BOOLEAN
        /\ resized \in BOOLEAN /\ slip \in BOOLEAN
    BY Zenon DEF Init
  <2>3. expanded = {}
    BY Zenon DEF Init
  <2> QED BY <1>1, <1>2, <2>1, <2>2, <2>3 DEF TypesInv
<1>4. Idle /\ BoxInv /\ SymbolsInv /\ EndsSaved
  BY <1>1, <1>2 DEF Init, Idle, BoxInv, SymbolsInv, EndsSaved
<1>5. Written(files, changes)
  BY <1>2 DEF Init, Written, Contents
<1> QED BY <1>3, <1>4, <1>5 DEF IInv, CallsInv, FilesInv, Idle

\* ... and every step keeps it.
LEMMA NextStep == ASSUME IInv, [Next]_vars PROVE IInv'
<1>1. CASE Showing
  BY <1>1, ShowMenuStep, ShowChoiceStep, ShowFieldStep, ShowTextStep, ShowFoundStep, ShowExitStep
     DEF Showing
<1>2. CASE InExit
  BY <1>2, YesStep, NoStep, ContinueStep DEF InExit
<1>3. CASE Start \/ Move \/ Interrupt \/ GiveUp \/ \E r \in Sizes : Resize(r)
  BY <1>3, StartStep, MoveStep, InterruptStep, GiveUpStep, ResizeStep
<1>4. CASE InMenu \/ InChoice \/ InInput \/ InText
  BY <1>4, InMenuStep, InChoiceStep, InInputStep, InTextStep
<1>5. CASE UNCHANGED vars
  BY <1>5 DEF vars, dialogs, view, store, IInv, TypesInv, CallsInv, BoxInv, SymbolsInv, FilesInv,
              EndsSaved, Idle, Top, Written, Told
<1> QED BY <1>1, <1>2, <1>3, <1>4, <1>5 DEF Next

\* The invariant holds for any keys, sizes of the terminal and interrupts: the variables keep
\* their types, the calls of mconf.c nest as they can, the box shows what the innermost call
\* put there, and the symbols and files agree as far as EndsSaved needs.
THEOREM MenuconfigInvariant == Spec => []IInv
<1>1. Init => IInv
  BY InitStep
<1>2. IInv /\ [Next]_vars => IInv'
  BY NextStep
<1> QED BY <1>1, <1>2, PTL DEF Spec

\* What is on the screen is what the keys act on: entries, lines and characters whatever
\* happened to the dialog since it was opened, buttons and the first row of a menu until the
\* terminal changes its size under it (ScreenIsTrue).
THEOREM MenuconfigScreen == Spec => []ScreenIsTrue
<1>1. IInv => ScreenIsTrue
  <2>1. ASSUME IInv, box # NoBox PROVE ScreenIsTrue
    <3>1. Shows(box, Top, w, filename) /\ (~resized => Fresh(box))
      BY <2>1 DEF IInv, BoxInv
    <3>2. ~resized => ButtonsAreTrue /\ (box.kind = "menu" => box.skew = 0)
      BY <3>1 DEF Fresh, ButtonsAreTrue
    <3>3. EntriesAreTrue
      <4>1. CASE box.kind = "menu"
        BY <3>1, <3>2, <4>1, OfADialog DEF EntriesAreTrue, MenuShown
      <4>2. CASE box.kind = "list"
        BY <3>1, <4>2, OfADialog DEF EntriesAreTrue, ListShown
      <4>3. CASE box.kind = "text"
        BY <3>1, <4>3, OfADialog DEF EntriesAreTrue, TextShown, TextSound
      <4>4. CASE box.kind = "input"
        BY <3>1, <4>4, OfADialog DEF EntriesAreTrue, FieldShown
      <4> QED BY <4>1, <4>2, <4>3, <4>4 DEF EntriesAreTrue
    <3> QED BY <3>2, <3>3 DEF ScreenIsTrue
  <2>2. ASSUME box = NoBox PROVE ScreenIsTrue
    BY <2>2, Kinds DEF ScreenIsTrue, EntriesAreTrue, ButtonsAreTrue
  <2> QED BY <2>1, <2>2
<1> QED BY <1>1, MenuconfigInvariant, PTL

\* Whoever leaves with the changes saved has them in the file, unless the program had
\* forgotten of them in one of the two ways it can (EndsSaved).
THEOREM MenuconfigSaves == Spec => []EndsSaved
<1>1. IInv => EndsSaved
  BY DEF IInv
<1> QED BY <1>1, MenuconfigInvariant, PTL

\* A menu is only shown by conf.
LEMMA OnlyMenusAreMenus ==
    ASSUME IInv, IInv', [Next]_vars, box = NoBox, box'.kind = "menu"
    PROVE  ShowMenu
<1>1. box' # NoBox
  BY Kinds
<1>2. calls' # <<>> /\ Top'.do = "conf"
  <2>1. Shows(box, Top, w, filename)' /\ calls' # <<>>
    BY <1>1 DEF IInv, BoxInv
  <2> QED BY <2>1, OfADialog
<1>3. ~Move /\ (\A r \in Sizes : ~Resize(r))
  BY Kinds DEF Move, Moves, Resize
<1>4. ~(InMenu \/ InChoice \/ InInput \/ InText \/ InExit \/ GiveUp \/ Interrupt)
  <2>1. InMenu => Finish
    BY DEF InMenu, LeaveMenu, Enter, AskHelp, AskSave, AskLoad, AskSearch, ShowAll, SetYes, SetTo,
           Space, SpaceOnMenu, OnSymbol, Chose
  <2>2. InChoice \/ InInput => Finish
    BY DEF InChoice, LeaveChoice, SetChoice, HelpOnChoice, InInput, LeaveField, HelpOnField,
           TakeString, TakeLoad, TakeSave, TakeNothing, TakeSearch, Accept, InField
  <2>3. InText \/ InExit \/ GiveUp \/ Interrupt => Finish
    BY DEF InText, LeaveText, LeaveWritten, Jump, InExit, Yes, No, Continue, GiveUp, Interrupt, Finish
  <2> QED BY <1>1, <2>1, <2>2, <2>3 DEF Finish
<1>5. ~Start /\ ~UNCHANGED vars
  BY <1>1 DEF Start, vars, dialogs
<1>6. ~ShowChoice /\ ~ShowString /\ ~ShowName /\ ~ShowSearch /\ ~ShowText /\ ~ShowExit
  BY <1>2 DEF ShowChoice, ShowString, ShowName, ShowSearch, ShowText, ShowExit, Preparing, ShowBox, Top
<1>7. ~ShowFound
  <2>1. ASSUME ShowFound PROVE Top'.do = "found"
    <3> DEFINE c == [Top EXCEPT !.targets = JumpTargets(w, Top.result.prompts).targets]
    <3>1. /\ calls # <<>> /\ ended = "no" /\ Top.do = "found"
          /\ calls' = <<c>> \o Tail(calls)
      BY <2>1 DEF ShowFound, Preparing
    <3>2. Top \in FoundCall /\ Tail(calls) \in Seq(Resting)
      BY <3>1, Running, OfACall
    <3>3. c.do = "found"
      BY <3>1, <3>2 DEF FoundCall
    <3> HIDE DEF c
    <3> QED BY <3>1, <3>2, <3>3 DEF Top
  <2> QED BY <1>2, <2>1
<1> QED BY <1>3, <1>4, <1>5, <1>6, <1>7 DEF Next, Showing

LEMMA OnTheEntry ==
    ASSUME NEW b, MenuShown(b), NEW node, OnIt(b, node),
           NEW i \in DOMAIN b.items, b.items[i].node = node
    PROVE  Current(b) = b.items[i]
<1> DEFINE j == b.scroll + b.choice + 1
<1>1. /\ b \in MenuBox(Entries) /\ IsListing(b.items) /\ MenuTrue(b)
  BY DEF MenuShown
<1>2. b.items \in Seq(Entries) /\ b.scroll \in Int /\ b.max \in Nat /\ b.choice \in Int
  BY <1>1, MenuFields DEF MenuBox
<1>3. j \in DOMAIN b.items
  <2>1. b.items # <<>> /\ Len(b.items) \in Nat
    BY <1>2
  <2>2. /\ 0 <= b.choice /\ b.choice < b.max
        /\ 0 <= b.scroll /\ b.scroll + b.max <= Len(b.items)
    BY <1>1, <2>1 DEF MenuTrue
  <2>3. j \in 1 .. Len(b.items)
    BY <1>2, <2>1, <2>2
  <2> QED BY <1>2, <2>3
<1>4. Current(b) = b.items[j]
  BY DEF Current
<1> HIDE DEF j
<1>5. b.items[j].node = node
  BY <1>4 DEF OnIt
<1>6. j = i
  BY <1>1, <1>3, <1>5 DEF IsListing
<1> QED BY <1>4, <1>6

\* The menu that comes back has the cursor on the entry that was used, if it is still listed
\* (CursorKept).
THEOREM MenuconfigCursor == Spec => CursorKept
<1> DEFINE Kept1 == box = NoBox /\ box'.kind = "menu" =>
                      \A i \in DOMAIN box'.items :
                        box'.items[i].node = Top.active => Current(box') = box'.items[i]
<1>1. ASSUME IInv, IInv', [Next]_vars PROVE Kept1
  <2> SUFFICES ASSUME box = NoBox, box'.kind = "menu",
                      NEW i \in DOMAIN box'.items, box'.items[i].node = Top.active
               PROVE  Current(box') = box'.items[i]
    OBVIOUS
  <2>1. ShowMenu
    BY <1>1, OnlyMenusAreMenus
  <2> DEFINE r == MenuItems(w, Top.node, Shown)
  <2>2. calls # <<>> /\ ended = "no" /\ Top.do = "conf"
    BY <2>1 DEF ShowMenu, Preparing
  <2>3. /\ Top \in ConfCall /\ w \in Symbols(changes) /\ changes \in 0 .. MaxChanges /\ TypesInv
    BY <1>1, <2>2, Running, OfACall
  <2>4. Top.node \in Menus /\ Top.scroll \in Nat /\ rows \in Nat /\ Shown \in Views
    BY <2>3, ShownIsAView, BoundsAreNat DEF ConfCall, TypesInv
  <2>5. box' # NoBox /\ box' # TooSmall
    BY Kinds
  <2>6. box' = OpenMenu(r.items, Top.active, Top.scroll, rows)
    BY <2>1, <2>5 DEF ShowMenu
  <2>7. IsListing(r.items)
    BY <2>3, <2>4, SymbolsNow DEF Lists
  <2> HIDE DEF r
  <2>8. MenuShown(box') /\ OnIt(box', Top.active)
    BY <2>4, <2>5, <2>6, <2>7, MenuOpens
  <2> QED BY <2>8, OnTheEntry
<1>2. IInv /\ IInv' /\ [Next]_vars => [Kept1]_vars
  BY <1>1
<1>3. Spec => [][Kept1]_vars
  BY <1>2, MenuconfigInvariant, PTL DEF Spec
<1> QED BY <1>3 DEF CursorKept

=============================================================================
