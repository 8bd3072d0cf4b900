------------------------------- MODULE LxDialog -------------------------------
(* The dialogs the menu program shows, support/kconfig/lxdialog. A dialog is a  *)
(* record, a key an operator that gives the next one; the drawing is left out   *)
(* but for which entries and which lines are on the screen, and which button is *)
(* highlighted: "button" is the one Enter presses, "drawn" the one drawn as     *)
(* selected. Pressing a key that ends the dialog belongs to the caller (MConf). *)
EXTENDS Integers, Sequences

CONSTANTS ListHeight,   \* rows of a list of alternatives (6 in the program)
          BoxWidth,     \* columns of an input field (69 in the program)
          MaxLen        \* bound: length of what is typed (MAX_LEN)

ASSUME DialogAssumption ==
    ListHeight \in Nat \ {0} /\ BoxWidth \in Nat \ {0} /\ MaxLen \in Nat

Min2(a, b) == IF a < b THEN a ELSE b
Max2(a, b) == IF a > b THEN a ELSE b
Turn(button, step, n) == (button + step + n) % n      \* the buttons go round

NoBox   == [kind |-> "none"]
TooSmall == [kind |-> "toosmall"]                      \* ERRDISPLAYTOOSMALL

------------------------------------------------------------------------------
(* dialog_menu: "items" are the entries, of which "max" are shown. Keys act from *)
(* "scroll" on, the cursor being in row "choice"; the rows were drawn from       *)
(* "first" on, and "skew" is how far that is off.                                *)

MenuRows(rows) == rows - 14

(* The cursor is put on the selected entry, in the same row as before when the  *)
(* saved scroll position still allows it, else near the middle. On a change of  *)
(* size this is done again, but "first" is not reset; nor is "button", though   *)
(* the first button is drawn as the selected one.                               *)
MutPlaced(b, saved) ==
    IF saved <= b.choice /\ saved + b.max > b.choice /\ saved + b.max <= Len(b.items)
    THEN [b EXCEPT !.first = saved, !.scroll = saved]
    ELSE [b EXCEPT !.scroll = 0]
Placed(b, saved) ==
    IF saved <= b.choice /\ saved + b.max > b.choice /\ saved + b.max <= Len(b.items)
    THEN [b EXCEPT !.first = saved, !.scroll = saved, !.choice = @ - saved]
    ELSE [b EXCEPT !.scroll = 0]

Centred(b) ==
    LET n   == Len(b.items)
        top == IF b.choice >= n - b.max \div 2 THEN n - b.max ELSE b.choice - b.max \div 2
    IN  IF b.choice < b.max THEN b
        ELSE [b EXCEPT !.first = top, !.scroll = top, !.choice = @ - top]

OnEntry(b, selected) ==
    IF \E i \in DOMAIN b.items : b.items[i].node = selected
    THEN [b EXCEPT !.choice = (CHOOSE i \in DOMAIN b.items : b.items[i].node = selected) - 1]
    ELSE b

Drawn(b) == [b EXCEPT !.skew = b.first - b.scroll, !.drawn = 0]

LayMenu(b, selected, saved, rows) ==
    IF rows < 15 THEN TooSmall
    ELSE Drawn(Centred(Placed(OnEntry([b EXCEPT !.max = Min2(MenuRows(rows), Len(b.items))],
                                      selected), saved)))

OpenMenu(items, selected, saved, rows) ==
    LayMenu([kind |-> "menu", items |-> items, max |-> 0, scroll |-> 0, choice |-> 0,
             first |-> 0, skew |-> 0, button |-> 0, drawn |-> 0], selected, saved, rows)

(* Drawing entries that are not there ends the program.                         *)
DrawnBeyond(b) == b.kind = "menu" /\ b.items # <<>> /\ b.first + b.max > Len(b.items)

ScrollMenu(b, n) == [b EXCEPT !.scroll = @ + n]

MenuUp(b)   == IF b.choice < 2 /\ b.scroll # 0 THEN ScrollMenu(b, -1)
               ELSE [b EXCEPT !.choice = Max2(@ - 1, 0)]
MutMenuDown(b) == IF b.choice > b.max - 3 THEN ScrollMenu(b, 1)
                  ELSE [b EXCEPT !.choice = Min2(@ + 1, b.max - 1)]
MenuDown(b) == IF b.choice > b.max - 3 /\ b.scroll + b.max < Len(b.items) THEN ScrollMenu(b, 1)
               ELSE [b EXCEPT !.choice = Min2(@ + 1, b.max - 1)]

(* A page is as many steps as there are rows, scrolling while it is possible.   *)
MenuPageUp(b) ==
    LET k == Min2(b.max, b.scroll)
    IN  [ScrollMenu(b, -k) EXCEPT !.choice = Max2(0, @ - (b.max - k))]
MenuPageDown(b) ==
    LET k == Min2(b.max, Len(b.items) - b.max - b.scroll)
    IN  [ScrollMenu(b, k) EXCEPT !.choice = Min2(b.max - 1, @ + (b.max - k))]

(* A letter goes to a row that begins with it.                                  *)
MenuMoves(b) ==
    IF b.items = <<>> THEN {b}
    ELSE {MenuUp(b), MenuDown(b), MenuPageUp(b), MenuPageDown(b)}
         \cup {[b EXCEPT !.choice = i] : i \in 0 .. b.max - 1}

Current(b) == b.items[b.scroll + b.choice + 1]

------------------------------------------------------------------------------
(* dialog_checklist: one of several alternatives.                               *)

ListPlaced(b) ==
    IF b.choice < ListHeight THEN b
    ELSE [b EXCEPT !.scroll = b.choice - ListHeight + 1, !.choice = ListHeight - 1]
LayList(b, rows) == IF rows < 21 THEN TooSmall ELSE [ListPlaced(b) EXCEPT !.drawn = 0]

(* The cursor is on the entry asked for, or on the one that is set.             *)
OpenList(items, at, rows) ==
    LayList([kind |-> "list", items |-> items, max |-> Min2(ListHeight, Len(items)),
             scroll |-> 0, choice |-> at, button |-> 0, drawn |-> 0], rows)

ListUp(b)   == IF b.choice # 0 THEN [b EXCEPT !.choice = @ - 1]
               ELSE [b EXCEPT !.scroll = Max2(0, @ - 1)]
ListDown(b) == IF b.choice # b.max - 1 THEN [b EXCEPT !.choice = @ + 1]
               ELSE IF b.scroll + b.choice >= Len(b.items) - 1 THEN b
               ELSE [b EXCEPT !.scroll = @ + 1]

ListMoves(b) == {ListUp(b), ListDown(b)} \cup {[b EXCEPT !.choice = i] : i \in 0 .. b.max - 1}

------------------------------------------------------------------------------
(* dialog_textbox. "page" is the line the program stands at, the end of the text*)
(* being line "lines"; "top" is the first line shown, of "h" rows. A text that  *)
(* ends in a newline ("ended") has an empty line at its end. Only search results*)
(* have "jumps".                                                                *)

Count(b) == IF b.ended THEN b.lines + 1 ELSE b.lines    \* of the lines to be shown

(* get_line, n times                                                            *)
GetLines(b, n) == IF n = 0 THEN b
                  ELSE [b EXCEPT !.page = Min2(b.lines, @ + n), !.end = b.page + n >= Count(b)]

(* back_lines: the end of the text, once seen, counts as a line.                *)
BackLines(b, n) ==
    LET k == IF n > 0 /\ b.page = b.lines /\ b.end THEN n - 1 ELSE Max2(0, n)
    IN  [b EXCEPT !.page  = Max2(0, @ - k),
                  !.end   = @ /\ ~(n > 0 /\ b.page = b.lines),
                  !.begin = k > 0 /\ b.page <= k]

(* print_page: where the page ends is looked up first when there are jumps.     *)
WhereEnds(b) == IF b.jumps THEN BackLines(GetLines(b, b.h), b.h) ELSE b
Printed(b) ==
    GetLines([b EXCEPT !.top = b.page,
                       !.len = Min2(b.h, Max2(1, Count(b) - b.page))], b.h)
PrintPage(b) == Printed(WhereEnds(b))

BoxRows(fixed, rows) == (IF fixed # 0 THEN fixed ELSE rows - 4) - 4

LayText(b, rows) == IF rows < 8 THEN TooSmall
                    ELSE PrintPage([b EXCEPT !.h = BoxRows(b.fixed, rows)])

OpenText(lines, ended, fixed, jumps, from, rows) ==
    LayText(GetLines([kind |-> "text", lines |-> lines, ended |-> ended, fixed |-> fixed,
                      jumps |-> jumps, page |-> 0, top |-> 0, len |-> 0, h |-> 0,
                      begin |-> from = 0, end |-> FALSE], from), rows)

TextHome(b)     == IF b.begin THEN b ELSE PrintPage([b EXCEPT !.begin = TRUE, !.page = 0])
TextEnd(b)      == PrintPage(BackLines([b EXCEPT !.end = TRUE, !.page = b.lines], b.h))
TextUp(b)       == IF b.begin THEN b ELSE PrintPage(BackLines(b, b.len + 1))
TextPageUp(b)   == IF b.begin THEN b ELSE PrintPage(BackLines(b, b.len + b.h))
TextDown(b)     == IF b.end THEN b ELSE PrintPage(BackLines(b, b.len - 1))
TextPageDown(b) == IF b.end THEN b ELSE PrintPage([b EXCEPT !.begin = FALSE])
TextSide(b)     == PrintPage(BackLines(b, b.len))

TextMoves(b) == {TextHome(b), TextEnd(b), TextUp(b), TextPageUp(b), TextDown(b),
                 TextPageDown(b), TextSide(b)}

(* On a change of size it goes back by the rows of the old window.              *)
ResizeText(b, rows) == LayText(BackLines(b, b.h + 4), rows)

(* What the caller is told, to open it there again.                             *)
LeftAt(b) == BackLines(b, b.len).page

------------------------------------------------------------------------------
(* dialog_inputbox: the cursor is before character "pos" of "len", in column "x"*)
(* of a field whose first character is "show"; "button" is -1 in the field, and *)
(* "drawn" when the cursor is there. A change of size puts the cursor there.    *)

LayInput(b, rows) ==
    IF rows <= b.height - 2 THEN TooSmall
    ELSE [b EXCEPT !.pos  = b.len,
                   !.show = IF b.len >= BoxWidth THEN b.len - BoxWidth + 1 ELSE 0,
                   !.x    = IF b.len >= BoxWidth THEN BoxWidth - 1 ELSE b.len,
                   !.drawn = -1]

OpenInput(text, len, height, rows) ==
    LayInput([kind |-> "input", text |-> text, len |-> len, height |-> height, pos |-> 0,
              show |-> 0, x |-> 0, button |-> -1, drawn |-> -1], rows)

Leftwards(b)  == [b EXCEPT !.pos = @ - 1, !.show = IF b.x = 0 THEN @ - 1 ELSE @,
                           !.x = IF b.x = 0 THEN 0 ELSE @ - 1]
Rightwards(b) == [b EXCEPT !.pos = @ + 1, !.show = IF b.x = BoxWidth - 1 THEN @ + 1 ELSE @,
                           !.x = IF b.x = BoxWidth - 1 THEN @ ELSE @ + 1]

(* "other" is the text that is changed.                                         *)
InputLeft(b)   == IF b.pos = 0 THEN b ELSE Leftwards(b)
InputRight(b)  == IF b.pos = b.len THEN b ELSE Rightwards(b)
InputErase(b)  == IF b.pos = 0 THEN b ELSE [Leftwards(b) EXCEPT !.len = @ - 1, !.text = "other"]
InputInsert(b) == IF b.len = MaxLen THEN b
                  ELSE [Rightwards(b) EXCEPT !.len = @ + 1, !.text = "other"]

Select(b, button)  == [b EXCEPT !.button = button, !.drawn = button]
InputTurn(b, step) == Select(b, Turn(b.button + 1, step, 3) - 1)

InputMoves(b) ==
    {InputTurn(b, 1), InputTurn(b, -1)}
    \cup IF b.button = -1
         THEN {InputLeft(b), InputRight(b), InputErase(b), InputInsert(b)} ELSE {}

------------------------------------------------------------------------------
(* dialog_yesno                                                                 *)

LayYesNo(b, rows) == IF rows < 10 THEN TooSmall ELSE [b EXCEPT !.drawn = 0]
OpenYesNo(rows)   == LayYesNo([kind |-> "yesno", button |-> 0, drawn |-> 0], rows)

------------------------------------------------------------------------------
(* The buttons of the other dialogs. *)

Buttons == [menu |-> 5, list |-> 2, yesno |-> 2]
ButtonMoves(b) == {Select(b, Turn(b.button, s, Buttons[b.kind])) : s \in {1, -1}}

Moves(b) == CASE b.kind = "menu"  -> MenuMoves(b) \cup ButtonMoves(b)
              [] b.kind = "list"  -> ListMoves(b) \cup ButtonMoves(b)
              [] b.kind = "yesno" -> ButtonMoves(b)
              [] b.kind = "text"  -> TextMoves(b)
              [] b.kind = "input" -> InputMoves(b)
              [] OTHER            -> {}

------------------------------------------------------------------------------
(* What is on the screen is what the keys act on. In a menu the cursor is on an *)
(* entry, and the rows are those from "scroll" on; in a text the flags that stop*)
(* the scrolling are right; the cursor of a field is where the next character   *)
(* goes. The button that is highlighted is the one that Enter presses.          *)
MenuTrue(b) == /\ 0 <= b.scroll /\ b.scroll + b.max <= Len(b.items)
               /\ b.items # <<>> => 0 <= b.choice /\ b.choice < b.max

TextTrue(b) == /\ 0 <= b.top /\ b.top <= b.lines
               /\ b.page  = Min2(b.lines, b.top + b.h)
               /\ b.len   = Min2(b.h, Count(b) - b.top)
               /\ b.end   = (b.top + b.h >= Count(b))
               /\ b.begin = (b.top = 0)

InputTrue(b) == /\ 0 <= b.show /\ 0 <= b.x /\ b.x < BoxWidth
                /\ b.pos = b.show + b.x
                /\ b.pos <= b.len /\ b.len <= MaxLen

ButtonTrue(b) == b.drawn = b.button
=============================================================================
