--------------------------- MODULE LxDialogProofs ---------------------------
(***************************************************************************)
(* What the dialogs show is what their keys act on, for menus, texts and   *)
(* fields of every length on a screen of every size: it holds when a dialog*)
(* is laid out, at first and after a change of size, and every key keeps   *)
(* it.                                                                     *)
(***************************************************************************)
EXTENDS LxDialog, TLAPS

MenuBox(S) == [kind : {"menu"}, items : Seq(S), max : Nat, scroll : Int, choice : Int,
               first : Int, skew : Int, button : Int, drawn : Int]

InputBox(S) == [kind : {"input"}, text : S, len : Nat, height : Nat, pos : Int, show : Int,
                x : Int, button : Int, drawn : Int]

SameButton(c, b) == c.button = b.button /\ c.drawn = b.drawn

TextBox == [kind : {"text"}, lines : Nat, ended : BOOLEAN, fixed : Nat, jumps : BOOLEAN,
            page : Int, top : Int, len : Int, h : Int, begin : BOOLEAN, end : BOOLEAN]

-----------------------------------------------------------------------------
(***************************************************************************)
(* dialog_menu                                                             *)
(***************************************************************************)

LEMMA MenuFields ==
    ASSUME NEW S, NEW b \in MenuBox(S)
    PROVE  /\ Len(b.items) \in Nat /\ b.max \in Nat
           /\ b.scroll \in Int /\ b.choice \in Int
BY DEF MenuBox

LEMMA Scrolled ==
    ASSUME NEW S, NEW b \in MenuBox(S), NEW n \in Int, NEW c, c = ScrollMenu(b, n)
    PROVE  /\ c \in MenuBox(S) /\ c.items = b.items /\ c.max = b.max
           /\ c.scroll = b.scroll + n /\ c.choice = b.choice
BY DEF ScrollMenu, MenuBox

LEMMA Pointed ==
    ASSUME NEW S, NEW b \in MenuBox(S), NEW r \in Int, NEW c, c = [b EXCEPT !.choice = r]
    PROVE  /\ c \in MenuBox(S) /\ c.items = b.items /\ c.max = b.max
           /\ c.scroll = b.scroll /\ c.choice = r
BY DEF MenuBox

(* The cursor is on the entry with this node, if there is one.             *)
OnIt(b, node) == (\E i \in DOMAIN b.items : b.items[i].node = node) => Current(b).node = node

\* The cursor is on the selected entry, or where it was, and the rows are within the list,
\* when a menu is drawn at first and after a change of size; the rows drawn at first are those
\* the keys act on. The first button is highlighted, the one Enter presses stays
\* (menubox.c:184-282).
THEOREM MenuIsLaidOutTrue ==
    ASSUME NEW S, NEW b \in MenuBox(S), NEW selected, NEW saved \in Nat, NEW rows \in Nat,
           0 <= b.choice, b.items # <<>> => b.choice < Len(b.items),
           NEW c, c = LayMenu(b, selected, saved, rows), c # TooSmall
    PROVE  /\ c \in MenuBox(S) /\ MenuTrue(c) /\ c.items = b.items
           /\ b.items = <<>> /\ b.choice = 0 => c.choice = 0
           /\ OnIt(c, selected)
           /\ b.first = 0 => c.skew = 0
           /\ c.drawn = 0 /\ c.button = b.button
<1> DEFINE n == Len(b.items)
           m == Min2(MenuRows(rows), n)
           d0 == [b EXCEPT !.max = m]
           d1 == OnEntry(d0, selected)
           d2 == Placed(d1, saved)
           d3 == Centred(d2)
<1>1. rows >= 15 /\ c = Drawn(d3)
  BY DEF LayMenu
<1>2. n \in Nat /\ m \in Nat /\ m <= n /\ (n > 0 => m > 0)
  BY <1>1, MenuFields DEF Min2, MenuRows
<1> HIDE DEF m
<1>3. d0 \in MenuBox(S) /\ d0.items = b.items /\ d0.max = m /\ d0.choice = b.choice
      /\ d0.first = b.first /\ d0.button = b.button
  BY <1>2 DEF MenuBox
<1> HIDE DEF d0
<1>4. /\ d1 \in MenuBox(S) /\ d1.items = b.items /\ d1.max = m
      /\ 0 <= d1.choice /\ (b.items # <<>> => d1.choice < n)
      /\ d1.first = b.first /\ d1.button = b.button /\ (b.items = <<>> => d1.choice = b.choice)
      /\ (\E i \in DOMAIN b.items : b.items[i].node = selected) =>
           b.items[d1.choice + 1].node = selected
  <2>1. CASE \E i \in DOMAIN d0.items : d0.items[i].node = selected
    <3> DEFINE e == CHOOSE i \in DOMAIN d0.items : d0.items[i].node = selected
               k == e - 1
    <3>1. d1 = [d0 EXCEPT !.choice = k]
      BY <2>1 DEF OnEntry
    <3>2. e \in DOMAIN d0.items /\ d0.items[e].node = selected
      BY <2>1
    <3>3. DOMAIN d0.items = 1 .. n
      BY <1>3 DEF MenuBox
    <3>4. k \in Int /\ 0 <= k /\ k < n
      BY <1>2, <3>2, <3>3
    <3>6. k + 1 = e
      <4>1. e \in Int
        BY <1>2, <3>2, <3>3
      <4> HIDE DEF e
      <4> QED BY <4>1
    <3> HIDE DEF k, e
    <3>5. /\ d1 \in MenuBox(S) /\ d1.items = d0.items /\ d1.max = d0.max
          /\ d1.choice = k /\ d1.first = d0.first /\ d1.button = d0.button
      BY <1>3, <3>1, <3>4, Pointed DEF MenuBox
    <3>7. b.items # <<>>
      BY <1>2, <3>4
    <3> QED BY <1>3, <3>2, <3>4, <3>5, <3>6, <3>7
  <2>2. CASE ~\E i \in DOMAIN d0.items : d0.items[i].node = selected
    <3>1. d1 = d0
      BY <2>2 DEF OnEntry
    <3> QED BY <1>3, <2>2, <3>1
  <2> QED BY <2>1, <2>2
<1> HIDE DEF d1
<1>5. n = 0 <=> b.items = <<>>
  BY DEF MenuBox
<1>6. d1.choice \in Int
  BY <1>4, MenuFields
<1>7. /\ d2 \in MenuBox(S) /\ d2.items = b.items /\ d2.max = m
      /\ \/ d2.scroll = saved /\ saved + m <= n /\ 0 <= d2.choice /\ d2.choice < m
         \/ d2.scroll = 0 /\ d2.choice = d1.choice
      /\ d2.scroll + d2.choice = d1.choice /\ (b.first = 0 => d2.first = d2.scroll)
      /\ d2.button = b.button
  <2>1. CASE saved <= d1.choice /\ saved + d1.max > d1.choice /\ saved + d1.max <= Len(d1.items)
    <3> DEFINE k == d1.choice - saved
    <3>1. d2 = [d1 EXCEPT !.first = saved, !.scroll = saved, !.choice = k]
      BY <2>1, Zenon DEF Placed
    <3>2. k \in Int /\ 0 <= k /\ k < m /\ saved + m <= n /\ saved \in Int
      BY <1>2, <1>4, <1>6, <2>1
    <3> HIDE DEF k
    <3>3. d2 \in MenuBox(S)
      BY <1>4, <3>1, <3>2 DEF MenuBox
    <3>4. d2.items = d1.items /\ d2.max = d1.max /\ d2.scroll = saved /\ d2.choice = k
          /\ d2.first = saved /\ d2.button = d1.button
      BY <1>4, <3>1, <3>2 DEF MenuBox
    <3>5. saved + k = d1.choice
      BY <1>6 DEF k
    <3> QED BY <1>4, <3>2, <3>3, <3>4, <3>5
  <2>2. CASE ~(saved <= d1.choice /\ saved + d1.max > d1.choice /\ saved + d1.max <= Len(d1.items))
    <3> DEFINE z == 0
    <3>1. d2 = [d1 EXCEPT !.scroll = z]
      BY <2>2 DEF Placed
    <3>2. z = 0 /\ z \in Int
      OBVIOUS
    <3> HIDE DEF z, d2
    <3>3. d2 \in MenuBox(S)
      BY <1>4, <3>1, <3>2 DEF MenuBox
    <3>4. d2.items = d1.items /\ d2.max = d1.max /\ d2.scroll = z /\ d2.choice = d1.choice
          /\ d2.first = d1.first /\ d2.button = d1.button
      BY <1>4, <3>1, <3>2 DEF MenuBox
    <3> QED BY <1>4, <1>6, <3>2, <3>3, <3>4
  <2> QED BY <2>1, <2>2
<1> HIDE DEF d2
<1>8. /\ d3 \in MenuBox(S) /\ MenuTrue(d3) /\ d3.items = b.items
      /\ d3.scroll + d3.choice = d1.choice /\ (b.first = 0 => d3.first = d3.scroll)
      /\ n = 0 /\ b.choice = 0 => d3.choice = 0
      /\ d3.button = b.button
  <2>1. CASE d2.choice < d2.max
    <3>1. d3 = d2
      BY <2>1 DEF Centred
    <3>2. 0 <= d2.scroll /\ d2.scroll + d2.max <= n /\ 0 <= d2.choice
      BY <1>2, <1>4, <1>6, <1>7
    <3>3. n # 0
      BY <1>2, <1>7, <2>1, <3>2, MenuFields
    <3> QED BY <1>7, <2>1, <3>1, <3>2, <3>3 DEF MenuTrue
  <2>2. CASE ~(d2.choice < d2.max)
    <3> DEFINE top == IF d2.choice >= Len(d2.items) - d2.max \div 2 THEN Len(d2.items) - d2.max
                      ELSE d2.choice - d2.max \div 2
               k == d2.choice - top
    <3>1. d3 = [d2 EXCEPT !.first = top, !.scroll = top, !.choice = k]
      BY <2>2 DEF Centred
    <3>2. d2.scroll = 0 /\ d2.choice = d1.choice /\ m <= d2.choice /\ d2.choice \in Int
      BY <1>2, <1>6, <1>7, <2>2
    <3>3. /\ top \in Int /\ k \in Int /\ 0 <= top /\ top + m <= n
          /\ n > 0 => 0 <= k /\ k < m
          /\ n = 0 => top = 0
      <4>1. Len(d2.items) = n /\ d2.max = m
        BY <1>7
      <4>2. m \div 2 \in Nat /\ m \div 2 <= m /\ m - 2 * (m \div 2) \in {0, 1}
            /\ (m > 0 => m \div 2 < m)
        BY <1>2
      <4>3. CASE n = 0
        <5>1. m = 0 /\ d2.max = 0 /\ Len(d2.items) = 0 /\ d2.max \div 2 = 0
          BY <1>2, <4>1, <4>2, <4>3
        <5>2. d2.choice >= 0 /\ top = 0
          BY <3>2, <5>1
        <5> QED BY <3>2, <4>3, <5>1, <5>2
      <4>4. CASE n > 0
        <5> DEFINE h == m \div 2
                   x == d1.choice
        <5>1. /\ h \in Nat /\ h < m /\ m - 2 * h \in {0, 1} /\ m \in Nat /\ n \in Nat
              /\ m <= n /\ x \in Int /\ m <= x /\ x < n
          BY <1>2, <1>4, <1>5, <3>2, <4>2, <4>4
        <5>2. d2.choice = x /\ d2.max \div 2 = h
          BY <3>2, <4>1
        <5>3. CASE x >= n - h
          <6>1. top = n - m /\ k = x - top
            BY <4>1, <5>2, <5>3
          <6> HIDE DEF top, k, h, x, n, d3
          <6> QED BY <5>1, <5>3, <6>1
        <5>4. CASE ~(x >= n - h)
          <6>1. top = x - h /\ k = x - top
            BY <4>1, <5>2, <5>4
          <6> HIDE DEF top, k, h, x, n, d3
          <6> QED BY <5>1, <5>4, <6>1
        <5> QED BY <5>3, <5>4
      <4> QED BY <1>2, <4>3, <4>4
    <3> HIDE DEF top, k
    <3>4. d3 \in MenuBox(S)
      BY <1>7, <3>1, <3>3 DEF MenuBox
    <3>5. d3.items = d2.items /\ d3.max = d2.max /\ d3.scroll = top /\ d3.choice = k
          /\ d3.first = top /\ d3.button = d2.button
      BY <1>7, <3>1, <3>3 DEF MenuBox
    <3>6. top + k = d1.choice
      BY <3>2, <3>3 DEF k
    <3>7. n = 0 /\ b.choice = 0 => k = 0
      BY <1>4, <1>5, <3>2, <3>3 DEF k
    <3> QED BY <1>2, <1>5, <1>7, <3>3, <3>4, <3>5, <3>6, <3>7 DEF MenuTrue
  <2> QED BY <2>1, <2>2
<1> HIDE DEF d3
<1>9. /\ c \in MenuBox(S) /\ c.items = d3.items /\ c.max = d3.max
      /\ c.scroll = d3.scroll /\ c.choice = d3.choice /\ c.skew = d3.first - d3.scroll
      /\ c.drawn = 0 /\ c.button = d3.button
  <2> DEFINE k == d3.first - d3.scroll
             z == 0
  <2>1. c = [d3 EXCEPT !.skew = k, !.drawn = z]
    BY <1>1 DEF Drawn
  <2>2. k \in Int /\ k = d3.first - d3.scroll /\ z \in Int /\ z = 0
    BY <1>8 DEF MenuBox
  <2> HIDE DEF k, z
  <2>3. c \in MenuBox(S)
    BY <1>8, <2>1, <2>2 DEF MenuBox
  <2>4. /\ c.items = d3.items /\ c.max = d3.max
        /\ c.scroll = d3.scroll /\ c.choice = d3.choice /\ c.skew = k
        /\ c.drawn = z /\ c.button = d3.button
    BY <1>8, <2>1, <2>2 DEF MenuBox
  <2> QED BY <2>2, <2>3, <2>4
<1>10. b.first = 0 => c.skew = 0
  <2>1. d3.scroll \in Int
    BY <1>8 DEF MenuBox
  <2> QED BY <1>8, <1>9, <2>1
<1>11. OnIt(c, selected)
  <2>1. (\E i \in DOMAIN b.items : b.items[i].node = selected) => Current(c).node = selected
    BY <1>4, <1>8, <1>9 DEF Current
  <2> QED BY <1>8, <1>9, <2>1 DEF OnIt
<1>12. MenuTrue(c)
  BY <1>8, <1>9 DEF MenuTrue
<1> QED BY <1>5, <1>8, <1>9, <1>10, <1>11, <1>12

\* Every key leaves the cursor on an entry and the rows within the list (menubox.c:
\* 311-371), also where a page does not fit any more.
THEOREM MenuKeysKeepTrue ==
    ASSUME NEW S, NEW b \in MenuBox(S), MenuTrue(b), NEW c \in MenuMoves(b)
    PROVE  c \in MenuBox(S) /\ MenuTrue(c)
<1>1. CASE b.items = <<>>
  BY <1>1 DEF MenuMoves
<1>2. CASE b.items # <<>>
  <2>1. /\ 0 <= b.scroll /\ b.scroll + b.max <= Len(b.items)
        /\ 0 <= b.choice /\ b.choice < b.max
    BY <1>2 DEF MenuTrue
  <2>2. ASSUME NEW d \in MenuBox(S), d.items = b.items, d.max = b.max,
               0 <= d.scroll, d.scroll + d.max <= Len(d.items),
               NEW r \in 0 .. b.max - 1,
               c = [d EXCEPT !.choice = r]
        PROVE  c \in MenuBox(S) /\ MenuTrue(c)
    <3>1. /\ c \in MenuBox(S) /\ c.items = d.items /\ c.max = d.max
          /\ c.scroll = d.scroll /\ c.choice = r
      BY <2>2, Pointed
    <3> QED BY <2>2, <3>1, MenuFields DEF MenuTrue
  <2>3. CASE c = MenuUp(b)
    <3>1. CASE b.choice < 2 /\ b.scroll # 0
      <4>1. c = ScrollMenu(b, -1)
        BY <2>3, <3>1 DEF MenuUp
      <4>2. /\ c \in MenuBox(S) /\ c.items = b.items /\ c.max = b.max
            /\ c.scroll = b.scroll + (-1) /\ c.choice = b.choice
        BY <4>1, Scrolled
      <4>3. 0 <= c.scroll /\ c.scroll + c.max <= Len(c.items)
        BY <2>1, <3>1, <4>2, MenuFields
      <4> QED BY <2>1, <4>2, <4>3, MenuFields DEF MenuTrue
    <3>2. CASE ~(b.choice < 2 /\ b.scroll # 0)
      <4>1. c = [b EXCEPT !.choice = Max2(b.choice - 1, 0)]
        BY <2>3, <3>2 DEF MenuUp
      <4>2. Max2(b.choice - 1, 0) \in 0 .. b.max - 1
        BY <2>1, MenuFields DEF Max2
      <4> QED BY <2>1, <2>2, <4>1, <4>2
    <3> QED BY <3>1, <3>2
  <2>4. CASE c = MenuDown(b)
    <3>1. CASE b.choice > b.max - 3 /\ b.scroll + b.max < Len(b.items)
      <4>1. c = ScrollMenu(b, 1)
        BY <2>4, <3>1 DEF MenuDown
      <4>2. /\ c \in MenuBox(S) /\ c.items = b.items /\ c.max = b.max
            /\ c.scroll = b.scroll + (1) /\ c.choice = b.choice
        BY <4>1, Scrolled
      <4>3. 0 <= c.scroll /\ c.scroll + c.max <= Len(c.items)
        BY <2>1, <3>1, <4>2, MenuFields
      <4> QED BY <2>1, <4>2, <4>3, MenuFields DEF MenuTrue
    <3>2. CASE ~(b.choice > b.max - 3 /\ b.scroll + b.max < Len(b.items))
      <4>1. c = [b EXCEPT !.choice = Min2(b.choice + 1, b.max - 1)]
        BY <2>4, <3>2 DEF MenuDown
      <4>2. Min2(b.choice + 1, b.max - 1) \in 0 .. b.max - 1
        BY <2>1, MenuFields DEF Min2
      <4> QED BY <2>1, <2>2, <4>1, <4>2
    <3> QED BY <3>1, <3>2
  <2>5. CASE c = MenuPageUp(b)
    <3> DEFINE k == Min2(b.max, b.scroll)
               d == ScrollMenu(b, -k)
               r == Max2(0, d.choice - (b.max - k))
    <3>1. c = [d EXCEPT !.choice = r]
      BY <2>5 DEF MenuPageUp
    <3>2. k \in Int /\ -k \in Int /\ 0 <= k /\ k <= b.max /\ k <= b.scroll
      BY <2>1, MenuFields DEF Min2
    <3> HIDE DEF k
    <3>3. /\ d \in MenuBox(S) /\ d.items = b.items /\ d.max = b.max
          /\ d.scroll = b.scroll + (-k) /\ d.choice = b.choice
      BY <3>2, Scrolled
    <3> HIDE DEF d
    <3>4. r \in 0 .. b.max - 1
      <4> DEFINE y == d.choice - (b.max - k)
      <4>1. y \in Int /\ y < b.max /\ 0 < b.max /\ b.max \in Int /\ r = Max2(0, y)
        BY <2>1, <3>2, <3>3, MenuFields
      <4>2. r \in Int /\ 0 <= r /\ r < b.max
        <5> HIDE DEF y, r
        <5> QED BY <4>1 DEF Max2
      <4> QED BY <4>2, MenuFields
    <3> HIDE DEF r
    <3>5. 0 <= d.scroll /\ d.scroll + d.max <= Len(d.items)
      BY <2>1, <3>2, <3>3, MenuFields
    <3> QED BY <2>2, <3>1, <3>3, <3>4, <3>5
  <2>6. CASE c = MenuPageDown(b)
    <3> DEFINE k == Min2(b.max, Len(b.items) - b.max - b.scroll)
               d == ScrollMenu(b, k)
               r == Min2(b.max - 1, d.choice + (b.max - k))
    <3>1. c = [d EXCEPT !.choice = r]
      BY <2>6 DEF MenuPageDown
    <3>2. k \in Int /\ 0 <= k /\ k <= b.max /\ k <= Len(b.items) - b.max - b.scroll
      BY <2>1, MenuFields DEF Min2
    <3> HIDE DEF k
    <3>3. /\ d \in MenuBox(S) /\ d.items = b.items /\ d.max = b.max
          /\ d.scroll = b.scroll + k /\ d.choice = b.choice
      BY <3>2, Scrolled
    <3> HIDE DEF d
    <3>4. r \in 0 .. b.max - 1
      <4> DEFINE x == b.max - 1
                 y == d.choice + (b.max - k)
      <4>1. x \in Int /\ y \in Int /\ 0 <= x /\ 0 <= y /\ r = Min2(x, y)
        <5>1. r = Min2(x, y)
          OBVIOUS
        <5>2. b.max \in Int /\ b.choice \in Int /\ d.choice = b.choice
          BY <3>3, MenuFields
        <5> HIDE DEF r
        <5>3. x \in Int /\ y \in Int /\ 0 <= x /\ 0 <= y
          BY <2>1, <3>2, <5>2
        <5> QED BY <5>1, <5>3
      <4>2. r \in Int /\ 0 <= r /\ r <= x
        <5> HIDE DEF x, y, r
        <5> QED BY <4>1 DEF Min2
      <4> QED BY <4>2, MenuFields
    <3> HIDE DEF r
    <3>5. 0 <= d.scroll /\ d.scroll + d.max <= Len(d.items)
      BY <2>1, <3>2, <3>3, MenuFields
    <3> QED BY <2>2, <3>1, <3>3, <3>4, <3>5
  <2>7. CASE c \in {[b EXCEPT !.choice = i] : i \in 0 .. b.max - 1}
    <3>1. PICK i \in 0 .. b.max - 1 : c = [b EXCEPT !.choice = i]
      BY <2>7
    <3> QED BY <2>1, <2>2, <3>1
  <2> QED BY <1>2, <2>3, <2>4, <2>5, <2>6, <2>7 DEF MenuMoves
<1> QED BY <1>1, <1>2

\* Keys that move the cursor leave the entries and the buttons as they are, and the rows that
\* are drawn are those they act on.
LEMMA MenuKeysKeepEntries ==
    ASSUME NEW S, NEW b \in MenuBox(S), NEW c \in MenuMoves(b)
    PROVE  /\ c.kind = b.kind /\ c.items = b.items /\ c.skew = b.skew /\ SameButton(c, b)
           /\ b.items = <<>> => c = b
<1>1. CASE b.items = <<>>
  BY <1>1 DEF MenuMoves, SameButton
<1>2. ASSUME NEW d \in MenuBox(S), NEW r, NEW e, e = [d EXCEPT !.choice = r]
      PROVE  e.kind = d.kind /\ e.items = d.items /\ e.skew = d.skew /\ SameButton(e, d)
  BY <1>2 DEF MenuBox, SameButton
<1>3. ASSUME NEW n \in Int, NEW e, e = ScrollMenu(b, n)
      PROVE  /\ e \in MenuBox(S) /\ e.kind = b.kind /\ e.items = b.items /\ e.skew = b.skew
             /\ SameButton(e, b)
  BY <1>3 DEF ScrollMenu, MenuBox, SameButton
<1>4. CASE b.items # <<>>
  <2>1. CASE c = MenuUp(b)
    <3>1. c = ScrollMenu(b, -1) \/ \E r : c = [b EXCEPT !.choice = r]
      BY <2>1 DEF MenuUp
    <3> QED BY <1>2, <1>3, <1>4, <3>1
  <2>2. CASE c = MenuDown(b)
    <3>1. c = ScrollMenu(b, 1) \/ \E r : c = [b EXCEPT !.choice = r]
      BY <2>2 DEF MenuDown
    <3> QED BY <1>2, <1>3, <1>4, <3>1
  <2>3. CASE c = MenuPageUp(b)
    <3> DEFINE k == Min2(b.max, b.scroll)
               d == ScrollMenu(b, -k)
               r == Max2(0, d.choice - (b.max - k))
    <3>1. c = [d EXCEPT !.choice = r]
      BY <2>3 DEF MenuPageUp
    <3>2. -k \in Int
      BY MenuFields DEF Min2
    <3>3. d = ScrollMenu(b, -k)
      OBVIOUS
    <3> HIDE DEF k, d, r
    <3>4. /\ d \in MenuBox(S) /\ d.kind = b.kind /\ d.items = b.items /\ d.skew = b.skew
          /\ SameButton(d, b)
      BY <1>3, <3>2, <3>3
    <3> QED BY <1>2, <1>4, <3>1, <3>4 DEF SameButton
  <2>4. CASE c = MenuPageDown(b)
    <3> DEFINE k == Min2(b.max, Len(b.items) - b.max - b.scroll)
               d == ScrollMenu(b, k)
               r == Min2(b.max - 1, d.choice + (b.max - k))
    <3>1. c = [d EXCEPT !.choice = r]
      BY <2>4 DEF MenuPageDown
    <3>2. k \in Int
      BY MenuFields DEF Min2
    <3>3. d = ScrollMenu(b, k)
      OBVIOUS
    <3> HIDE DEF k, d, r
    <3>4. /\ d \in MenuBox(S) /\ d.kind = b.kind /\ d.items = b.items /\ d.skew = b.skew
          /\ SameButton(d, b)
      BY <1>3, <3>2, <3>3
    <3> QED BY <1>2, <1>4, <3>1, <3>4 DEF SameButton
  <2>5. CASE \E i \in 0 .. b.max - 1 : c = [b EXCEPT !.choice = i]
    <3>1. PICK i \in 0 .. b.max - 1 : c = [b EXCEPT !.choice = i]
      BY <2>5
    <3> QED BY <1>2, <1>4, <3>1
  <2> QED BY <1>4, <2>1, <2>2, <2>3, <2>4, <2>5 DEF MenuMoves
<1> QED BY <1>1, <1>4

\* Going from button to button highlights the one that Enter presses, and changes nothing else
\* (menubox.c:373-382, checklist.c:303-311).
LEMMA MenuButtons ==
    ASSUME NEW S, NEW b \in MenuBox(S), NEW c \in ButtonMoves(b)
    PROVE  /\ c \in MenuBox(S) /\ c.items = b.items /\ c.max = b.max /\ c.skew = b.skew
           /\ c.scroll = b.scroll /\ c.choice = b.choice /\ ButtonTrue(c)
<1>1. PICK s \in {1, -1} : c = Select(b, Turn(b.button, s, Buttons[b.kind]))
  BY DEF ButtonMoves
<1> DEFINE r == Turn(b.button, s, Buttons[b.kind])
<1>2. r \in Int
  <2>1. b.kind = "menu" /\ b.button \in Int
    BY DEF MenuBox
  <2>2. Buttons[b.kind] = 5
    BY <2>1 DEF Buttons
  <2> QED BY <2>1, <2>2 DEF Turn
<1>3. c = [b EXCEPT !.button = r, !.drawn = r]
  BY <1>1 DEF Select
<1> HIDE DEF r
<1> QED BY <1>2, <1>3 DEF MenuBox, ButtonTrue

-----------------------------------------------------------------------------
(***************************************************************************)
(* dialog_inputbox                                                         *)
(***************************************************************************)

LEMMA FieldFields ==
    ASSUME NEW S, NEW b \in InputBox(S)
    PROVE  /\ b.pos \in Int /\ b.show \in Int /\ b.x \in Int /\ b.len \in Nat
           /\ b.button \in Int
BY DEF InputBox

LEMMA LeftFields ==
    ASSUME NEW S, NEW b \in InputBox(S), NEW c, c = Leftwards(b)
    PROVE  /\ c \in InputBox(S) /\ c.pos = b.pos - 1 /\ c.len = b.len /\ SameButton(c, b)
           /\ b.x = 0 => c.x = 0 /\ c.show = b.show - 1
           /\ b.x # 0 => c.x = b.x - 1 /\ c.show = b.show
<1> DEFINE s == IF b.x = 0 THEN b.show - 1 ELSE b.show
           x == IF b.x = 0 THEN 0 ELSE b.x - 1
           p == b.pos - 1
<1>1. c = [b EXCEPT !.pos = p, !.show = s, !.x = x]
  BY DEF Leftwards
<1>2. s \in Int /\ x \in Int /\ p \in Int /\ p = b.pos - 1
  BY FieldFields
<1>3. /\ b.x = 0 => x = 0 /\ s = b.show - 1
      /\ b.x # 0 => x = b.x - 1 /\ s = b.show
  OBVIOUS
<1> HIDE DEF s, x, p
<1>4. c \in InputBox(S)
  BY <1>1, <1>2 DEF InputBox
<1>5. c.len = b.len /\ c.pos = p /\ c.show = s /\ c.x = x /\ SameButton(c, b)
  BY <1>1, <1>2 DEF InputBox, SameButton
<1> QED BY <1>2, <1>3, <1>4, <1>5

LEMMA RightFields ==
    ASSUME NEW S, NEW b \in InputBox(S), NEW c, c = Rightwards(b)
    PROVE  /\ c \in InputBox(S) /\ c.pos = b.pos + 1 /\ c.len = b.len /\ SameButton(c, b)
           /\ b.x = BoxWidth - 1 => c.x = b.x /\ c.show = b.show + 1
           /\ b.x # BoxWidth - 1 => c.x = b.x + 1 /\ c.show = b.show
<1> DEFINE s == IF b.x = BoxWidth - 1 THEN b.show + 1 ELSE b.show
           x == IF b.x = BoxWidth - 1 THEN b.x ELSE b.x + 1
           p == b.pos + 1
<1>1. c = [b EXCEPT !.pos = p, !.show = s, !.x = x]
  BY DEF Rightwards
<1>2. s \in Int /\ x \in Int /\ p \in Int /\ p = b.pos + 1
  BY FieldFields
<1>3. /\ b.x = BoxWidth - 1 => x = b.x /\ s = b.show + 1
      /\ b.x # BoxWidth - 1 => x = b.x + 1 /\ s = b.show
  OBVIOUS
<1> HIDE DEF s, x, p
<1>4. c \in InputBox(S)
  BY <1>1, <1>2 DEF InputBox
<1>5. c.len = b.len /\ c.pos = p /\ c.show = s /\ c.x = x /\ SameButton(c, b)
  BY <1>1, <1>2 DEF InputBox, SameButton
<1> QED BY <1>2, <1>3, <1>4, <1>5

LEMMA Turned ==
    ASSUME NEW S, NEW b \in InputBox(S), NEW n \in Int, NEW c, c = Select(b, n)
    PROVE  /\ c \in InputBox(S) /\ c.len = b.len /\ ButtonTrue(c) /\ c.text = b.text
           /\ c.pos = b.pos /\ c.show = b.show /\ c.x = b.x
BY DEF InputBox, Select, ButtonTrue

\* The cursor stays where the next character goes, within the field and the text, and what is
\* highlighted is what has the keys (inputbox.c:119-280).
THEOREM FieldKeysKeepTrue ==
    ASSUME NEW S, "other" \in S, NEW b \in InputBox(S), InputTrue(b), NEW c \in InputMoves(b)
    PROVE  c \in InputBox(S) /\ InputTrue(c) /\ (ButtonTrue(b) => ButtonTrue(c))
<1>1. /\ 0 <= b.show /\ 0 <= b.x /\ b.x < BoxWidth /\ b.pos = b.show + b.x
      /\ b.pos <= b.len /\ b.len <= MaxLen
  BY DEF InputTrue
<1>2. BoxWidth \in Nat /\ BoxWidth > 0 /\ MaxLen \in Nat
  BY DialogAssumption
<1>3. ASSUME NEW step \in {1, -1}, c = InputTurn(b, step)
      PROVE  c \in InputBox(S) /\ InputTrue(c) /\ ButtonTrue(c)
  <2> DEFINE n == Turn(b.button + 1, step, 3) - 1
  <2>1. c = Select(b, n)
    BY <1>3 DEF InputTurn
  <2>2. n \in Int
    BY FieldFields DEF Turn
  <2> HIDE DEF n
  <2>3. /\ c \in InputBox(S) /\ c.len = b.len /\ ButtonTrue(c)
        /\ c.pos = b.pos /\ c.show = b.show /\ c.x = b.x
    BY <2>1, <2>2, Turned
  <2> QED BY <1>1, <2>3 DEF InputTrue
<1>4. CASE c = InputLeft(b)
  <2>1. CASE b.pos = 0
    BY <1>4, <2>1 DEF InputLeft
  <2>2. CASE b.pos # 0
    <3>1. c = Leftwards(b)
      BY <1>4, <2>2 DEF InputLeft
    <3> QED BY <1>1, <1>2, <2>2, <3>1, LeftFields, FieldFields DEF InputTrue, SameButton, ButtonTrue
  <2> QED BY <2>1, <2>2
<1>5. CASE c = InputRight(b)
  <2>1. CASE b.pos = b.len
    BY <1>5, <2>1 DEF InputRight
  <2>2. CASE b.pos # b.len
    <3>1. c = Rightwards(b)
      BY <1>5, <2>2 DEF InputRight
    <3> QED BY <1>1, <1>2, <2>2, <3>1, RightFields, FieldFields DEF InputTrue, SameButton, ButtonTrue
  <2> QED BY <2>1, <2>2
<1>6. CASE c = InputErase(b)
  <2>1. CASE b.pos = 0
    BY <1>6, <2>1 DEF InputErase
  <2>2. CASE b.pos # 0
    <3> DEFINE d == Leftwards(b)
               n == d.len - 1
    <3>1. c = [d EXCEPT !.len = n, !.text = "other"]
      BY <1>6, <2>2 DEF InputErase
    <3>2. /\ d \in InputBox(S) /\ d.pos = b.pos - 1 /\ d.len = b.len /\ SameButton(d, b)
          /\ b.x = 0 => d.x = 0 /\ d.show = b.show - 1
          /\ b.x # 0 => d.x = b.x - 1 /\ d.show = b.show
      BY LeftFields
    <3> HIDE DEF d
    <3>3. n \in Nat /\ n = b.len - 1
      BY <1>1, <2>2, <3>2, FieldFields
    <3> HIDE DEF n
    <3>4. /\ c \in InputBox(S) /\ c.len = n
          /\ c.pos = d.pos /\ c.show = d.show /\ c.x = d.x /\ SameButton(c, d)
      <4>1. c \in InputBox(S)
        BY <3>1, <3>2, <3>3 DEF InputBox
      <4>2. c.len = n /\ c.pos = d.pos /\ c.show = d.show /\ c.x = d.x /\ SameButton(c, d)
        BY <3>1, <3>2, <3>3 DEF InputBox, SameButton
      <4> QED BY <4>1, <4>2
    <3> QED BY <1>1, <1>2, <2>2, <3>2, <3>3, <3>4, FieldFields
            DEF InputTrue, SameButton, ButtonTrue
  <2> QED BY <2>1, <2>2
<1>7. CASE c = InputInsert(b)
  <2>1. CASE b.len = MaxLen
    BY <1>7, <2>1 DEF InputInsert
  <2>2. CASE b.len # MaxLen
    <3> DEFINE d == Rightwards(b)
               n == d.len + 1
    <3>1. c = [d EXCEPT !.len = n, !.text = "other"]
      BY <1>7, <2>2 DEF InputInsert
    <3>2. /\ d \in InputBox(S) /\ d.pos = b.pos + 1 /\ d.len = b.len /\ SameButton(d, b)
          /\ b.x = BoxWidth - 1 => d.x = b.x /\ d.show = b.show + 1
          /\ b.x # BoxWidth - 1 => d.x = b.x + 1 /\ d.show = b.show
      BY RightFields
    <3> HIDE DEF d
    <3>3. n \in Nat /\ n = b.len + 1
      BY <3>2, FieldFields
    <3> HIDE DEF n
    <3>4. /\ c \in InputBox(S) /\ c.len = n
          /\ c.pos = d.pos /\ c.show = d.show /\ c.x = d.x /\ SameButton(c, d)
      <4>1. c \in InputBox(S)
        BY <3>1, <3>2, <3>3 DEF InputBox
      <4>2. c.len = n /\ c.pos = d.pos /\ c.show = d.show /\ c.x = d.x /\ SameButton(c, d)
        BY <3>1, <3>2, <3>3 DEF InputBox, SameButton
      <4> QED BY <4>1, <4>2
    <3>5. 0 <= c.show /\ 0 <= c.x /\ c.x < BoxWidth /\ c.pos = c.show + c.x
      <4>1. CASE b.x = BoxWidth - 1
        BY <1>1, <1>2, <3>2, <3>4, <4>1, FieldFields
      <4>2. CASE b.x # BoxWidth - 1
        BY <1>1, <1>2, <3>2, <3>4, <4>2, FieldFields
      <4> QED BY <4>1, <4>2
    <3>6. c.pos <= c.len /\ c.len <= MaxLen
      BY <1>1, <1>2, <2>2, <3>2, <3>3, <3>4, FieldFields
    <3> QED BY <3>2, <3>4, <3>5, <3>6 DEF InputTrue, SameButton, ButtonTrue
  <2> QED BY <2>1, <2>2
<1> QED BY <1>3, <1>4, <1>5, <1>6, <1>7 DEF InputMoves

LEMMA FieldKeysKeepText ==
    ASSUME NEW S, NEW b \in InputBox(S), NEW c \in InputMoves(b)
    PROVE  c.text \in {b.text, "other"}
<1>1. Leftwards(b).text = b.text /\ Rightwards(b).text = b.text
  BY DEF Leftwards, Rightwards, InputBox
<1>2. Leftwards(b) \in InputBox(S) /\ Rightwards(b) \in InputBox(S)
  BY LeftFields, RightFields
<1>3. ASSUME NEW d \in InputBox(S), NEW x PROVE [d EXCEPT !.len = x, !.text = "other"].text = "other"
  BY DEF InputBox
<1>4. ASSUME NEW x PROVE Select(b, x).text = b.text
  BY DEF InputBox, Select
<1>5. InputErase(b).text \in {b.text, "other"} /\ InputInsert(b).text \in {b.text, "other"}
  BY <1>2, <1>3 DEF InputErase, InputInsert
<1>6. InputLeft(b).text = b.text /\ InputRight(b).text = b.text
  BY <1>1 DEF InputLeft, InputRight
<1>7. InputTurn(b, 1).text = b.text /\ InputTurn(b, -1).text = b.text
  BY <1>4 DEF InputTurn
<1> QED BY <1>5, <1>6, <1>7 DEF InputMoves

\* A field is drawn with the cursor in it, at the end of its text, however long that is, at
\* first and after a change of size, whatever has the keys (inputbox.c:31-117).
THEOREM FieldIsLaidOutTrue ==
    ASSUME NEW S, NEW b \in InputBox(S), b.len <= MaxLen, NEW rows \in Nat,
           NEW c, c = LayInput(b, rows), c # TooSmall
    PROVE  /\ c \in InputBox(S) /\ InputTrue(c) /\ c.pos = c.len
           /\ c.drawn = -1 /\ c.button = b.button
<1> DEFINE z == -1
           s == IF b.len >= BoxWidth THEN b.len - BoxWidth + 1 ELSE 0
           x == IF b.len >= BoxWidth THEN BoxWidth - 1 ELSE b.len
           p == b.len
<1>1. c = [b EXCEPT !.pos = p, !.show = s, !.x = x, !.drawn = z]
  BY DEF LayInput
<1>2. z \in Int /\ z = -1
  OBVIOUS
<1>3. BoxWidth \in Nat /\ BoxWidth > 0 /\ MaxLen \in Nat
  BY DialogAssumption
<1>4. /\ s \in Int /\ x \in Int /\ p \in Int /\ p = s + x
      /\ 0 <= s /\ 0 <= x /\ x < BoxWidth
  BY <1>3, FieldFields
<1>5. p = b.len
  OBVIOUS
<1> HIDE DEF s, x, p, z
<1>6. c \in InputBox(S)
  BY <1>1, <1>2, <1>4 DEF InputBox
<1>7. /\ c.len = b.len /\ c.pos = p /\ c.show = s /\ c.x = x
      /\ c.drawn = z /\ c.button = b.button
  BY <1>1, <1>2, <1>4 DEF InputBox
<1> QED BY <1>2, <1>3, <1>4, <1>5, <1>6, <1>7, FieldFields DEF InputTrue

-----------------------------------------------------------------------------
(***************************************************************************)
(* dialog_checklist                                                        *)
(***************************************************************************)

ListBox(S) == [kind : {"list"}, items : Seq(S), max : Nat, scroll : Int, choice : Int,
               button : Int, drawn : Int]

(* A list shows as many entries as there are rows for.                     *)
ListFits(b) == b.max = Min2(ListHeight, Len(b.items))

LEMMA ListFields ==
    ASSUME NEW S, NEW b \in ListBox(S)
    PROVE  /\ Len(b.items) \in Nat /\ b.max \in Nat
           /\ b.scroll \in Int /\ b.choice \in Int
           /\ (b.items = <<>>) <=> (Len(b.items) = 0)
BY DEF ListBox

\* A list of alternatives is drawn with the cursor on the entry asked for, scrolled just as
\* far as that needs (checklist.c:141-158).
THEOREM ListIsLaidOutTrue ==
    ASSUME NEW S, NEW items \in Seq(S), NEW at \in Nat, items # <<>> => at < Len(items),
           items = <<>> => at = 0, NEW rows \in Nat,
           NEW c, c = OpenList(items, at, rows), c # TooSmall
    PROVE  /\ c \in ListBox(S) /\ c.items = items /\ ListFits(c) /\ MenuTrue(c)
           /\ c.scroll + c.choice = at /\ ButtonTrue(c)
<1> DEFINE m == Min2(ListHeight, Len(items))
           b == [kind |-> "list", items |-> items, max |-> m, scroll |-> 0, choice |-> at,
                 button |-> 0, drawn |-> 0]
           d == ListPlaced(b)
<1>1. ListHeight \in Nat /\ ListHeight > 0 /\ Len(items) \in Nat
  BY DialogAssumption
<1>2. m \in Nat /\ m <= Len(items) /\ m <= ListHeight /\ (m = ListHeight \/ m = Len(items))
  BY <1>1 DEF Min2
<1>3. c = [d EXCEPT !.drawn = 0]
  BY DEF OpenList, LayList
<1>4. m = Min2(ListHeight, Len(items))
  OBVIOUS
<1> HIDE DEF m
<1>5. /\ b \in ListBox(S) /\ b.items = items /\ b.max = m /\ b.scroll = 0 /\ b.choice = at
      /\ b.button = 0
  BY <1>2 DEF ListBox
<1> HIDE DEF b
<1>6. ASSUME d \in ListBox(S), d.items = items, d.max = m, d.button = 0
      PROVE  /\ c \in ListBox(S) /\ c.items = items /\ c.max = m
             /\ c.scroll = d.scroll /\ c.choice = d.choice /\ ButtonTrue(c)
  <2> HIDE DEF d
  <2> QED BY <1>3, <1>6 DEF ListBox, ButtonTrue
<1>8. CASE at < ListHeight
  <2>1. d = b
    BY <1>5, <1>8 DEF ListPlaced
  <2>2. items # <<>> => at < m
    BY <1>1, <1>2, <1>8
  <2> HIDE DEF d
  <2> QED BY <1>2, <1>4, <1>5, <1>6, <2>1, <2>2 DEF MenuTrue, ListFits
<1>7. CASE ~(at < ListHeight)
  <2> DEFINE s == at - ListHeight + 1
             r == ListHeight - 1
  <2>1. d = [b EXCEPT !.scroll = s, !.choice = r]
    BY <1>5, <1>7 DEF ListPlaced
  <2>2. items # <<>> /\ at < Len(items) /\ m = ListHeight
    BY <1>1, <1>2, <1>7
  <2>3. /\ s \in Int /\ r \in Int /\ 0 <= s /\ s + m <= Len(items) /\ 0 <= r /\ r < m
        /\ s + r = at
    BY <1>1, <1>7, <2>2
  <2> HIDE DEF s, r, d
  <2>4. d \in ListBox(S)
    BY <1>5, <2>1, <2>3 DEF ListBox
  <2>5. d.items = items /\ d.max = m /\ d.scroll = s /\ d.choice = r /\ d.button = 0
    BY <1>5, <2>1, <2>3 DEF ListBox
  <2> QED BY <1>4, <1>6, <2>3, <2>4, <2>5 DEF MenuTrue, ListFits
<1> QED BY <1>7, <1>8

\* Every key leaves the cursor of a list on an entry and the rows within the list, and a
\* change of size leaves the list as it is, but highlights the first button
\* (checklist.c:134-293).
THEOREM ListKeysKeepTrue ==
    ASSUME NEW S, NEW b \in ListBox(S), ListFits(b), MenuTrue(b)
    PROVE  /\ \A c \in ListMoves(b) : c \in ListBox(S) /\ ListFits(c) /\ MenuTrue(c)
           /\ \A rows \in Nat : b.items # <<>> =>
                LayList(b, rows) \in {TooSmall, [b EXCEPT !.drawn = 0]}
<1>1. /\ 0 <= b.scroll /\ b.scroll + b.max <= Len(b.items)
      /\ b.items # <<>> => 0 <= b.choice /\ b.choice < b.max
  BY DEF MenuTrue
<1>2. ListHeight \in Nat /\ ListHeight > 0
  BY DialogAssumption
<1>3. b.max <= ListHeight /\ (Len(b.items) = 0 => b.max = 0 /\ b.scroll = 0)
  BY <1>1, <1>2, ListFields DEF ListFits, Min2
<1>4. ASSUME NEW s \in Int, NEW r \in Int, 0 <= s, s + b.max <= Len(b.items),
             b.items # <<>> => 0 <= r /\ r < b.max,
             NEW c, c = [b EXCEPT !.scroll = s, !.choice = r]
      PROVE  c \in ListBox(S) /\ ListFits(c) /\ MenuTrue(c)
  <2>1. c \in ListBox(S)
    BY <1>4 DEF ListBox
  <2>2. c.items = b.items /\ c.max = b.max /\ c.scroll = s /\ c.choice = r
    BY <1>4 DEF ListBox
  <2> QED BY <1>4, <2>1, <2>2 DEF ListFits, MenuTrue
<1>5. ASSUME NEW r \in Int, b.items # <<>> => 0 <= r /\ r < b.max,
             NEW c, c = [b EXCEPT !.choice = r]
      PROVE  c \in ListBox(S) /\ ListFits(c) /\ MenuTrue(c)
  <2>1. c = [b EXCEPT !.scroll = b.scroll, !.choice = r]
    BY <1>5 DEF ListBox
  <2> QED BY <1>1, <1>4, <1>5, <2>1, ListFields
<1>6. ASSUME NEW s \in Int, 0 <= s, s + b.max <= Len(b.items),
             NEW c, c = [b EXCEPT !.scroll = s]
      PROVE  c \in ListBox(S) /\ ListFits(c) /\ MenuTrue(c)
  <2>1. c = [b EXCEPT !.scroll = s, !.choice = b.choice]
    BY <1>6 DEF ListBox
  <2> QED BY <1>1, <1>4, <1>6, <2>1, ListFields
<1>7. ASSUME NEW c \in ListMoves(b)
      PROVE  c \in ListBox(S) /\ ListFits(c) /\ MenuTrue(c)
  <2>1. CASE c = ListUp(b)
    <3>1. CASE b.choice # 0
      <4>1. c = [b EXCEPT !.choice = b.choice - 1]
        BY <2>1, <3>1 DEF ListUp
      <4>2. b.choice - 1 \in Int /\ (b.items # <<>> => 0 <= b.choice - 1 /\ b.choice - 1 < b.max)
        BY <1>1, <3>1, ListFields
      <4> QED BY <1>5, <4>1, <4>2
    <3>2. CASE b.choice = 0
      <4>1. c = [b EXCEPT !.scroll = Max2(0, b.scroll - 1)]
        BY <2>1, <3>2 DEF ListUp
      <4>2. /\ Max2(0, b.scroll - 1) \in Int /\ 0 <= Max2(0, b.scroll - 1)
            /\ Max2(0, b.scroll - 1) + b.max <= Len(b.items)
        BY <1>1, ListFields DEF Max2
      <4> QED BY <1>6, <4>1, <4>2
    <3> QED BY <3>1, <3>2
  <2>2. CASE c = ListDown(b)
    <3>1. CASE b.choice # b.max - 1
      <4>1. c = [b EXCEPT !.choice = b.choice + 1]
        BY <2>2, <3>1 DEF ListDown
      <4>2. b.choice + 1 \in Int /\ (b.items # <<>> => 0 <= b.choice + 1 /\ b.choice + 1 < b.max)
        BY <1>1, <3>1, ListFields
      <4> QED BY <1>5, <4>1, <4>2
    <3>2. CASE b.choice = b.max - 1 /\ b.scroll + b.choice >= Len(b.items) - 1
      <4>1. c = [b EXCEPT !.choice = b.choice]
        BY <2>2, <3>2 DEF ListDown, ListBox
      <4> QED BY <1>1, <1>5, <4>1, ListFields
    <3>3. CASE b.choice = b.max - 1 /\ ~(b.scroll + b.choice >= Len(b.items) - 1)
      <4>1. c = [b EXCEPT !.scroll = b.scroll + 1]
        BY <2>2, <3>3 DEF ListDown
      <4>2. b.scroll + 1 \in Int /\ 0 <= b.scroll + 1 /\ b.scroll + 1 + b.max <= Len(b.items)
        BY <1>1, <3>3, ListFields
      <4> QED BY <1>6, <4>1, <4>2
    <3> QED BY <3>1, <3>2, <3>3
  <2>3. CASE c \in {[b EXCEPT !.choice = i] : i \in 0 .. b.max - 1}
    <3>1. PICK i \in 0 .. b.max - 1 : c = [b EXCEPT !.choice = i]
      BY <2>3
    <3>2. i \in Int /\ 0 <= i /\ i < b.max
      BY ListFields
    <3> QED BY <1>5, <3>1, <3>2
  <2> QED BY <2>1, <2>2, <2>3 DEF ListMoves
<1>8. ASSUME NEW rows \in Nat, b.items # <<>>
      PROVE  LayList(b, rows) \in {TooSmall, [b EXCEPT !.drawn = 0]}
  <2>1. b.choice < ListHeight
    BY <1>1, <1>2, <1>3, <1>8, ListFields
  <2> QED BY <2>1 DEF LayList, ListPlaced
<1> QED BY <1>7, <1>8

\* Keys that move the cursor leave the entries of a list and its buttons as they are.
LEMMA ListKeysKeepEntries ==
    ASSUME NEW S, NEW b \in ListBox(S), NEW c \in ListMoves(b)
    PROVE  c.items = b.items /\ SameButton(c, b)
<1>1. c = b \/ (\E r : c = [b EXCEPT !.choice = r]) \/ (\E r : c = [b EXCEPT !.scroll = r])
  BY DEF ListMoves, ListUp, ListDown
<1> QED BY <1>1 DEF ListBox, SameButton

LEMMA ListButtons ==
    ASSUME NEW S, NEW b \in ListBox(S), NEW c \in ButtonMoves(b)
    PROVE  /\ c \in ListBox(S) /\ c.items = b.items /\ c.max = b.max
           /\ c.scroll = b.scroll /\ c.choice = b.choice /\ ButtonTrue(c)
<1>1. PICK s \in {1, -1} : c = Select(b, Turn(b.button, s, Buttons[b.kind]))
  BY DEF ButtonMoves
<1> DEFINE r == Turn(b.button, s, Buttons[b.kind])
<1>2. r \in Int
  <2>1. b.kind = "list" /\ b.button \in Int
    BY DEF ListBox
  <2>2. Buttons[b.kind] = 2
    BY <2>1 DEF Buttons
  <2> QED BY <2>1, <2>2 DEF Turn
<1>3. c = [b EXCEPT !.button = r, !.drawn = r]
  BY <1>1 DEF Select
<1> HIDE DEF r
<1> QED BY <1>2, <1>3 DEF ListBox, ButtonTrue

-----------------------------------------------------------------------------
(***************************************************************************)
(* dialog_textbox, for texts that end with a newline. "page" is between the*)
(* beginning and the end also where there is no room for a line; where     *)
(* there is, what is known about the page is true, and search results are  *)
(* never shown from further on than their last page.                       *)
(***************************************************************************)

SameText(c, b) == /\ c.lines = b.lines /\ c.ended = b.ended /\ c.fixed = b.fixed
                  /\ c.jumps = b.jumps /\ c.h = b.h

Within(b) == /\ b \in TextBox /\ b.ended = TRUE /\ 0 < b.lines /\ 0 <= b.h
             /\ 0 <= b.page /\ b.page <= b.lines

LastPage(b) == Max2(0, b.lines + 1 - b.h)

TextSound(b) == /\ Within(b) /\ 0 <= b.len
                /\ b.h > 0 => TextTrue(b) /\ (b.jumps => b.top <= LastPage(b))

LEMMA TextFields ==
    ASSUME NEW b \in TextBox
    PROVE  /\ b.lines \in Int /\ b.lines >= 0 /\ b.fixed \in Int /\ b.fixed >= 0
           /\ b.page \in Int /\ b.top \in Int /\ b.len \in Int /\ b.h \in Int
           /\ b.begin \in BOOLEAN /\ b.end \in BOOLEAN /\ b.jumps \in BOOLEAN
BY DEF TextBox

LEMMA Least ==
    ASSUME NEW x \in Int, NEW y \in Int
    PROVE  /\ Min2(x, y) \in Int /\ Max2(x, y) \in Int
           /\ Min2(x, y) <= x /\ Min2(x, y) <= y /\ (Min2(x, y) = x \/ Min2(x, y) = y)
           /\ Max2(x, y) >= x /\ Max2(x, y) >= y /\ (Max2(x, y) = x \/ Max2(x, y) = y)
BY DEF Min2, Max2

\* Reading on goes to the end of the text at most.
LEMMA ReadOn ==
    ASSUME NEW b, Within(b), NEW n \in Int, 0 <= n, NEW c, c = GetLines(b, n)
    PROVE  /\ Within(c) /\ SameText(c, b) /\ c.top = b.top /\ c.len = b.len
           /\ c.begin = b.begin
           /\ c.page = Min2(b.lines, b.page + n)
           /\ n > 0 => (c.end <=> b.page + n >= b.lines + 1)
<1> DEFINE p == Min2(b.lines, b.page + n)
           e == b.page + n >= b.lines + 1
<1>1. b \in TextBox /\ 0 <= b.page /\ b.page <= b.lines
  BY DEF Within
<1>2. p \in Int /\ 0 <= p /\ p <= b.lines
  BY <1>1, TextFields DEF Min2
<1>3. e \in BOOLEAN
  OBVIOUS
<1>4. CASE n = 0
  <2>1. c = b
    BY <1>4 DEF GetLines
  <2>2. p = b.page
    BY <1>1, <1>4, TextFields DEF Min2
  <2> QED BY <1>4, <2>1, <2>2 DEF SameText
<1>5. CASE n # 0
  <2>1. Count(b) = b.lines + 1
    BY DEF Count, Within
  <2>2. c = [b EXCEPT !.page = p, !.end = e]
    BY <1>5, <2>1 DEF GetLines
  <2> HIDE DEF p, e
  <2>3. c \in TextBox
    BY <1>1, <1>2, <1>3, <2>2 DEF TextBox
  <2>4. /\ c.lines = b.lines /\ c.ended = b.ended /\ c.fixed = b.fixed /\ c.jumps = b.jumps
        /\ c.h = b.h /\ c.top = b.top /\ c.len = b.len /\ c.begin = b.begin
        /\ c.page = p /\ c.end = e
    BY <1>1, <2>2 DEF TextBox
  <2>5. Within(c)
    BY <1>2, <2>3, <2>4 DEF Within
  <2> USE DEF p, e
  <2> QED BY <2>4, <2>5 DEF SameText
<1> QED BY <1>4, <1>5

\* Going back goes to the beginning at most, and knows when it got there.
LEMMA WentBack ==
    ASSUME NEW b, Within(b), NEW n \in Int, NEW c, c = BackLines(b, n),
           NEW k, k = IF n > 0 /\ b.page = b.lines /\ b.end THEN n - 1 ELSE Max2(0, n)
    PROVE  /\ Within(c) /\ SameText(c, b) /\ c.top = b.top /\ c.len = b.len
           /\ k \in Int /\ 0 <= k
           /\ c.page = Max2(0, b.page - k)
           /\ (n > 0 \/ b.page > 0) => c.begin = (c.page = 0)
<1> DEFINE p == Max2(0, b.page - k)
           e == b.end /\ ~(n > 0 /\ b.page = b.lines)
           g == k > 0 /\ b.page <= k
<1>1. b \in TextBox /\ 0 <= b.page /\ b.page <= b.lines /\ 0 < b.lines
  BY DEF Within
<1>2. k \in Int /\ 0 <= k
  <2>1. CASE n > 0 /\ b.page = b.lines /\ b.end
    <3>1. k = n - 1
      BY <2>1
    <3> QED BY <2>1, <3>1
  <2>2. CASE ~(n > 0 /\ b.page = b.lines /\ b.end)
    <3>1. k = Max2(0, n)
      BY <2>2
    <3> QED BY <3>1, Least
  <2> QED BY <2>1, <2>2
<1>3. p \in Int /\ 0 <= p /\ p <= b.lines
  BY <1>1, <1>2, TextFields DEF Max2
<1>4. e \in BOOLEAN /\ g \in BOOLEAN
  OBVIOUS
<1>5. c = [b EXCEPT !.page = p, !.end = e, !.begin = g]
  BY Zenon DEF BackLines
<1>6. (n > 0 \/ b.page > 0) => g = (p = 0)
  <2>1. CASE k > 0
    BY <1>1, <1>2, <2>1, TextFields DEF Max2
  <2>2. CASE k = 0
    <3>1. p = b.page
      BY <1>1, <2>2, TextFields DEF Max2
    <3>2. n > 0 => b.page = b.lines
      <4>1. CASE n > 0 /\ b.page = b.lines /\ b.end
        BY <4>1
      <4>2. CASE ~(n > 0 /\ b.page = b.lines /\ b.end)
        <5>1. k = Max2(0, n)
          BY <4>2
        <5> QED BY <2>2, <5>1, Least
      <4> QED BY <4>1, <4>2
    <3>3. (n > 0 \/ b.page > 0) => p # 0
      BY <1>1, <3>1, <3>2, TextFields
    <3>4. ~g
      BY <2>2
    <3> QED BY <3>3, <3>4
  <2> QED BY <1>2, <2>1, <2>2
<1> HIDE DEF p, e, g
<1>7. c \in TextBox
  BY <1>1, <1>3, <1>4, <1>5 DEF TextBox
<1>8. /\ c.lines = b.lines /\ c.ended = b.ended /\ c.fixed = b.fixed /\ c.jumps = b.jumps
      /\ c.h = b.h /\ c.top = b.top /\ c.len = b.len
      /\ c.page = p /\ c.begin = g
  BY <1>1, <1>5 DEF TextBox
<1>9. Within(c)
  BY <1>3, <1>7, <1>8 DEF Within
<1> USE DEF p
<1> QED BY <1>2, <1>6, <1>8, <1>9 DEF SameText

\* Search results are shown from their last page on at most.
LEMMA WhereItEnds ==
    ASSUME NEW b, Within(b), b.h > 0 => b.begin = (b.page = 0), NEW d, d = WhereEnds(b)
    PROVE  /\ Within(d) /\ SameText(d, b)
           /\ b.h > 0 => /\ d.begin = (d.page = 0)
                         /\ d.page = IF b.jumps THEN Min2(b.page, LastPage(b)) ELSE b.page
<1>1. b \in TextBox /\ 0 <= b.page /\ b.page <= b.lines /\ 0 <= b.h /\ b.h \in Int
      /\ b.page \in Int /\ b.lines \in Int
  BY TextFields DEF Within
<1>2. CASE ~b.jumps
  <2>1. d = b
    BY <1>2 DEF WhereEnds
  <2> QED BY <1>2, <2>1 DEF SameText
<1>3. CASE b.jumps
  <2> DEFINE f == GetLines(b, b.h)
             k == IF b.h > 0 /\ f.page = f.lines /\ f.end THEN b.h - 1 ELSE Max2(0, b.h)
  <2>1. d = BackLines(f, b.h)
    BY <1>3 DEF WhereEnds
  <2>2. f = GetLines(b, b.h)
    OBVIOUS
  <2>3. k = IF b.h > 0 /\ f.page = f.lines /\ f.end THEN b.h - 1 ELSE Max2(0, b.h)
    OBVIOUS
  <2> HIDE DEF f, k
  <2>4. /\ Within(f) /\ SameText(f, b) /\ f.page = Min2(b.lines, b.page + b.h)
        /\ b.h > 0 => (f.end <=> b.page + b.h >= b.lines + 1)
    <3>1. b.h \in Int /\ 0 <= b.h
      BY <1>1
    <3> QED BY ONLY Within(b), <2>2, <3>1, ReadOn, SMTT(60)
  <2>5. /\ Within(d) /\ SameText(d, f) /\ k \in Int /\ 0 <= k /\ d.page = Max2(0, f.page - k)
        /\ (b.h > 0 \/ f.page > 0) => d.begin = (d.page = 0)
    BY <1>1, <2>1, <2>4, <2>3, WentBack, SMTT(60)
  <2>6. ASSUME b.h > 0
        PROVE  d.page = Min2(b.page, LastPage(b))
    <3>1. CASE b.page + b.h >= b.lines + 1
      <4>1. f.page = b.lines /\ f.end /\ f.lines = b.lines
        BY <1>1, <2>4, <2>6, <3>1 DEF Min2, SameText
      <4>2. k = b.h - 1
        BY <2>3, <2>6, <4>1
      <4> QED BY <1>1, <2>5, <3>1, <4>1, <4>2 DEF Max2, Min2, LastPage
    <3>2. CASE ~(b.page + b.h >= b.lines + 1)
      <4>1. f.page = b.page + b.h /\ ~f.end
        BY <1>1, <2>4, <2>6, <3>2 DEF Min2
      <4>2. k = b.h
        BY <1>1, <2>3, <2>6, <4>1 DEF Max2
      <4> QED BY <1>1, <2>5, <3>2, <4>1, <4>2 DEF Max2, Min2, LastPage
    <3> QED BY <3>1, <3>2
  <2> QED BY <1>3, <2>4, <2>5, <2>6 DEF SameText
<1> QED BY <1>2, <1>3

LEMMA IsPrinted ==
    ASSUME NEW b, Within(b), b.h > 0 => b.begin = (b.page = 0), NEW c, c = PrintPage(b)
    PROVE  /\ TextSound(c) /\ SameText(c, b)
           /\ b.h > 0 => c.top = IF b.jumps THEN Min2(b.page, LastPage(b)) ELSE b.page
<1> DEFINE d == WhereEnds(b)
           m == Min2(d.h, Max2(1, Count(d) - d.page))
           q == [d EXCEPT !.top = d.page, !.len = m]
<1>1. c = GetLines(q, d.h)
  BY DEF PrintPage, Printed
<1>2. /\ Within(d) /\ SameText(d, b)
      /\ b.h > 0 => /\ d.begin = (d.page = 0)
                    /\ d.page = IF b.jumps THEN Min2(b.page, LastPage(b)) ELSE b.page
  BY WhereItEnds
<1> HIDE DEF d
<1>3. /\ d \in TextBox /\ d.page \in Int /\ d.lines \in Int /\ d.h \in Int
      /\ 0 <= d.page /\ d.page <= d.lines /\ 0 <= d.h /\ d.h = b.h
  BY <1>2, TextFields DEF Within, SameText
<1>4. Count(d) = d.lines + 1
  BY <1>2 DEF Count, Within
<1>5. m \in Int /\ 0 <= m /\ m = Min2(d.h, d.lines + 1 - d.page)
  BY <1>3, <1>4 DEF Min2, Max2
<1> HIDE DEF m
<1>6. q \in TextBox
  BY <1>3, <1>5 DEF TextBox
<1>7. /\ q.lines = d.lines /\ q.ended = d.ended /\ q.fixed = d.fixed /\ q.jumps = d.jumps
      /\ q.h = d.h /\ q.top = d.page /\ q.len = m /\ q.page = d.page /\ q.begin = d.begin
  BY <1>3, <1>5 DEF TextBox
<1> HIDE DEF q
<1>8. Within(q)
  BY <1>2, <1>6, <1>7 DEF Within
<1>9. /\ Within(c) /\ SameText(c, q) /\ c.top = q.top /\ c.len = q.len /\ c.begin = q.begin
      /\ c.page = Min2(q.lines, q.page + d.h)
      /\ d.h > 0 => (c.end <=> q.page + d.h >= q.lines + 1)
  <2>1. d.h \in Int /\ 0 <= d.h
    BY <1>3
  <2> QED BY ONLY <1>1, <1>8, <2>1, ReadOn, SMTT(60)
<1>10. SameText(c, d) /\ SameText(c, b)
  BY <1>2, <1>7, <1>9 DEF SameText
<1>11. 0 <= c.len
  BY <1>5, <1>7, <1>9
<1>12. ASSUME b.h > 0
       PROVE  /\ TextTrue(c) /\ (c.jumps => c.top <= LastPage(c))
              /\ c.top = IF b.jumps THEN Min2(b.page, LastPage(b)) ELSE b.page
  <2>1. Count(c) = d.lines + 1 /\ c.lines = d.lines /\ c.h = d.h /\ c.top = d.page
    BY <1>4, <1>7, <1>9, <1>10 DEF Count, SameText
  <2>2. 0 <= c.top /\ c.top <= c.lines
    BY <1>3, <2>1
  <2>3. c.page = Min2(c.lines, c.top + c.h) /\ c.len = Min2(c.h, Count(c) - c.top)
    <3>1. c.page = Min2(d.lines, d.page + d.h) /\ c.len = m
      BY <1>7, <1>9
    <3> QED BY <1>3, <1>5, <2>1, <3>1 DEF Min2
  <2>4. c.end = (c.top + c.h >= Count(c))
    <3> DEFINE e == c.top + c.h >= Count(c)
    <3>1. c.end \in BOOLEAN
      BY <1>9, TextFields DEF Within
    <3>2. c.end <=> e
      BY <1>3, <1>7, <1>9, <1>12, <2>1
    <3>3. c.end = e
      <4> HIDE DEF e
      <4> QED BY <3>1, <3>2
    <3> QED BY <3>3, Zenon
  <2>5. c.begin = (c.top = 0)
    BY <1>2, <1>7, <1>9, <1>12, <2>1
  <2>6. TextTrue(c)
    BY <2>2, <2>3, <2>4, <2>5 DEF TextTrue
  <2>7. c.top = IF b.jumps THEN Min2(b.page, LastPage(b)) ELSE b.page
    BY <1>2, <1>12, <2>1
  <2>8. b.page \in Int /\ LastPage(b) \in Int /\ LastPage(c) = LastPage(b) /\ c.jumps = b.jumps
    BY <1>10, TextFields DEF LastPage, SameText, Within, Max2
  <2>9. c.jumps => c.top <= LastPage(c)
    BY <2>7, <2>8 DEF Min2
  <2> QED BY <2>6, <2>7, <2>9
<1> QED BY <1>3, <1>9, <1>10, <1>11, <1>12 DEF TextSound, SameText

-----------------------------------------------------------------------------

LEMMA Opened ==
    ASSUME NEW b, Within(b), b.fixed = 0 \/ b.fixed >= 4, b.begin = (b.page = 0),
           NEW rows \in Nat, NEW c, c = LayText(b, rows), c # TooSmall
    PROVE  /\ TextSound(c) /\ c.h = BoxRows(b.fixed, rows)
           /\ c.lines = b.lines /\ c.fixed = b.fixed /\ c.jumps = b.jumps
           /\ c.h > 0 => c.top = IF b.jumps THEN Min2(b.page, LastPage(c)) ELSE b.page
<1> DEFINE n == BoxRows(b.fixed, rows)
           d == [b EXCEPT !.h = n]
<1>1. b \in TextBox
  BY DEF Within
<1>2. rows >= 8 /\ c = PrintPage(d)
  BY DEF LayText
<1>3. n \in Int /\ 0 <= n
  <2>1. b.fixed \in Int
    BY <1>1, TextFields
  <2>2. CASE b.fixed = 0
    <3>1. n = rows - 4 - 4
      BY <2>2 DEF BoxRows
    <3> QED BY <1>2, <3>1
  <2>3. CASE b.fixed # 0
    <3>1. n = b.fixed - 4
      BY <2>3 DEF BoxRows
    <3> QED BY <2>1, <2>3, <3>1
  <2> QED BY <2>2, <2>3
<1>4. n = BoxRows(b.fixed, rows)
  OBVIOUS
<1> HIDE DEF n
<1>5. d \in TextBox
  BY <1>1, <1>3 DEF TextBox
<1>6. /\ d.lines = b.lines /\ d.ended = b.ended /\ d.fixed = b.fixed /\ d.jumps = b.jumps
      /\ d.h = n /\ d.page = b.page /\ d.begin = b.begin
  BY <1>1, <1>3 DEF TextBox
<1> HIDE DEF d
<1>7. Within(d) /\ d.begin = (d.page = 0)
  BY <1>3, <1>5, <1>6 DEF Within
<1>8. /\ TextSound(c) /\ SameText(c, d)
      /\ d.h > 0 => c.top = IF d.jumps THEN Min2(d.page, LastPage(d)) ELSE d.page
  BY <1>2, <1>7, IsPrinted
<1>9. LastPage(c) = LastPage(d)
  BY <1>8 DEF LastPage, SameText
<1> QED BY <1>4, <1>6, <1>8, <1>9 DEF SameText

\* After a change of size, be it from a window in which no line had room, the page is again
\* what the keys act on (textbox.c:71-137, 227-232).
THEOREM TextResizedTrue ==
    ASSUME NEW b, TextSound(b), b.fixed = 0 \/ b.fixed >= 4, NEW rows \in Nat,
           NEW c, c = ResizeText(b, rows), c # TooSmall
    PROVE  TextSound(c) /\ c.h = BoxRows(b.fixed, rows)
<1> DEFINE n == b.h + 4
           d == BackLines(b, n)
           k == IF n > 0 /\ b.page = b.lines /\ b.end THEN n - 1 ELSE Max2(0, n)
<1>1. Within(b)
  BY DEF TextSound
<1>2. n \in Int /\ n > 0
  BY <1>1, TextFields DEF Within
<1>3. c = LayText(d, rows)
  BY DEF ResizeText
<1>4. d = BackLines(b, n) /\ k = IF n > 0 /\ b.page = b.lines /\ b.end THEN n - 1 ELSE Max2(0, n)
  OBVIOUS
<1> HIDE DEF n, d, k
<1>5. Within(d) /\ SameText(d, b) /\ d.begin = (d.page = 0)
  BY <1>1, <1>2, <1>4, WentBack, SMTT(60)
<1>6. d.fixed = b.fixed
  BY <1>5 DEF SameText
<1> QED BY <1>3, <1>5, <1>6, Opened

\* "len" lines are shown from "top" on, and going back from there is counted from the last
\* of them, the end of the text included.
LEMMA BackFromShown ==
    ASSUME NEW b, TextSound(b), b.h > 0, NEW n \in Int, 0 <= n, n > 0 \/ ~b.end,
           NEW d, d = BackLines(b, n)
    PROVE  /\ Within(d) /\ SameText(d, b) /\ d.begin = (d.page = 0)
           /\ d.page = Max2(0, b.top + b.len - n)
           /\ b.len > 0 /\ b.len <= b.h /\ 0 <= b.top /\ b.top <= b.lines
           /\ ~b.end => b.len = b.h /\ b.top + b.h <= b.lines
           /\ b.end => b.top + b.len = b.lines + 1
<1> DEFINE k == IF n > 0 /\ b.page = b.lines /\ b.end THEN n - 1 ELSE Max2(0, n)
<1>1. /\ Within(b) /\ b.page \in Int /\ b.lines \in Int /\ b.top \in Int /\ b.len \in Int
      /\ b.h \in Int
  BY TextFields DEF TextSound, Within
<1>2. k = IF n > 0 /\ b.page = b.lines /\ b.end THEN n - 1 ELSE Max2(0, n)
  OBVIOUS
<1> HIDE DEF k
<1>3. /\ Within(d) /\ SameText(d, b) /\ d.page = Max2(0, b.page - k)
      /\ (n > 0 \/ b.page > 0) => d.begin = (d.page = 0)
  <2>1. Within(b)
    BY <1>1
  <2>2. /\ Within(d) /\ SameText(d, b) /\ d.page = Max2(0, b.page - k)
        /\ (n > 0 \/ b.page > 0) => d.begin = (d.page = 0)
    BY ONLY <2>1, <1>2, WentBack, n \in Int, d = BackLines(b, n), SMTT(60)
  <2> QED BY <2>2
<1>4. /\ 0 <= b.top /\ b.top <= b.lines
      /\ b.page = Min2(b.lines, b.top + b.h) /\ b.len = Min2(b.h, b.lines + 1 - b.top)
      /\ b.end <=> b.top + b.h >= b.lines + 1
  <2>1. Count(b) = b.lines + 1
    BY <1>1 DEF Count, Within
  <2>2. TextTrue(b)
    BY DEF TextSound
  <2>3. /\ 0 <= b.top /\ b.top <= b.lines
        /\ b.page = Min2(b.lines, b.top + b.h) /\ b.len = Min2(b.h, b.lines + 1 - b.top)
    <3>1. /\ 0 <= b.top /\ b.top <= b.lines
          /\ b.page = Min2(b.lines, b.top + b.h) /\ b.len = Min2(b.h, Count(b) - b.top)
      BY <2>2 DEF TextTrue
    <3> QED BY <1>1, <2>1, <3>1 DEF Min2
  <2>4. b.end = (b.top + b.h >= b.lines + 1)
    BY <2>1, <2>2, Zenon DEF TextTrue
  <2>5. b.end <=> b.top + b.h >= b.lines + 1
    BY <2>4, Zenon
  <2> QED BY <2>3, <2>5
<1>5. CASE b.end
  <2>1. b.page = b.lines /\ b.top + b.len = b.lines + 1 /\ b.len > 0 /\ b.len <= b.h
    BY <1>1, <1>4, <1>5 DEF Min2
  <2>2. n > 0 /\ k = n - 1
    BY <1>2, <1>5, <2>1
  <2>3. b.page - k = b.top + b.len - n
    BY <1>1, <2>1, <2>2
  <2> QED BY <1>3, <1>4, <1>5, <2>1, <2>2, <2>3
<1>6. CASE ~b.end
  <2>1. b.page = b.top + b.h /\ b.len = b.h /\ b.top + b.h <= b.lines /\ b.page > 0
    BY <1>1, <1>4, <1>6 DEF Min2
  <2>2. k = n
    BY <1>2, <1>6 DEF Max2
  <2>3. b.page - k = b.top + b.len - n
    BY <1>1, <2>1, <2>2
  <2>4. d.page = Max2(0, b.top + b.len - n)
    BY <1>3, <2>3
  <2>5. b.len > 0 /\ b.len <= b.h
    BY <1>1, <2>1
  <2>6. d.begin = (d.page = 0)
    BY <1>3, <2>1
  <2> QED BY <1>3, <1>4, <1>6, <2>1, <2>4, <2>5, <2>6
<1> QED BY <1>5, <1>6

\* A step back of any number of lines and drawing again, also where no line has room.
LEMMA BackAndDrawn ==
    ASSUME NEW b, TextSound(b), NEW n \in Int, b.h > 0 => 0 <= n /\ (n > 0 \/ ~b.end),
           NEW c, c = PrintPage(BackLines(b, n))
    PROVE  /\ TextSound(c) /\ SameText(c, b)
           /\ b.h > 0 => c.top = IF b.jumps THEN Min2(Max2(0, b.top + b.len - n), LastPage(b))
                                 ELSE Max2(0, b.top + b.len - n)
<1> DEFINE d == BackLines(b, n)
           k == IF n > 0 /\ b.page = b.lines /\ b.end THEN n - 1 ELSE Max2(0, n)
<1>1. Within(b)
  BY DEF TextSound
<1>2. d = BackLines(b, n) /\ c = PrintPage(d)
  OBVIOUS
<1>3. k = IF n > 0 /\ b.page = b.lines /\ b.end THEN n - 1 ELSE Max2(0, n)
  OBVIOUS
<1> HIDE DEF d, k
<1>4. Within(d) /\ SameText(d, b)
  BY <1>1, <1>2, <1>3, WentBack, SMTT(60)
<1>5. b.h > 0 => d.begin = (d.page = 0) /\ d.page = Max2(0, b.top + b.len - n)
  BY <1>2, BackFromShown
<1>6. d.h = b.h /\ d.jumps = b.jumps /\ LastPage(d) = LastPage(b)
  BY <1>4 DEF SameText, LastPage
<1>7. /\ TextSound(c) /\ SameText(c, d)
      /\ d.h > 0 => c.top = IF d.jumps THEN Min2(d.page, LastPage(d)) ELSE d.page
  BY <1>2, <1>4, <1>5, <1>6, IsPrinted
<1> QED BY <1>4, <1>5, <1>6, <1>7 DEF SameText

\* Home, end, a page on: the page is set without counting.
LEMMA SetAndDrawn ==
    ASSUME NEW b, Within(b), NEW p \in Int, 0 <= p, p <= b.lines, NEW g \in BOOLEAN,
           b.h > 0 => g = (p = 0),
           NEW c, c = PrintPage([b EXCEPT !.begin = g, !.page = p])
    PROVE  /\ TextSound(c) /\ SameText(c, b)
           /\ b.h > 0 => c.top = IF b.jumps THEN Min2(p, LastPage(b)) ELSE p
<1> DEFINE d == [b EXCEPT !.begin = g, !.page = p]
<1>1. b \in TextBox
  BY DEF Within
<1>2. d \in TextBox
  BY <1>1 DEF TextBox
<1>3. /\ d.lines = b.lines /\ d.ended = b.ended /\ d.fixed = b.fixed /\ d.jumps = b.jumps
      /\ d.h = b.h /\ d.page = p /\ d.begin = g
  BY <1>1 DEF TextBox
<1>4. c = PrintPage(d)
  OBVIOUS
<1> HIDE DEF d
<1>5. Within(d) /\ SameText(d, b) /\ LastPage(d) = LastPage(b)
  BY <1>2, <1>3 DEF Within, SameText, LastPage
<1>6. /\ TextSound(c) /\ SameText(c, d)
      /\ d.h > 0 => c.top = IF d.jumps THEN Min2(d.page, LastPage(d)) ELSE d.page
  BY <1>3, <1>4, <1>5, IsPrinted
<1> QED BY <1>3, <1>5, <1>6 DEF SameText

LEMMA ShownTypes ==
    ASSUME NEW b, TextSound(b)
    PROVE  /\ Within(b) /\ b.lines \in Int /\ b.page \in Int /\ b.top \in Int /\ b.len \in Int
           /\ b.h \in Int /\ 0 < b.lines /\ 0 <= b.h /\ 0 <= b.len /\ SameText(b, b)
           /\ LastPage(b) \in Int /\ 0 <= LastPage(b)
<1>1. Within(b) /\ 0 <= b.len
  BY DEF TextSound
<1>2. b \in TextBox /\ 0 < b.lines /\ 0 <= b.h
  BY <1>1 DEF Within
<1>3. /\ b.lines \in Int /\ b.page \in Int /\ b.top \in Int /\ b.len \in Int /\ b.h \in Int
  BY <1>2, TextFields
<1>4. LastPage(b) \in Int /\ 0 <= LastPage(b)
  BY <1>3 DEF LastPage, Max2
<1> QED BY <1>1, <1>2, <1>3, <1>4 DEF SameText

LEMMA ShownNow ==
    ASSUME NEW b, TextSound(b), b.h > 0
    PROVE  /\ b.len > 0 /\ b.len <= b.h /\ 0 <= b.top /\ b.top <= b.lines
           /\ ~b.end => b.len = b.h /\ b.top + b.h <= b.lines /\ b.page = b.top + b.h
           /\ b.end => b.top + b.len = b.lines + 1
           /\ b.begin = (b.top = 0)
           /\ b.jumps => b.top <= LastPage(b)
<1>1. TextTrue(b) /\ (b.jumps => b.top <= LastPage(b))
  BY DEF TextSound
<1> DEFINE d == BackLines(b, 1)
<1>2. d = BackLines(b, 1)
  OBVIOUS
<1> HIDE DEF d
<1>3. /\ b.len > 0 /\ b.len <= b.h /\ 0 <= b.top /\ b.top <= b.lines
      /\ ~b.end => b.len = b.h /\ b.top + b.h <= b.lines
      /\ b.end => b.top + b.len = b.lines + 1
  BY <1>2, BackFromShown
<1>4. b.page = Min2(b.lines, b.top + b.h) /\ b.begin = (b.top = 0)
  BY <1>1 DEF TextTrue
<1>5. ~b.end => b.page = b.top + b.h
  BY <1>3, <1>4, ShownTypes DEF Min2
<1> QED BY <1>1, <1>3, <1>4, <1>5

\* Every key leaves the text with a page that is what the keys act on, and stops scrolling
\* at the ends and nowhere else (textbox.c:139-226, 252-344).
THEOREM TextKeysKeepTrue ==
    ASSUME NEW b, TextSound(b), NEW c \in TextMoves(b)
    PROVE  TextSound(c) /\ SameText(c, b)
<1>1. /\ Within(b) /\ b.lines \in Int /\ b.page \in Int /\ b.top \in Int /\ b.len \in Int
      /\ b.h \in Int /\ 0 < b.lines /\ 0 <= b.h /\ 0 <= b.len /\ SameText(b, b)
  BY ShownTypes
<1>2. b.h > 0 => /\ b.len > 0
                 /\ ~b.end => b.page = b.top + b.h /\ 0 <= b.top
  BY ShownNow
<1>3. b \in TextBox /\ 0 <= b.page /\ b.page <= b.lines
  BY <1>1 DEF Within
<1>4. ASSUME NEW n \in Int, b.h > 0 => 0 <= n /\ (n > 0 \/ ~b.end), c = PrintPage(BackLines(b, n))
      PROVE  TextSound(c) /\ SameText(c, b)
  BY <1>4, BackAndDrawn
<1>5. CASE c = b
  BY <1>1, <1>5
<1>6. CASE c = TextHome(b) /\ c # b
  <2> DEFINE z == 0
             g == TRUE
  <2>1. c = PrintPage([b EXCEPT !.begin = g, !.page = z])
    BY <1>6 DEF TextHome
  <2>2. z \in Int /\ 0 <= z /\ z <= b.lines /\ g \in BOOLEAN /\ g = (z = 0)
    BY <1>1
  <2> HIDE DEF z, g
  <2> QED BY <1>1, <2>1, <2>2, SetAndDrawn
<1>7. CASE c = TextEnd(b)
  <2> DEFINE t == TRUE
             p == b.lines
             d == [b EXCEPT !.end = t, !.page = p]
             e == BackLines(d, b.h)
             k == IF b.h > 0 /\ d.page = d.lines /\ d.end THEN b.h - 1 ELSE Max2(0, b.h)
  <2>1. c = PrintPage(e)
    BY <1>7 DEF TextEnd
  <2>2. t \in BOOLEAN /\ p \in Int /\ p = b.lines
    BY <1>1
  <2>3. d \in TextBox
    <3> HIDE DEF t, p
    <3> QED BY <1>3, <2>2 DEF TextBox
  <2>4. /\ d.lines = b.lines /\ d.ended = b.ended /\ d.fixed = b.fixed /\ d.jumps = b.jumps
        /\ d.h = b.h /\ d.page = b.lines
    <3> HIDE DEF t, p
    <3> QED BY <1>3, <2>2 DEF TextBox
  <2>5. /\ e = BackLines(d, b.h)
        /\ k = IF b.h > 0 /\ d.page = d.lines /\ d.end THEN b.h - 1 ELSE Max2(0, b.h)
    OBVIOUS
  <2> HIDE DEF t, p, d, e, k
  <2>6. Within(d) /\ SameText(d, b)
    BY <1>1, <2>3, <2>4 DEF Within, SameText
  <2>7. /\ Within(e) /\ SameText(e, d)
        /\ b.h > 0 => e.begin = (e.page = 0)
    BY <1>1, <2>5, <2>6, WentBack, SMTT(60)
  <2>8. SameText(e, b)
    BY <2>6, <2>7 DEF SameText
  <2>9. e.h = b.h
    BY <2>8 DEF SameText
  <2>10. TextSound(c) /\ SameText(c, e)
    BY <2>1, <2>7, <2>9, IsPrinted
  <2> QED BY <2>8, <2>10 DEF SameText
<1>8. CASE c = TextUp(b) /\ c # b
  <2>1. c = PrintPage(BackLines(b, b.len + 1))
    BY <1>8 DEF TextUp
  <2>2. b.len + 1 \in Int /\ 0 <= b.len + 1 /\ b.len + 1 > 0
    BY <1>1
  <2> QED BY <1>4, <2>1, <2>2
<1>9. CASE c = TextPageUp(b) /\ c # b
  <2>1. c = PrintPage(BackLines(b, b.len + b.h))
    BY <1>9 DEF TextPageUp
  <2>2. b.len + b.h \in Int /\ (b.h > 0 => 0 <= b.len + b.h /\ b.len + b.h > 0)
    BY <1>1
  <2> QED BY <1>4, <2>1, <2>2
<1>10. CASE c = TextDown(b) /\ c # b
  <2>1. ~b.end /\ c = PrintPage(BackLines(b, b.len - 1))
    BY <1>10 DEF TextDown
  <2>2. b.len - 1 \in Int /\ (b.h > 0 => 0 <= b.len - 1)
    BY <1>1, <1>2
  <2> QED BY <1>4, <2>1, <2>2
<1>11. CASE c = TextPageDown(b) /\ c # b
  <2> DEFINE g == FALSE
             p == b.page
  <2>1. ~b.end /\ c = PrintPage([b EXCEPT !.begin = g])
    BY <1>11 DEF TextPageDown
  <2>2. [b EXCEPT !.begin = g] = [b EXCEPT !.begin = g, !.page = p]
    BY <1>3 DEF TextBox
  <2>3. p \in Int /\ 0 <= p /\ p <= b.lines /\ g \in BOOLEAN /\ (b.h > 0 => p # 0)
    BY <1>1, <1>2, <1>3, <2>1
  <2>4. b.h > 0 => g = (p = 0)
    BY <2>3
  <2>5. c = PrintPage([b EXCEPT !.begin = g, !.page = p])
    BY <2>1, <2>2
  <2> HIDE DEF g, p
  <2> QED BY <1>1, <2>3, <2>4, <2>5, SetAndDrawn
<1>12. CASE c = TextSide(b)
  <2>1. c = PrintPage(BackLines(b, b.len))
    BY <1>12 DEF TextSide
  <2>2. b.h > 0 => 0 <= b.len /\ b.len > 0
    BY <1>1, <1>2
  <2> QED BY <1>1, <1>4, <2>1, <2>2
<1> QED BY <1>5, <1>6, <1>7, <1>8, <1>9, <1>10, <1>11, <1>12 DEF TextMoves

-----------------------------------------------------------------------------
(* A text is the same text whatever is done with the dialog, also one that *)
(* does not end with a line.                                               *)
SameLines(c, b) == c \in TextBox /\ c.ended = b.ended /\ c.fixed = b.fixed

LEMMA StillRead ==
    ASSUME NEW b \in TextBox, NEW n \in Int, NEW c, c = GetLines(b, n)
    PROVE  SameLines(c, b)
<1> DEFINE p == Min2(b.lines, b.page + n)
           e == b.page + n >= Count(b)
<1>1. p \in Int /\ e \in BOOLEAN
  BY TextFields DEF Min2
<1>2. c = b \/ c = [b EXCEPT !.page = p, !.end = e]
  BY DEF GetLines
<1> HIDE DEF p, e
<1> QED BY <1>1, <1>2 DEF TextBox, SameLines

LEMMA StillBack ==
    ASSUME NEW b \in TextBox, NEW n \in Int, NEW c, c = BackLines(b, n)
    PROVE  SameLines(c, b) /\ c.page >= 0
<1> DEFINE k == IF n > 0 /\ b.page = b.lines /\ b.end THEN n - 1 ELSE Max2(0, n)
           p == Max2(0, b.page - k)
           e == b.end /\ ~(n > 0 /\ b.page = b.lines)
           g == k > 0 /\ b.page <= k
<1>1. k \in Int
  BY DEF Max2
<1>2. p \in Int /\ p >= 0
  <2> HIDE DEF k
  <2> QED BY <1>1, TextFields DEF Max2
<1>3. e \in BOOLEAN /\ g \in BOOLEAN
  OBVIOUS
<1>4. c = [b EXCEPT !.page = p, !.end = e, !.begin = g]
  BY Zenon DEF BackLines
<1> HIDE DEF p, e, g
<1> QED BY <1>2, <1>3, <1>4 DEF TextBox, SameLines

LEMMA StillPrinted ==
    ASSUME NEW b \in TextBox, NEW c, c = PrintPage(b)
    PROVE  SameLines(c, b)
<1> DEFINE f == GetLines(b, b.h)
           d == WhereEnds(b)
           m == Min2(d.h, Max2(1, Count(d) - d.page))
           q == [d EXCEPT !.top = d.page, !.len = m]
<1>1. c = GetLines(q, d.h) /\ (d = b \/ d = BackLines(f, b.h))
  BY DEF PrintPage, Printed, WhereEnds
<1>2. SameLines(f, b)
  BY TextFields, StillRead
<1>3. SameLines(d, b)
  <2>1. CASE d = b
    BY <2>1 DEF SameLines
  <2>2. CASE d = BackLines(f, b.h)
    <3>1. f \in TextBox /\ b.h \in Int
      BY <1>2, TextFields DEF SameLines
    <3>2. SameLines(d, f)
      <4> HIDE DEF d, f
      <4> QED BY <2>2, <3>1, StillBack
    <3> QED BY <1>2, <3>2 DEF SameLines
  <2> QED BY <1>1, <2>1, <2>2
<1>4. d \in TextBox /\ d.h \in Int /\ d.page \in Int
  BY <1>3, TextFields DEF SameLines
<1>5. m \in Int
  <2>1. Count(d) \in Int
    BY <1>4, TextFields DEF Count
  <2> QED BY <1>4, <2>1 DEF Min2, Max2
<1>6. q \in TextBox /\ q.ended = d.ended /\ q.fixed = d.fixed
  <2> HIDE DEF d, m
  <2> QED BY <1>4, <1>5 DEF TextBox
<1>7. SameLines(c, q)
  <2> HIDE DEF d, q
  <2> QED BY <1>1, <1>4, <1>6, StillRead
<1> QED BY <1>3, <1>6, <1>7 DEF SameLines

LEMMA StillLaid ==
    ASSUME NEW b \in TextBox, NEW rows \in Nat, NEW c, c = LayText(b, rows), c # TooSmall
    PROVE  SameLines(c, b)
<1> DEFINE h == BoxRows(b.fixed, rows)
           d == [b EXCEPT !.h = h]
<1>1. c = PrintPage(d)
  BY DEF LayText
<1>2. h \in Int
  BY TextFields DEF BoxRows
<1>3. d \in TextBox /\ d.ended = b.ended /\ d.fixed = b.fixed
  <2> HIDE DEF h
  <2> QED BY <1>2 DEF TextBox
<1>4. SameLines(c, d)
  <2> HIDE DEF d
  <2> QED BY <1>1, <1>3, StillPrinted
<1> QED BY <1>3, <1>4 DEF SameLines

LEMMA TextStaysText ==
    ASSUME NEW b \in TextBox
    PROVE  /\ \A c \in TextMoves(b) : SameLines(c, b)
           /\ \A rows \in Nat : \/ ResizeText(b, rows) = TooSmall
                                \/ SameLines(ResizeText(b, rows), b)
<1>1. b.len \in Int /\ b.h \in Int /\ b.lines \in Int /\ b.page \in Int
  BY TextFields
<1>2. SameLines(b, b)
  BY DEF SameLines
<1>3. ASSUME NEW d \in TextBox, d.ended = b.ended, d.fixed = b.fixed
      PROVE  SameLines(PrintPage(d), b)
  BY <1>3, StillPrinted DEF SameLines
<1>4. ASSUME NEW n \in Int PROVE SameLines(PrintPage(BackLines(b, n)), b)
  <2> DEFINE d == BackLines(b, n)
  <2>1. SameLines(d, b)
    BY StillBack
  <2> HIDE DEF d
  <2> QED BY <1>3, <2>1 DEF SameLines, d
<1>5. ASSUME NEW p \in Int, NEW e \in BOOLEAN, NEW g \in BOOLEAN, NEW d,
             d = [b EXCEPT !.begin = g, !.end = e, !.page = p]
      PROVE  d \in TextBox /\ d.ended = b.ended /\ d.fixed = b.fixed
  BY <1>5 DEF TextBox
<1>6. SameLines(TextHome(b), b)
  <2> DEFINE z == 0
             g == TRUE
             e == b.end
             d == [b EXCEPT !.begin = g, !.end = e, !.page = z]
  <2>1. TextHome(b) = b \/ TextHome(b) = PrintPage([b EXCEPT !.begin = g, !.page = z])
    BY DEF TextHome
  <2>2. [b EXCEPT !.begin = g, !.page = z] = d
    BY DEF TextBox
  <2>3. z \in Int /\ g \in BOOLEAN /\ e \in BOOLEAN
    BY TextFields
  <2> HIDE DEF z, g, e
  <2>4. d \in TextBox /\ d.ended = b.ended /\ d.fixed = b.fixed
    BY <1>5, <2>3
  <2> HIDE DEF d
  <2> QED BY <1>2, <1>3, <2>1, <2>2, <2>4
<1>7. SameLines(TextPageDown(b), b)
  <2> DEFINE p == b.page
             g == FALSE
             e == b.end
             d == [b EXCEPT !.begin = g, !.end = e, !.page = p]
  <2>1. TextPageDown(b) = b \/ TextPageDown(b) = PrintPage([b EXCEPT !.begin = g])
    BY DEF TextPageDown
  <2>2. [b EXCEPT !.begin = g] = d
    BY DEF TextBox
  <2>3. p \in Int /\ g \in BOOLEAN /\ e \in BOOLEAN
    BY TextFields
  <2> HIDE DEF p, g, e
  <2>4. d \in TextBox /\ d.ended = b.ended /\ d.fixed = b.fixed
    BY <1>5, <2>3
  <2> HIDE DEF d
  <2> QED BY <1>2, <1>3, <2>1, <2>2, <2>4
<1>8. SameLines(TextEnd(b), b)
  <2> DEFINE p == b.lines
             g == b.begin
             e == TRUE
             d == [b EXCEPT !.begin = g, !.end = e, !.page = p]
             f == BackLines(d, b.h)
  <2>1. TextEnd(b) = PrintPage(BackLines([b EXCEPT !.end = e, !.page = p], b.h))
    BY DEF TextEnd
  <2>2. [b EXCEPT !.end = e, !.page = p] = d
    BY DEF TextBox
  <2>3. p \in Int /\ g \in BOOLEAN /\ e \in BOOLEAN
    BY TextFields
  <2> HIDE DEF p, g, e
  <2>4. d \in TextBox /\ d.ended = b.ended /\ d.fixed = b.fixed
    BY <1>5, <2>3
  <2>5. TextEnd(b) = PrintPage(f)
    BY <2>1, <2>2
  <2>6. f = BackLines(d, b.h)
    OBVIOUS
  <2> HIDE DEF d, f
  <2>7. SameLines(f, d)
    BY <1>1, <2>4, <2>6, StillBack
  <2>8. f \in TextBox /\ f.ended = b.ended /\ f.fixed = b.fixed
    BY <2>4, <2>7 DEF SameLines
  <2> QED BY <1>3, <2>5, <2>8
<1>9. ASSUME NEW rows \in Nat, ResizeText(b, rows) # TooSmall
      PROVE  SameLines(ResizeText(b, rows), b)
  <2> DEFINE d == BackLines(b, b.h + 4)
             c == ResizeText(b, rows)
  <2>1. SameLines(d, b)
    BY <1>1, StillBack
  <2>2. c = LayText(d, rows) /\ c # TooSmall
    BY <1>9 DEF ResizeText
  <2> HIDE DEF d, c
  <2>3. SameLines(c, d)
    BY <2>1, <2>2, StillLaid DEF SameLines
  <2>4. SameLines(c, b)
    BY <2>1, <2>3 DEF SameLines
  <2> QED BY <2>4 DEF c
<1>10. SameLines(TextUp(b), b) /\ SameLines(TextPageUp(b), b)
  <2>1. b.len + 1 \in Int /\ b.len + b.h \in Int
    BY <1>1
  <2> QED BY <1>2, <1>4, <2>1 DEF TextUp, TextPageUp
<1>11. SameLines(TextDown(b), b) /\ SameLines(TextSide(b), b)
  <2>1. b.len - 1 \in Int
    BY <1>1
  <2> QED BY <1>1, <1>2, <1>4, <2>1 DEF TextDown, TextSide
<1> QED BY <1>6, <1>7, <1>8, <1>9, <1>10, <1>11 DEF TextMoves

LEMMA TextOpens ==
    ASSUME NEW lines \in Nat, NEW ended \in BOOLEAN, NEW fixed \in Nat, NEW jumps \in BOOLEAN,
           NEW from \in Nat, NEW rows \in Nat,
           NEW c, c = OpenText(lines, ended, fixed, jumps, from, rows), c # TooSmall
    PROVE  c \in TextBox /\ c.ended = ended /\ c.fixed = fixed
<1> DEFINE g == from = 0
           z == 0
           a == [kind |-> "text", lines |-> lines, ended |-> ended, fixed |-> fixed,
                 jumps |-> jumps, page |-> z, top |-> z, len |-> z, h |-> z,
                 begin |-> g, end |-> FALSE]
           d == GetLines(a, from)
<1>1. c = LayText(d, rows)
  BY DEF OpenText
<1>2. g \in BOOLEAN
  OBVIOUS
<1>3. a \in TextBox /\ a.ended = ended /\ a.fixed = fixed
  <2> HIDE DEF g
  <2> QED BY <1>2 DEF TextBox
<1>4. SameLines(d, a)
  <2> HIDE DEF a
  <2> QED BY <1>3, StillRead
<1>5. SameLines(c, d)
  <2> HIDE DEF d
  <2> QED BY <1>1, <1>4, StillLaid DEF SameLines
<1> QED BY <1>3, <1>4, <1>5 DEF SameLines

OpensAt(b, jumps, from) == IF jumps THEN Min2(from, LastPage(b)) ELSE from

\* A text is drawn from the line asked for on (search results: from their last page on at
\* most), and the flags that stop the scrolling are right from the beginning (textbox.c:
\* 57-137).
THEOREM TextIsLaidOutTrue ==
    ASSUME NEW lines \in Nat, 0 < lines, NEW fixed \in Nat, fixed = 0 \/ fixed >= 4,
           NEW ended_ \in BOOLEAN, NEW jumps \in BOOLEAN, NEW from \in Nat, NEW rows \in Nat,
           NEW c, c = OpenText(lines, ended_, fixed, jumps, from, rows), c # TooSmall,
           c.ended
    PROVE  /\ TextSound(c) /\ c.lines = lines /\ c.h = BoxRows(fixed, rows)
           /\ c.h > 0 /\ from <= lines =>
                c.top = OpensAt(c, jumps, from)
<1> DEFINE z == 0
           g == from = 0
           a == [kind |-> "text", lines |-> lines, ended |-> ended_, fixed |-> fixed,
                 jumps |-> jumps, page |-> z, top |-> 0, len |-> 0, h |-> z,
                 begin |-> g, end |-> FALSE]
           b == GetLines(a, from)
<1>1. c = LayText(b, rows)
  BY DEF OpenText
<1>2. a \in TextBox
  BY DEF TextBox
<1>3. /\ a.lines = lines /\ a.ended = ended_ /\ a.fixed = fixed /\ a.jumps = jumps
      /\ a.page = 0 /\ a.h = 0 /\ a.begin = g
  OBVIOUS
<1>4. b = GetLines(a, from) /\ g \in BOOLEAN /\ (g <=> from = 0)
  OBVIOUS
<1>5. ended_ = TRUE
  BY TextOpens
<1> HIDE DEF a, b, g
<1>6. Within(a)
  BY <1>2, <1>3, <1>5 DEF Within
<1>7. /\ Within(b) /\ SameText(b, a) /\ b.begin = a.begin
      /\ b.page = Min2(a.lines, a.page + from)
  BY <1>4, <1>6, ReadOn
<1>8. /\ b.lines = lines /\ b.fixed = fixed /\ b.jumps = jumps /\ b.begin = g
      /\ b.page = Min2(lines, from)
  BY <1>3, <1>7 DEF SameText
<1>9. (b.page = 0 <=> from = 0) /\ (from <= lines => b.page = from)
  BY <1>8 DEF Min2
<1>10. b.begin = (b.page = 0)
  BY <1>4, <1>8, <1>9
<1>11. /\ TextSound(c) /\ c.h = BoxRows(b.fixed, rows) /\ c.lines = b.lines
       /\ c.h > 0 => c.top = IF b.jumps THEN Min2(b.page, LastPage(c)) ELSE b.page
  <2>1. b.fixed = 0 \/ b.fixed >= 4
    BY <1>8
  <2>2. Within(b)
    BY <1>7
  <2> QED BY <1>1, <1>10, <2>1, <2>2, Opened
<1> QED BY <1>8, <1>9, <1>11 DEF OpensAt

\* Scrolling skips no line and goes past no end: a line down or up moves the page by one line,
\* a page down or up to a line that adjoins what was shown, reprinting by none; and the
\* caller is told the line that is shown first (textbox.c:166-226, 234-245).
THEOREM TextGoesByLines ==
    ASSUME NEW b, TextSound(b), b.h > 0
    PROVE  /\ ~b.end   => TextDown(b).top = b.top + 1
           /\ ~b.begin => TextUp(b).top = b.top - 1
           /\ ~b.end   => /\ b.top < TextPageDown(b).top
                          /\ TextPageDown(b).top <= b.top + b.len
           /\ ~b.begin => TextPageUp(b).top = Max2(0, b.top - b.h)
           /\ TextSide(b).top = b.top
           /\ LeftAt(b) = b.top
<1>1. /\ b.lines \in Int /\ b.page \in Int /\ b.top \in Int /\ b.len \in Int
      /\ b.h \in Int /\ 0 <= b.len /\ LastPage(b) \in Int /\ 0 <= LastPage(b)
  BY ShownTypes
<1>2. /\ b.len > 0 /\ b.len <= b.h /\ 0 <= b.top /\ b.top <= b.lines
      /\ ~b.end => b.len = b.h /\ b.top + b.h <= b.lines /\ b.page = b.top + b.h
      /\ b.end => b.top + b.len = b.lines + 1
      /\ b.begin = (b.top = 0)
      /\ b.jumps => b.top <= LastPage(b)
  BY ShownNow
<1>3. LastPage(b) = Max2(0, b.lines + 1 - b.h)
  BY DEF LastPage
<1>4. ASSUME NEW n \in Int, 0 <= n, n > 0 \/ ~b.end
      PROVE  PrintPage(BackLines(b, n)).top =
                 IF b.jumps THEN Min2(Max2(0, b.top + b.len - n), LastPage(b))
                 ELSE Max2(0, b.top + b.len - n)
  BY <1>4, BackAndDrawn
<1>5. ASSUME ~b.end PROVE TextDown(b).top = b.top + 1
  <2>1. TextDown(b) = PrintPage(BackLines(b, b.len - 1))
    BY <1>5 DEF TextDown
  <2>2. b.len - 1 \in Int /\ 0 <= b.len - 1 /\ Max2(0, b.top + b.len - (b.len - 1)) = b.top + 1
    BY <1>1, <1>2 DEF Max2
  <2>3. b.top + 1 <= LastPage(b)
    BY <1>1, <1>2, <1>3, <1>5 DEF Max2
  <2>4. Min2(b.top + 1, LastPage(b)) = b.top + 1
    BY <1>1, <2>3 DEF Min2
  <2> QED BY <1>4, <1>5, <2>1, <2>2, <2>4
<1>6. ASSUME ~b.begin PROVE TextUp(b).top = b.top - 1
  <2>1. TextUp(b) = PrintPage(BackLines(b, b.len + 1))
    BY <1>6 DEF TextUp
  <2>2. b.top # 0
    BY <1>2, <1>6
  <2>3. /\ b.len + 1 \in Int /\ 0 <= b.len + 1 /\ b.len + 1 > 0
        /\ Max2(0, b.top + b.len - (b.len + 1)) = b.top - 1
    BY <1>1, <1>2, <2>2 DEF Max2
  <2>4. b.jumps => Min2(b.top - 1, LastPage(b)) = b.top - 1
    BY <1>1, <1>2 DEF Min2
  <2> QED BY <1>4, <2>1, <2>3, <2>4
<1>7. ASSUME ~b.end
      PROVE  b.top < TextPageDown(b).top /\ TextPageDown(b).top <= b.top + b.len
  <2> DEFINE g == FALSE
             p == b.page
             c == TextPageDown(b)
  <2>1. c = PrintPage([b EXCEPT !.begin = g])
    BY <1>7 DEF TextPageDown
  <2>2. Within(b) /\ b \in TextBox /\ 0 <= b.page /\ b.page <= b.lines
    BY ShownTypes DEF Within
  <2>3. [b EXCEPT !.begin = g] = [b EXCEPT !.begin = g, !.page = p]
    BY <2>2 DEF TextBox
  <2>4. p \in Int /\ 0 <= p /\ p <= b.lines /\ g \in BOOLEAN /\ p # 0 /\ p = b.top + b.h
    BY <1>1, <1>2, <1>7, <2>2
  <2>5. b.h > 0 => g = (p = 0)
    BY <2>4
  <2>6. c = PrintPage([b EXCEPT !.begin = g, !.page = p])
    BY <2>1, <2>3
  <2> HIDE DEF g, p, c
  <2>7. c.top = IF b.jumps THEN Min2(p, LastPage(b)) ELSE p
    BY <2>2, <2>4, <2>5, <2>6, SetAndDrawn
  <2>8. b.top < c.top /\ c.top <= b.top + b.len
    BY <1>1, <1>2, <1>3, <1>7, <2>4, <2>7 DEF Min2, Max2
  <2> QED BY <2>8 DEF c
<1>8. ASSUME ~b.begin PROVE TextPageUp(b).top = Max2(0, b.top - b.h)
  <2>1. TextPageUp(b) = PrintPage(BackLines(b, b.len + b.h))
    BY <1>8 DEF TextPageUp
  <2>2. /\ b.len + b.h \in Int /\ 0 <= b.len + b.h /\ b.len + b.h > 0
        /\ b.top + b.len - (b.len + b.h) = b.top - b.h
    BY <1>1, <1>2
  <2>3. b.jumps => Min2(Max2(0, b.top - b.h), LastPage(b)) = Max2(0, b.top - b.h)
    BY <1>1, <1>2 DEF Min2, Max2
  <2> QED BY <1>4, <2>1, <2>2, <2>3
<1>9. TextSide(b).top = b.top
  <2>1. TextSide(b) = PrintPage(BackLines(b, b.len))
    BY DEF TextSide
  <2>2. Max2(0, b.top + b.len - b.len) = b.top
    BY <1>1, <1>2 DEF Max2
  <2>3. b.jumps => Min2(b.top, LastPage(b)) = b.top
    BY <1>1, <1>2 DEF Min2
  <2> QED BY <1>1, <1>2, <1>4, <2>1, <2>2, <2>3
<1>10. LeftAt(b) = b.top
  <2> DEFINE d == BackLines(b, b.len)
  <2>1. d = BackLines(b, b.len) /\ LeftAt(b) = d.page
    BY DEF LeftAt
  <2> HIDE DEF d
  <2>2. d.page = Max2(0, b.top + b.len - b.len)
    BY <1>1, <1>2, <2>1, BackFromShown
  <2>3. Max2(0, b.top + b.len - b.len) = b.top
    BY <1>1, <1>2 DEF Max2
  <2> QED BY <2>1, <2>2, <2>3
<1> QED BY <1>5, <1>6, <1>7, <1>8, <1>9, <1>10

=============================================================================
