------------------------------ MODULE LxDialog ------------------------------
(***************************************************************************)
(* The dialogs of menuconfig (lxdialog/): a menu, a list of which one item *)
(* is chosen, a line to type, a text to page through, a question. A dialog *)
(* is a record; Open... is the function up to its loop, entered again at   *)
(* do_resize, and ...Key what the loop does with one key. Rows, items and  *)
(* columns count from 0. Of the terminal only the height matters, and of   *)
(* the drawing what is drawn piece by piece: the rows of a list, the       *)
(* characters of the line, the page of the text, the button that is lit.   *)
(***************************************************************************)
EXTENDS Integers, Sequences, SequencesExt, FiniteSetsExt

CONSTANTS
  LIST_HEIGHT,     \* rows of a checklist, CHECKLIST_HEIGTH_MIN
  BOX_WIDTH,       \* columns of the line in an input box
  MAX_LEN,         \* characters it may have; how far a text scrolls aside
  JUMP_NB          \* keys that a page of search results can show

ASSUME DialogAssumption == /\ LIST_HEIGHT \in Nat \ {0} /\ BOX_WIDTH \in Nat \ {0, 1}
                           /\ MAX_LEN \in Nat /\ JUMP_NB \in 1..9

(* The least heights: dialog.h                                              *)
MENUBOX_HEIGTH_MIN == 15
TEXTBOX_HEIGTH_MIN == 8
YESNO_HEIGTH_MIN   == 4
INPUTBOX_HEIGTH_MIN == 2

(* What a dialog returns: a button or the number of a command, KEY_ESC, or  *)
(* -ERRDISPLAYTOOSMALL; Crash if the program ends there.                    *)
Esc   == -1
Small == -2
Crash == -3
Return(c) == [fn |-> "return", code |-> c]
Lesser(a, b)  == IF a < b THEN a ELSE b
Greater(a, b) == IF a > b THEN a ELSE b

(* The button that left, right or tab leads to, of 0..last                  *)
NextButton(b, key, last) ==
  IF key = "left" THEN (IF b = 0 THEN last ELSE b - 1) ELSE IF b = last THEN 0 ELSE b + 1

(***************************************************************************)
(* Rows that are printed one at a time                                     *)
(***************************************************************************)
Blank == [item |-> -1, lit |-> FALSE]

print_item(screen, item, row, lit) == [screen EXCEPT ![row] = [item |-> item, lit |-> lit]]

(* wscrl: the rows move n up; those that come in are blank.                 *)
wscrl(screen, n) ==
  [r \in DOMAIN screen |-> IF r + n \in DOMAIN screen THEN screen[r + n] ELSE Blank]

(***************************************************************************)
(* The menu: menubox.c                                                     *)
(***************************************************************************)
(* An item is [tag, menu, hot, ...]; hot is the letter first_alpha finds.   *)
(* selected is the menu that is highlighted if it is there, and saved the   *)
(* caller's *s_scroll. d is the dialog before a resize; Closed, if it was   *)
(* just called: the choice, the first item and the button stay as they were.*)
Closed == [choice |-> 0, first |-> 0, button |-> 0, resized |-> FALSE]

RowsOf(lines, items) == Lesser(lines - 4 - 10, Len(items))

DefaultRow(items, selected, choice) ==
  LET at == {i \in DOMAIN items : items[i].menu = selected}
  IN IF at = {} THEN choice ELSE Max(at) - 1

(* Where the menu starts, and the row that is highlighted. The first item   *)
(* stays what it was if neither the saved scroll nor the row decides.       *)
Place(rows, n, saved, choice, first) ==
  LET ok == saved <= choice /\ saved + rows > choice /\ saved >= 0 /\ saved + rows <= n
      c  == IF ok THEN choice - saved ELSE choice
      s  == IF c >= n - rows \div 2 THEN n - rows ELSE c - rows \div 2
  IN IF c >= rows THEN [scroll |-> s, first |-> s, choice |-> c - s]
     ELSE IF ok THEN [scroll |-> saved, first |-> saved, choice |-> c]
     ELSE [scroll |-> 0, first |-> first, choice |-> c]

OpenMenu(lines, items, selected, saved, d) ==
  LET rows == RowsOf(lines, items)
      p    == Place(rows, Len(items), saved, DefaultRow(items, selected, d.choice), d.first)
  IN IF lines < MENUBOX_HEIGTH_MIN THEN Return(Small)
     ELSE IF p.first + rows > Len(items) THEN Return(Crash)     \* item_str of no item
     ELSE [fn |-> "menubox", items |-> items, selected |-> selected, saved |-> saved,
           rows |-> rows, scroll |-> p.scroll, first |-> p.first, choice |-> p.choice,
           button |-> d.button, shown |-> 0, resized |-> d.resized,
           screen |-> [r \in 0..rows - 1 |-> [item |-> p.first + r, lit |-> r = p.choice]]]

(* The row of the next item with this letter, from the highlighted one on   *)
(* and then from the first; rows if there is none.                          *)
HotRow(d, key) ==
  LET with  == {r \in 0..d.rows - 1 : d.items[d.scroll + r + 1].hot = key}
      after == {r \in with : r > d.choice}
  IN IF key \in {"y", "n", "m", "h", "space"} \/ with = {} THEN d.rows
     ELSE IF after # {} THEN Min(after) ELSE Min(with)

LastRow(d) == d.rows - 1

(* do_scroll and the item on the row that came in                           *)
do_scroll(d, n) ==
  LET s == d.scroll + n
      row == IF n < 0 THEN 0 ELSE LastRow(d)
  IN [d EXCEPT !.scroll = s, !.screen = print_item(wscrl(@, n), s + row, row, FALSE)]

MenuUp(d) == IF d.choice < 2 /\ d.scroll # 0 THEN do_scroll(d, -1)
             ELSE [d EXCEPT !.choice = Greater(@ - 1, 0)]

(* Mutant: the row that came in is printed before the menu scrolls.         *)
MenuDown_PrintsFirst(d) ==
  IF d.choice > d.rows - 3 /\ d.scroll + d.rows < Len(d.items)
  THEN [d EXCEPT !.scroll = @ + 1,
                 !.screen = wscrl(print_item(@, d.scroll + d.rows, LastRow(d), FALSE), 1)]
  ELSE [d EXCEPT !.choice = Lesser(@ + 1, LastRow(d))]

MenuDown(d) == IF d.choice > d.rows - 3 /\ d.scroll + d.rows < Len(d.items) THEN do_scroll(d, 1)
               ELSE [d EXCEPT !.choice = Lesser(@ + 1, LastRow(d))]

(* A page is as many steps as there are rows.                               *)
PageStepUp(d, i)   == IF d.scroll > 0 THEN do_scroll(d, -1) ELSE [d EXCEPT !.choice = Greater(@ - 1, 0)]
PageStepDown(d, i) == IF d.scroll + d.rows < Len(d.items) THEN do_scroll(d, 1)
                      ELSE [d EXCEPT !.choice = Lesser(@ + 1, LastRow(d))]
Page(Step(_, _), d) == FoldLeft(Step, d, [i \in 1..d.rows |-> i])

Moves == {"up", "down", "ppage", "npage"}

MenuMove(d, key) ==
  LET off == [d EXCEPT !.screen = print_item(@, d.scroll + d.choice, d.choice, FALSE)]
      to  == CASE key = "up" -> MenuUp(off)
               [] key = "down" -> MenuDown(off)
               [] key = "ppage" -> Page(PageStepUp, off)
               [] key = "npage" -> Page(PageStepDown, off)
               [] OTHER -> [off EXCEPT !.choice = HotRow(d, key)]
  IN [to EXCEPT !.screen = print_item(@, to.scroll + to.choice, to.choice, TRUE)]

MenuCommand == [h |-> 2, s |-> 5, y |-> 5, n |-> 6, m |-> 7, space |-> 8, slash |-> 9, z |-> 10]

(* Picked: the item that item_set_selected marks, and the saved scroll      *)
NoItem == [tag |-> "", menu |-> 0]
Picked(d, code) == [fn |-> "return", code |-> code, scroll |-> d.scroll,
                    item |-> IF d.items = <<>> THEN NoItem ELSE d.items[d.scroll + d.choice + 1]]

MenuKey(lines, d, key) ==
  CASE Len(d.items) # 0 /\ (key \in Moves \/ HotRow(d, key) < d.rows) -> MenuMove(d, key)
    [] key \in {"left", "right", "tab"} ->
         LET b == NextButton(d.button, key, 4) IN [d EXCEPT !.button = b, !.shown = b]
    [] key \in DOMAIN MenuCommand /\ HotRow(d, key) = d.rows -> Picked(d, MenuCommand[key])
    [] key = "enter" -> Picked(d, d.button)
    [] key = "esc" \/ (key = "x" /\ HotRow(d, key) = d.rows) -> Return(Esc)
    [] key = "resize" -> OpenMenu(lines, d.items, d.selected, d.saved, [d EXCEPT !.resized = TRUE])
    [] OTHER -> d

(***************************************************************************)
(* The list of a choice: checklist.c                                       *)
(***************************************************************************)
(* An item is [tag, menu, hot, on]; hot is the first letter of its text. *)
ListDefault(items) ==
  LET on == {i \in DOMAIN items : items[i].on}
      x  == {i \in DOMAIN items : items[i].tag = "X"}
  IN IF on # {} THEN Min(on) - 1 ELSE IF x # {} THEN Max(x) - 1 ELSE 0

ListRows(items) == Lesser(LIST_HEIGHT, Len(items))

(* The list as it is printed from the item `scroll` on                      *)
DrawList(lines, d) ==
  LET s == IF d.choice >= LIST_HEIGHT THEN d.choice - LIST_HEIGHT + 1 ELSE d.scroll
      c == IF d.choice >= LIST_HEIGHT THEN LIST_HEIGHT - 1 ELSE d.choice
  IN IF lines < MENUBOX_HEIGTH_MIN + LIST_HEIGHT THEN Return(Small)
     ELSE [d EXCEPT !.scroll = s, !.choice = c, !.shown = 0,
                    !.screen = [r \in 0..d.rows - 1 |-> [item |-> s + r, lit |-> r = c]]]

OpenList(lines, items) ==
  DrawList(lines, [fn |-> "checklist", items |-> items, rows |-> ListRows(items), scroll |-> 0,
                   choice |-> ListDefault(items), button |-> 0, shown |-> 0, resized |-> FALSE,
                   screen |-> <<>>])

ListHot(d, key) ==
  LET with == {r \in 0..d.rows - 1 : d.items[d.scroll + r + 1].hot = key}
  IN IF with = {} THEN d.rows ELSE Min(with)

(* The highlight moves to another row.                                      *)
ListTo(d, row) ==
  [d EXCEPT !.choice = row,
            !.screen = print_item(print_item(@, d.scroll + d.choice, d.choice, FALSE),
                                  d.scroll + row, row, TRUE)]

(* At the first or last row the list scrolls and the row stays.             *)
ListScroll(d, n, row) ==
  LET off == IF LIST_HEIGHT > 1 THEN wscrl(print_item(d.screen, d.scroll + row, row, FALSE), n)
             ELSE d.screen
  IN [d EXCEPT !.scroll = @ + n, !.screen = print_item(off, d.scroll + n + row, row, TRUE)]

ListUp(d) == IF d.choice # 0 THEN ListTo(d, d.choice - 1)
             ELSE IF d.scroll # 0 THEN ListScroll(d, -1, 0) ELSE d

ListDown(d) == IF d.choice # LastRow(d) THEN ListTo(d, d.choice + 1)
               ELSE IF d.scroll + d.choice < Len(d.items) - 1 THEN ListScroll(d, 1, LastRow(d)) ELSE d

ListKey(lines, d, key) ==
  CASE key = "up" -> ListUp(d)
    [] key = "down" -> ListDown(d)
    [] key \notin {"up", "down"} /\ ListHot(d, key) < d.rows -> ListTo(d, ListHot(d, key))
    [] key = "h" /\ ListHot(d, key) = d.rows -> Picked(d, 1)
    [] key \in {"space", "enter"} \/ (key = "s" /\ ListHot(d, key) = d.rows) -> Picked(d, d.button)
    [] key \in {"left", "right", "tab"} ->
         LET b == NextButton(d.button, key, 1) IN [d EXCEPT !.button = b, !.shown = b]
    [] key = "esc" \/ (key = "x" /\ ListHot(d, key) = d.rows) -> Return(Esc)
    [] key = "resize" -> DrawList(lines, [d EXCEPT !.resized = TRUE])
    [] OTHER -> d

(***************************************************************************)
(* The line to type: inputbox.c                                            *)
(***************************************************************************)
(* show is the first character shown, input the column of the cursor, pos   *)
(* the character it stands on; cells what the columns show. button is -1    *)
(* while the line has the keys.                                             *)
Space == " "

Cells(instr, show) ==
  [c \in 0..BOX_WIDTH - 1 |-> IF show + c < Len(instr) THEN instr[show + c + 1] ELSE Space]

(* The loop that prints the line ends after the first blank: what is right  *)
(* of that stays.                                                           *)
Reprint(cells, instr, show) ==
  [c \in DOMAIN cells |-> IF show + c <= Len(instr) THEN Cells(instr, show)[c] ELSE cells[c]]

DrawInput(lines, d) ==
  LET len  == Len(d.instr)
      wide == len >= BOX_WIDTH
  IN IF lines <= d.height - INPUTBOX_HEIGTH_MIN THEN Return(Small)
     ELSE [d EXCEPT !.pos = len, !.show = IF wide THEN len - BOX_WIDTH + 1 ELSE 0,
                    !.input = IF wide THEN BOX_WIDTH - 1 ELSE len, !.shown = 0,
                    !.cells = Cells(d.instr, IF wide THEN len - BOX_WIDTH + 1 ELSE 0)]

OpenInput(lines, height, init) ==
  DrawInput(lines, [fn |-> "inputbox", height |-> height, instr |-> init, pos |-> 0, show |-> 0,
                    input |-> 0, cells |-> <<>>, button |-> -1, shown |-> 0, resized |-> FALSE])

Line(d, instr, show, input, pos) ==
  [d EXCEPT !.instr = instr, !.show = show, !.input = input, !.pos = pos,
            !.cells = Reprint(@, instr, show)]

Backspace(d) ==
  IF d.pos = 0 THEN d
  ELSE Line(d, RemoveAt(d.instr, d.pos), IF d.input = 0 THEN d.show - 1 ELSE d.show,
            IF d.input = 0 THEN 0 ELSE d.input - 1, d.pos - 1)

CursorLeft(d) ==
  CASE d.pos = 0 -> d
    [] d.pos > 0 /\ d.input > 0 -> [d EXCEPT !.input = @ - 1, !.pos = @ - 1]
    [] d.pos > 0 /\ d.input = 0 -> Line(d, d.instr, d.show - 1, 0, d.pos - 1)

CursorRight(d) ==
  CASE d.pos >= Len(d.instr) -> d
    [] d.pos < Len(d.instr) /\ d.input < BOX_WIDTH - 1 -> [d EXCEPT !.input = @ + 1, !.pos = @ + 1]
    [] OTHER -> Line(d, d.instr, d.show + 1, d.input, d.pos + 1)

(* A character is inserted before the cursor if there is room.              *)
Type(d, c) ==
  IF Len(d.instr) >= MAX_LEN THEN d
  ELSE Line(d, InsertAt(d.instr, d.pos + 1, c),
            IF d.input = BOX_WIDTH - 1 THEN d.show + 1 ELSE d.show,
            IF d.input = BOX_WIDTH - 1 THEN d.input ELSE d.input + 1, d.pos + 1)

Button(d, b) == [d EXCEPT !.button = b, !.shown = IF b = 1 THEN 1 ELSE 0]

(* Printable: the keys that are characters                                  *)
InputKey(lines, d, key, Printable) ==
  LET line == d.button = -1
      b    == d.button
      Ring == <<-1, 0, 1>>
      Step(n) == Ring[((b + 1 + n) % 3) + 1]
  IN CASE line /\ key = "backspace" -> Backspace(d)
       [] line /\ key = "left" -> CursorLeft(d)
       [] line /\ key = "right" -> CursorRight(d)
       [] line /\ key \in Printable -> Type(d, key)
       [] ~line /\ key \in {"o", "h"} ->
            [fn |-> "return", code |-> IF key = "o" THEN 0 ELSE 1, text |-> d.instr]
       [] key = "up" \/ (~line /\ key = "left") -> Button(d, Step(2))
       [] key \in {"tab", "down"} \/ (~line /\ key = "right") -> Button(d, Step(1))
       [] key = "enter" \/ (~line /\ key = "space") ->
            [fn |-> "return", code |-> IF line THEN 0 ELSE b, text |-> d.instr]
       [] key = "esc" \/ (~line /\ key = "x") -> Return(Esc)
       [] key = "resize" -> DrawInput(lines, [d EXCEPT !.resized = TRUE])
       [] OTHER -> d

(***************************************************************************)
(* The text: textbox.c                                                     *)
(***************************************************************************)
(* text is [lines, open]: a sequence of lines, each of them 0 or the number *)
(* of a jump (see MConf), and whether the last one ends without \n. page is *)
(* the line it points to, Len(lines) the \0 at the end.                     *)
AtEnd(d) == d.page = Len(d.text.lines)

get_line(d) ==
  IF AtEnd(d) THEN [d EXCEPT !.end = TRUE]
  ELSE [d EXCEPT !.page = @ + 1, !.end = d.text.open /\ d.page + 1 = Len(d.text.lines)]

GetLines(d, n) == FoldLeft(LAMBDA x, i : get_line(x), d, [i \in 1..n |-> i])

(* Mutant: the empty line at the end is not counted.                        *)
back_lines_NoEnd(d, n) ==
  LET k == Greater(n, 0)
  IN [d EXCEPT !.begin = k > 0 /\ k >= d.page, !.page = Greater(@ - k, 0)]

(* back_lines(n): at the \0 the first line back is the one that was printed *)
(* there, if end_reached says so.                                           *)
back_lines(d, n) ==
  LET skip == n > 0 /\ AtEnd(d) /\ d.end
      k    == IF skip THEN n - 1 ELSE Greater(n, 0)
  IN [d EXCEPT !.end = IF skip THEN FALSE ELSE @,
               !.begin = k > 0 /\ k >= d.page,
               !.page = Greater(@ - k, 0)]

JumpKeys == <<"1", "2", "3", "4", "5", "6", "7", "8", "9">>

(* update_text: the jumps on the page, the first JUMP_NB with a key each.   *)
update_text(d, from, to) ==
  LET on == SelectSeq([i \in 1..Len(d.text.lines) |-> [at |-> i - 1, jump |-> d.text.lines[i]]],
                      LAMBDA l : l.jump # 0 /\ l.at >= from /\ l.at < to)
  IN [i \in 1..Lesser(Len(on), JUMP_NB) |->
        [at |-> on[i].at, jump |-> on[i].jump, key |-> JumpKeys[((on[i].jump - 1) % JUMP_NB) + 1]]]

(* page_length: the rows up to the one on which the end was met             *)
PageLength(d, boxh) ==
  LET ends == {i \in 1..boxh : GetLines(d, i).end}
  IN IF ends = {} THEN boxh ELSE Min(ends)

(* The jumps are found on the way to the end of the page and back.          *)
WithKeys(d, far, back) == [back EXCEPT !.keys = update_text(d, back.page, far.page)]
PageFrom(d) ==
  [GetLines(d, d.boxh) EXCEPT !.top = d.page, !.len = PageLength(d, d.boxh)]
AndBack(d, far) == PageFrom(WithKeys(d, far, back_lines(far, d.boxh)))

print_page(d) == IF d.search THEN AndBack(d, GetLines(d, d.boxh)) ELSE PageFrom(d)

(* r is the height asked for; 0 for the whole terminal                      *)
DrawText(lines, d) ==
  IF lines < TEXTBOX_HEIGTH_MIN THEN Return(Small)
  ELSE print_page([d EXCEPT !.boxh = (IF d.r # 0 THEN d.r ELSE lines - 4) - 4])

OpenText(lines, text, r, search, vscroll, hscroll) ==
  LET d == [fn |-> "textbox", text |-> text, r |-> r, search |-> search, keys |-> <<>>, page |-> 0,
            begin |-> TRUE, end |-> FALSE, len |-> 0, top |-> 0, boxh |-> 0, hscroll |-> hscroll]
  IN DrawText(lines, IF vscroll = 0 THEN d ELSE GetLines([d EXCEPT !.begin = FALSE], vscroll))

TextHeight(d) == d.boxh + 4

(* The function ends: key, and where the page started                       *)
LeaveText(d, key) ==
  [fn |-> "return", code |-> 0, key |-> key, vscroll |-> back_lines(d, d.len).page, hscroll |-> d.hscroll,
   keys |-> d.keys]

TextKey(lines, d, key) ==
  CASE key \in {"x", "enter"} -> LeaveText(d, key)
    [] key = "home" -> IF d.begin THEN d ELSE print_page([d EXCEPT !.begin = TRUE, !.page = 0])
    [] key = "end" ->
         print_page(back_lines([d EXCEPT !.end = TRUE, !.page = Len(d.text.lines)], d.boxh))
    [] key = "up" -> IF d.begin THEN d ELSE print_page(back_lines(d, d.len + 1))
    [] key = "ppage" -> IF d.begin THEN d ELSE print_page(back_lines(d, d.len + d.boxh))
    [] key = "down" -> IF d.end THEN d ELSE print_page(back_lines(d, d.len - 1))
    [] key \in {"npage", "space"} -> IF d.end THEN d ELSE print_page([d EXCEPT !.begin = FALSE])
    [] key \in {"left", "h", "0"} ->
         IF d.hscroll <= 0 THEN d
         ELSE print_page(back_lines([d EXCEPT !.hscroll = IF key = "0" THEN 0 ELSE @ - 1], d.len))
    [] key = "right" ->
         IF d.hscroll >= MAX_LEN THEN d ELSE print_page(back_lines([d EXCEPT !.hscroll = @ + 1], d.len))
    [] key = "esc" -> LeaveText(d, key)
    [] key = "resize" -> LET b == back_lines(d, TextHeight(d)) IN DrawText(lines, b)
    [] \E i \in DOMAIN d.keys : d.keys[i].key = key -> LeaveText(d, key)
    [] OTHER -> d

(***************************************************************************)
(* The question: yesno.c                                                   *)
(***************************************************************************)
DrawYesNo(lines, d) == IF lines < 6 + YESNO_HEIGTH_MIN THEN Return(Small) ELSE [d EXCEPT !.shown = 0]

OpenYesNo(lines) == DrawYesNo(lines, [fn |-> "yesno", button |-> 0, shown |-> 0, resized |-> FALSE])

YesNoKey(lines, d, key) ==
  CASE key = "y" -> Return(0)
    [] key = "n" -> Return(1)
    [] key \in {"left", "right", "tab"} ->
         LET b == NextButton(d.button, key, 1) IN [d EXCEPT !.button = b, !.shown = b]
    [] key \in {"space", "enter"} -> Return(d.button)
    [] key = "esc" -> Return(Esc)
    [] key = "resize" -> DrawYesNo(lines, [d EXCEPT !.resized = TRUE])
    [] OTHER -> d
=============================================================================
