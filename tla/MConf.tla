-------------------------------- MODULE MConf --------------------------------
(***************************************************************************)
(* The program menuconfig (mconf.c): the menus of a Kconfig in dialogs, of *)
(* which the innermost one waits for a key. stack is the C stack: the      *)
(* functions that are called, main first, and the dialog on top. A dialog  *)
(* that ends leaves its result in ret for the function below.              *)
(***************************************************************************)
EXTENDS KConfData, LxDialog

CONSTANTS
  WINDOW_HEIGTH_MIN,  \* the least height menuconfig starts on
  Scenes      \* world -> what happens there: [config, others, writable, keys,
              \* heights, budget, single, hot, found], see below

VARIABLES
  g,          \* the symbols, see KSymbol
  files,      \* name -> lines, for the configurations there are
  filename,   \* the file that is saved to
  saved,      \* name -> the lines of the last configuration that was saved
              \* under it, as it was on the screen
  lines,      \* the height of the terminal
  stack, ret,
  subtitles,  \* what is shown above the dialog: the way to it
  showAll, opened, grown, saving,  \* show_all_options, menu->data,
              \* child_count # 0, save_and_exit
  told,       \* how the program ended: see Ends
  slip,       \* what went wrong, "load" or "signal": see LoadNone, Signal, Interrupt
  presses     \* keys pressed and sizes changed so far

data  == <<files, filename, saved>>
flags == <<showAll, opened, grown, saving>>
vars  == <<world, g, data, lines, stack, ret, subtitles, flags, told, slip, presses>>

(* A scene: config is .config (or none), others the other files, writable   *)
(* the names that can be written, keys, heights and the number of both, the *)
(* letters of the menus, and the symbols a pattern finds.                   *)
Scene   == Scenes[world]
DotConfig == <<"c">>
NoRet   == [fn |-> "none"]
Ends    == {"none", "end", "lost", "error", "small", "crash"}
Dialogs == {"menubox", "checklist", "inputbox", "textbox", "yesno"}

Top     == Last(stack)
Below   == Front(stack)
IsAt(fn, at) == stack # <<>> /\ Top.fn = fn /\ Top.at = at
Step(f, at)  == [f EXCEPT !.at = at]

Main(signal)  == [fn |-> "main", at |-> IF signal THEN "exit" ELSE "loop", signal |-> signal]
Conf(m, active) == [fn |-> "conf", at |-> "loop", menu |-> m, active |-> active, saved |-> 0]
Choice(m, s)  == [fn |-> "choice", at |-> "loop", menu |-> m, active |-> s]
Asking(fn, m) == [fn |-> fn, at |-> "loop", menu |-> m]
Search        == [fn |-> "search", at |-> "loop", found |-> <<>>, targets |-> <<>>,
                  vscroll |-> 0, hscroll |-> 0]

(* The function on top becomes f; f calls another one; it returns.          *)
Goto(f)    == stack' = Append(Below, f) /\ ret' = NoRet /\ UNCHANGED told
Call(f, h) == stack' = Below \o <<f, h>> /\ ret' = NoRet /\ UNCHANGED told
Leave      == stack' = Below /\ ret' = NoRet /\ UNCHANGED told
Quit(how)  == stack' = <<>> /\ ret' = NoRet /\ told' = how

(* A dialog above the functions under, or its result.                       *)
Show(under, d) ==
  IF d.fn # "return" THEN stack' = Append(under, d) /\ ret' = NoRet /\ UNCHANGED told
  ELSE IF d.code = Crash THEN Quit("crash")
  ELSE stack' = under /\ ret' = d /\ UNCHANGED told
Opens(f, d) == Show(Append(Below, f), d)

(* Texts: n lines that end in \n, a message of one that does not            *)
Prose(n) == [lines |-> [i \in 1..n |-> 0], open |-> FALSE]
Message  == [lines |-> <<0>>, open |-> TRUE]
Tells(f, text, r) == Opens(f, OpenText(lines, text, r, FALSE, 0, 0))

(* set_subtitle: the menus and searches on the stack                        *)
Trail(st) ==
  LET on == SelectSeq(st, LAMBDA f : \/ f.fn = "conf" /\ f.menu # Root
                                     \/ f.fn = "search" /\ f.at \in {"results", "jump"})
  IN [i \in DOMAIN on |-> IF on[i].fn = "conf" THEN on[i].menu ELSE 0]

Init ==
  /\ world \in DOMAIN Scenes
  /\ g = Fresh
  /\ files = [n \in DOMAIN Scenes[world].others \cup (IF Scenes[world].config.there THEN {DotConfig} ELSE {}) |->
               IF n = DotConfig THEN Scenes[world].config.lines ELSE Scenes[world].others[n]]
  /\ saved = [n \in DOMAIN files |-> ToSet(files[n])]
  /\ filename = DotConfig /\ lines \in Scenes[world].heights
  /\ stack = <<Main(FALSE)>> /\ ret = NoRet /\ subtitles = <<>>
  /\ showAll = FALSE /\ opened = {} /\ grown = FALSE /\ saving = FALSE
  /\ told = "none" /\ slip = "none" /\ presses = 0

(***************************************************************************)
(* The lines of a menu                                                     *)
(***************************************************************************)
ShowsTri(h, s) == [type |-> sym_get_type(h, s), fixed |-> ~sym_is_changable(h, s),
                   least |-> h.rev[s], value |-> h.tri[s]]
ShowsText(h, s) == [type |-> "text", fixed |-> ~sym_is_changable(h, s), least |-> 0, value |-> 0]
Plainly == [type |-> "none", fixed |-> TRUE, least |-> 0, value |-> 0]

Item(tag, m, shows) == [tag |-> tag, menu |-> m, hot |-> Scene.hot[m], shows |-> shows]

RECURSIVE build_conf(_, _, _)

Children(r, m, current) == FoldLeft(LAMBDA q, n : build_conf(q, n, current), r, Menu(m).list)

(* The entry that is shown for a choice: the last one with its value        *)
DefIfSeen(v, def, n, def_sym) ==
  [g |-> v.g, def |-> IF v.yes /\ Menu(n).sym = def_sym THEN n ELSE def]
DefMenu(h, m) ==
  FoldLeft(LAMBDA r, n : DefIfSeen(menu_is_visible(r.g, n), r.def, n, h.chosen[Menu(m).sym]),
           [g |-> h, def |-> 0], Menu(m).list)

(* menu_is_empty calculates the entries of m until one can be seen.         *)
menu_is_empty(h, m) ==
  FoldLeft(LAMBDA r, n : IF r.yes THEN r ELSE menu_is_visible(r.g, n), Is(h, FALSE), Menu(m).list).g

(* A line for m, and one that ends in "--->" or "----"                      *)
With(r, m, tag, shows) == [r EXCEPT !.items = Append(@, Item(tag, m, shows))]
Opening(r, m) == [r EXCEPT !.g = menu_is_empty(@, m)]

(* A choice, dm being the entry that is shown for it: only that entry's     *)
(* own entries follow if one value is y, all of them otherwise.             *)
BuildChoice(dm, r, m, current) ==
  LET s == Menu(m).sym
      changes == sym_is_changable(r.g, s)
      box == IF changes \/ dm.def # 0 THEN "t" ELSE ":"
      chooser == [With(r, m, box, IF changes THEN ShowsTri(r.g, s) ELSE Plainly) EXCEPT !.g = dm.g]
  IN CASE r.g.tri[s] # 2 -> Children(chooser, m, current)
       [] r.g.tri[s] = 2 /\ dm.def # 0 /\ Menu(dm.def).list # <<>> -> build_conf(chooser, dm.def, current)
       [] OTHER -> chooser

BuildSymbol(r, m) ==
  LET s == Menu(m).sym
  IN CASE IsValue(s) /\ r.g.tri[s] = 2 -> With(r, m, ":", Plainly)
       [] ~(IsValue(s) /\ r.g.tri[s] = 2) /\ IsText(s) -> With(r, m, "s", ShowsText(r.g, s))
       [] OTHER -> With(r, m, "t", ShowsTri(r.g, s))

(* m, if it can be seen                                                     *)
BuildSeen(r, m, current) ==
  LET s == Menu(m).sym
  IN CASE s = "" /\ m = current -> Children(r, m, current)
       [] s = "" /\ m # current /\ Menu(m).prompt = "menu" ->
            IF ~Scene.single THEN Opening(With(r, m, "m", Plainly), m)
            ELSE IF m \in opened THEN Children(With(r, m, "m", Plainly), m, current)
            ELSE With(r, m, "m", Plainly)
       [] s = "" /\ m # current /\ Menu(m).prompt # "menu" ->
            Children(With(r, m, ":", Plainly), m, current)
       [] IsChoice(s) -> BuildChoice(DefMenu(r.g, m), r, m, current)
       [] OTHER -> IF m = current THEN Children(With(r, m, ":", Plainly), m, current)
                   ELSE IF ~IsText(s) /\ Menu(m).prompt = "menu" THEN Opening(BuildSymbol(r, m), m)
                   ELSE Children(BuildSymbol(r, m), m, current)

(* build_conf adds the items of m to r = [g, items], current being the menu *)
(* that is shown.                                                           *)
BuildIf(v, r, m, current) ==
  IF (IF showAll THEN Menu(m).prompt = "none" ELSE ~v.yes) THEN [r EXCEPT !.g = v.g]
  ELSE BuildSeen([r EXCEPT !.g = v.g], m, current)
build_conf(r, m, current) == BuildIf(menu_is_visible(r.g, m), r, m, current)

(* Does build_conf count a child? All items but that of the menu itself     *)
Counts(items, current) == \E i \in DOMAIN items : \/ items[i].menu # current
                                                  \/ IsChoice(Menu(current).sym)

(***************************************************************************)
(* conf                                                                    *)
(***************************************************************************)
(* The head of the loop: the menu is built and shown. child_count is never  *)
(* reset, so that only a first menu without items is not shown.             *)
ConfLoop ==
  /\ IsAt("conf", "loop")
  /\ \E b \in {build_conf([g |-> g, items |-> <<>>], Top.menu, Top.menu)} :
       /\ g' = b.g /\ grown' = (grown \/ Counts(b.items, Top.menu))
       /\ IF grown'
          THEN /\ subtitles' = Trail(stack)
               /\ Opens(Step(Top, "menu"), OpenMenu(lines, b.items, Top.active, Top.saved, Closed))
          ELSE Leave /\ UNCHANGED subtitles
  /\ UNCHANGED <<world, data, lines, showAll, opened, saving, slip, presses>>

Answered(codes) == IsAt("conf", "menu") /\ ret # NoRet /\ ret.code \in codes
Item_   == ret.item
SubMenu == Item_.menu
SymOf(m) == IF m = 0 THEN "" ELSE Menu(m).sym
Resumed == [Top EXCEPT !.at = "loop", !.active = SubMenu, !.saved = ret.scroll]

ConfLeave ==
  /\ Answered({1, Esc, Small})
  /\ Leave
  /\ UNCHANGED <<world, g, data, lines, subtitles, flags, slip, presses>>

(* Select                                                                   *)
ConfSelect ==
  /\ Answered({0})
  /\ LET s == SymOf(SubMenu)
         chooses == Item_.tag = "t" /\ IsChoice(s) /\ g.tri[s] = 2
         enters == Item_.tag = "t" /\ ~chooses /\ Menu(SubMenu).prompt = "menu"
     IN /\ CASE Item_.tag = "m" /\ Scene.single -> Goto(Resumed)
             [] (Item_.tag = "m" /\ ~Scene.single) \/ enters -> Call(Resumed, Conf(SubMenu, 0))
             [] chooses -> Call(Resumed, Choice(SubMenu, g.chosen[s]))
             [] Item_.tag = "s" -> Call(Resumed, Asking("string", SubMenu))
             [] OTHER -> Goto(Resumed)
        /\ opened' = IF Item_.tag # "m" \/ ~Scene.single THEN opened
                     ELSE IF SubMenu \in opened THEN opened \ {SubMenu} ELSE opened \cup {SubMenu}
  /\ UNCHANGED <<world, g, data, lines, subtitles, showAll, grown, saving, slip, presses>>

(***************************************************************************)
(* Help and search                                                         *)
(***************************************************************************)
(* The menus of m, without the root, innermost first                        *)
RECURSIVE Above(_)
Above(m) == IF Menu(m).up \in {0, Root} THEN <<>> ELSE <<Menu(m).up>> \o Above(Menu(m).up)

(* get_prompt_str: where the prompt of m is. The innermost menu that can be *)
(* seen is the location, and its line has a jump if head is given.          *)
FirstSeen(v, at, n) == [g |-> v.g, at |-> IF at = 0 /\ v.yes THEN n ELSE at]
Location(h, up) ==
  FoldLeft(LAMBDA q, n : FirstSeen(menu_is_visible(q.g, n), q.at, n), [g |-> h, at |-> 0], up)

PromptRows(r, up, jump, at) ==
  LET way == Reverse(up)
      n   == Len(r.targets) + 1
  IN <<0>> \o (IF up = <<>> THEN <<>>
               ELSE <<0>> \o [i \in DOMAIN way |-> IF jump /\ way[i] = at THEN n ELSE 0])

PromptAt(r, m, up, jump, at, v) ==
  [g |-> v.g, lines |-> r.lines \o PromptRows(r, up, jump, at),
   targets |-> IF jump THEN Append(r.targets, IF v.yes THEN m ELSE at) ELSE r.targets]

PromptBelow(r, m, up, head, seen) ==
  LET jump == head /\ seen.at # 0
  IN PromptAt(r, m, up, jump, seen.at,
              IF jump THEN menu_is_visible(seen.g, m) ELSE Is(seen.g, FALSE))

get_prompt_str(r, m, head) == PromptBelow(r, m, Above(m), head, Location(r.g, Above(m)))

PromptsOf(s) == SelectSeq(Outline(Root), LAMBDA m : Menu(m).sym = s /\ Menu(m).prompt # "none")

(* rev names who selects a symbol: no condition is named in a select here.  *)
Selects(s) == \E t \in All : s \in ToSet(Names(Decl(t).rev))

(* get_symbol_str: symbol, type and range, the prompts, then where it is    *)
(* defined, what it depends on, what it selects and what selects it, and    *)
(* two empty lines. A choice has no name.                                   *)
HeadLines(r, s, h) ==
  LET ranged == TypeOf(s) \in {"int", "hex"} /\ First(h, Decl(s).ranges) # 0
      top == IF IsChoice(s) THEN 0 ELSE IF ranged THEN 3 ELSE 2
  IN [r EXCEPT !.g = IF TypeOf(s) \in {"int", "hex"} THEN h ELSE @,
               !.lines = @ \o [i \in 1..top |-> 0]]

get_symbol_str(r, s, head) ==
  LET rest == (IF Decl(s).dir = Null THEN 1 ELSE 2) + (IF Selects(s) THEN 1 ELSE 0)
                + (IF Decl(s).rev = Null THEN 0 ELSE 1) + 2
  IN [FoldLeft(LAMBDA x, m : get_prompt_str(x, m, head),
               HeadLines(r, s, KnownUpTo(r.g, Decl(s).ranges)), PromptsOf(s))
      EXCEPT !.lines = @ \o [i \in 1..rest |-> 0]]

NoLines(h) == [g |-> h, lines |-> <<>>, targets |-> <<>>]

get_relations_str(h, found) ==
  IF found = <<>> THEN [NoLines(h) EXCEPT !.lines = <<0>>]
  ELSE FoldLeft(LAMBDA x, s : get_symbol_str(x, s, TRUE), NoLines(h), found)

(* show_help: the help of a menu and what get_symbol_str says               *)
HelpOf(h, m) ==
  LET r == [NoLines(h) EXCEPT !.lines = <<0>>]
  IN IF Menu(m).sym = "" THEN r ELSE get_symbol_str(r, Menu(m).sym, FALSE)

show_help(f, m) ==
  \E r \in {HelpOf(g, m)} : g' = r.g /\ Tells(f, [lines |-> r.lines, open |-> FALSE], 0)

ReadmeLines == 10  \* of mconf_readme, as many as it takes to page through

ConfHelp ==
  /\ Answered({2})
  /\ IF SymOf(SubMenu) # "" THEN show_help(Resumed, SubMenu) /\ UNCHANGED subtitles
     ELSE Tells(Resumed, Prose(ReadmeLines), 0) /\ subtitles' = <<>> /\ UNCHANGED g
  /\ UNCHANGED <<world, data, lines, flags, slip, presses>>

ConfSearch ==
  /\ Answered({9})
  /\ Call(Resumed, Search)
  /\ UNCHANGED <<world, g, data, lines, subtitles, flags, slip, presses>>

SearchLoop ==
  /\ IsAt("search", "loop")
  /\ Opens(Step(Top, "input"), OpenInput(lines, 10, <<>>))
  /\ UNCHANGED <<world, g, data, lines, subtitles, flags, slip, presses>>

(* The pattern is compiled and the symbols it finds are sorted: found. A    *)
(* pattern nothing is known of finds nothing.                               *)
sym_re_search(text) == IF text \in DOMAIN Scene.found THEN Scene.found[text] ELSE <<>>

SearchReturns ==
  /\ IsAt("search", "input") /\ ret # NoRet
  /\ CASE ret.code = 0 -> LET found == sym_re_search(ret.text)
                          IN /\ Goto([Top EXCEPT !.at = "results", !.found = found])
                             /\ g' = CalcAll(g, found)
       [] ret.code = 1 -> Tells(Step(Top, "loop"), Prose(2), 0) /\ UNCHANGED g
       [] OTHER -> Leave /\ UNCHANGED g
  /\ UNCHANGED <<world, data, lines, subtitles, flags, slip, presses>>

(* The results are put together again each time they are shown.             *)
SearchResults ==
  /\ IsAt("search", "results")
  /\ \E r \in {get_relations_str(g, Top.found)} :
       /\ g' = r.g /\ subtitles' = Trail(stack)
       /\ Opens([Top EXCEPT !.at = "jump", !.targets = r.targets],
                OpenText(lines, [lines |-> r.lines, open |-> FALSE], 0, TRUE, Top.vscroll, Top.hscroll))
  /\ UNCHANGED <<world, data, lines, flags, slip, presses>>

(* A key of the page opens the menu its target is in.                       *)
SearchJumps ==
  /\ IsAt("search", "jump") /\ ret # NoRet
  /\ LET hit == IF ret.code = Small THEN {} ELSE {i \in DOMAIN ret.keys : ret.keys[i].key = ret.key}
         to  == Top.targets[ret.keys[Min(hit)].jump]
     IN IF hit = {} THEN Leave
        ELSE Call([Top EXCEPT !.at = "results", !.vscroll = ret.vscroll, !.hscroll = ret.hscroll],
                  Conf(Menu(to).up, to))
  /\ UNCHANGED <<world, g, data, lines, subtitles, flags, slip, presses>>

(***************************************************************************)
(* Changing a value                                                        *)
(***************************************************************************)
sym_set_tristate_value(h, s, v) == IF CanSetTri(h, s, v) THEN SetTri(h, s, v) ELSE h

(* The first of the next values that can be set; the old one can.           *)
sym_toggle_tristate_value(h, s) ==
  LET nexts == [i \in 1..3 |-> (h.tri[s] + i) % 3]
  IN SetTri(h, s, nexts[SelectInSeq(nexts, LAMBDA v : CanSetTri(h, s, v))])

ConfSet ==
  /\ Answered({5, 6, 7, 8})
  /\ LET s == SymOf(SubMenu)
         t == Item_.tag = "t"
         only == t /\ ret.code = 5 /\ ~CanSetTri(g, s, 2) /\ CanSetTri(g, s, 1)
     IN /\ g' = CASE ~t -> g
                  [] t /\ ret.code = 5 -> sym_set_tristate_value(g, s, IF only THEN 1 ELSE 2)
                  [] t /\ ret.code = 6 -> sym_set_tristate_value(g, s, 0)
                  [] t /\ ret.code = 7 -> sym_set_tristate_value(g, s, 1)
                  [] t /\ ret.code = 8 -> sym_toggle_tristate_value(g, s)
        /\ CASE only -> Tells(Resumed, Prose(1), 6)
             [] Item_.tag = "m" /\ ret.code = 8 -> Call(Resumed, Conf(SubMenu, 0))
             [] OTHER -> Goto(Resumed)
  /\ UNCHANGED <<world, data, lines, subtitles, flags, slip, presses>>

ConfShowAll ==
  /\ Answered({10})
  /\ showAll' = ~showAll /\ Goto(Resumed)
  /\ UNCHANGED <<world, g, data, lines, subtitles, opened, grown, saving, slip, presses>>

(* conf_choice: the values that can be seen, the one that holds marked X    *)
ItemIfSeen(v, r, m, n, active) ==
  LET s == Menu(n).sym
      tag == IF s = v.g.chosen[Menu(m).sym] THEN "X" ELSE IF s = "" THEN ":" ELSE ""
  IN IF ~v.yes THEN [r EXCEPT !.g = v.g]
     ELSE [g |-> v.g, items |-> Append(r.items, [tag |-> tag, menu |-> n,
                                                 hot |-> Scene.hot[n], on |-> s = active])]
ChoiceItems(h, m, active) ==
  FoldLeft(LAMBDA r, n : ItemIfSeen(menu_is_visible(r.g, n), r, m, n, active),
           [g |-> h, items |-> <<>>], Menu(m).list)

ChoiceLoop ==
  /\ IsAt("choice", "loop")
  /\ \E r \in {ChoiceItems(g, Top.menu, Top.active)} :
       g' = r.g /\ Opens(Step(Top, "list"), OpenList(lines, r.items))
  /\ UNCHANGED <<world, data, lines, subtitles, flags, slip, presses>>

ChoiceReturns ==
  /\ IsAt("choice", "list") /\ ret # NoRet
  /\ CASE ret.code = 0 /\ SymOf(SubMenu) = "" -> Goto(Step(Top, "loop")) /\ UNCHANGED g
       [] ret.code = 0 /\ SymOf(SubMenu) # "" -> Leave /\ g' = sym_set_tristate_value(g, SymOf(SubMenu), 2)
       [] ret.code = 1 -> show_help([Top EXCEPT !.at = "loop", !.active = SymOf(SubMenu)], SubMenu)
       [] OTHER -> Leave /\ UNCHANGED g
  /\ UNCHANGED <<world, data, lines, subtitles, flags, slip, presses>>

(* conf_string. If the terminal is too small the loop goes round for ever.  *)
StringLoop ==
  /\ IsAt("string", "loop")
  /\ Opens(Step(Top, "input"), OpenInput(lines, 10, Str(g, SymOf(Top.menu))))
  /\ UNCHANGED <<world, g, data, lines, subtitles, flags, slip, presses>>

StringReturns ==
  /\ IsAt("string", "input") /\ ret # NoRet
  /\ LET s == SymOf(Top.menu)
     IN CASE ret.code = 0 /\ sym_string_within_range(g, s, ret.text) -> Leave /\ g' = SetText(g, s, ret.text)
          [] ret.code = 0 /\ ~sym_string_within_range(g, s, ret.text) ->
               Tells(Step(Top, "loop"), Message, 5) /\ g' = WithRange(g, s)
          [] ret.code = 1 -> show_help(Step(Top, "loop"), Top.menu)
          [] ret.code = Esc -> Leave /\ UNCHANGED g
          [] ret.code = Small -> Goto(Step(Top, "loop")) /\ UNCHANGED g
  /\ UNCHANGED <<world, data, lines, subtitles, flags, slip, presses>>

(***************************************************************************)
(* Files                                                                   *)
(***************************************************************************)
ConfFile ==
  /\ Answered({3, 4})
  /\ Call(Resumed, Asking(IF ret.code = 3 THEN "save" ELSE "load", 0)) /\ subtitles' = <<>>
  /\ UNCHANGED <<world, g, data, lines, flags, slip, presses>>

FileLoop ==
  /\ \E fn \in {"save", "load"} : IsAt(fn, "loop")
  /\ Opens(Step(Top, "input"), OpenInput(lines, 11, filename))
  /\ UNCHANGED <<world, g, data, lines, subtitles, flags, slip, presses>>

(* Nothing was typed, help, escape or a terminal that is too small          *)
FileNot ==
  /\ \E fn \in {"save", "load"} : IsAt(fn, "input")
  /\ ret # NoRet /\ (ret.code = 0 => ret.text = <<>>)
  /\ CASE ret.code = 1 -> Tells(Step(Top, "loop"), Prose(2), 0)
       [] ret.code = Small -> Goto(Step(Top, "loop"))
       [] OTHER -> Leave
  /\ UNCHANGED <<world, g, data, lines, subtitles, flags, slip, presses>>

Named(fn) == IsAt(fn, "input") /\ ret # NoRet /\ ret.code = 0 /\ ret.text # <<>>

Load ==
  /\ Named("load") /\ ret.text \in DOMAIN files
  /\ g' = [conf_read(g, files[ret.text]) EXCEPT !.changed = TRUE] /\ filename' = ret.text
  /\ Leave
  /\ slip' = "none"
  /\ UNCHANGED <<world, files, saved, lines, subtitles, flags, presses>>

(* conf_read sets the count of changes to 0 before it finds that there is   *)
(* no such file.                                                            *)
LoadNone ==
  /\ Named("load") /\ ret.text \notin DOMAIN files
  /\ g' = [g EXCEPT !.changed = FALSE] /\ slip' = IF g.changed THEN "load" ELSE slip
  /\ Tells(Step(Top, "loop"), Message, 5)
  /\ UNCHANGED <<world, data, lines, subtitles, flags, presses>>

(* The two renames of conf_write: a file that is there becomes name.old,    *)
(* the temporary file becomes name.                                         *)
Old(name) == Append(name, "old")
Moved(name) ==
  [n \in (DOMAIN files \ {name}) \cup (IF name \in DOMAIN files THEN {Old(name)} ELSE {}) |->
    IF n = Old(name) /\ name \in DOMAIN files THEN files[name] ELSE files[n]]

(* Mutant: the file that is there is written over.                          *)
Written_NoOld(name) == (name :> conf_write(g).lines) @@ files

Written(name) == (name :> conf_write(g).lines) @@ Moved(name)

(* What the user then takes to be saved: all that can be seen.              *)
Seen(h) == {LineOf(h, s) : s \in {x \in h.valid : ~IsChoice(x) /\ h.visible[x] # 0}}
Saved(name) == (name :> Seen(conf_write(g).g)) @@ saved

(* conf_write tells that it wrote the file before the changes are forgotten *)
Save ==
  /\ Named("save") /\ ret.text \in Scene.writable
  /\ files' = Written(ret.text) /\ saved' = Saved(ret.text) /\ g' = conf_write(g).g
  /\ LET f == [fn |-> "save", at |-> "written", menu |-> 0, name |-> ret.text]
     IN IF saving THEN stack' = Append(Below, f) /\ ret' = Return(0) /\ UNCHANGED told
        ELSE Tells(f, Message, 6)
  /\ UNCHANGED <<world, filename, lines, subtitles, flags, slip, presses>>

SaveDone ==
  /\ IsAt("save", "written") /\ ret # NoRet
  /\ g' = [g EXCEPT !.changed = FALSE] /\ filename' = Top.name /\ slip' = "none"
  /\ Leave
  /\ UNCHANGED <<world, files, saved, lines, subtitles, flags, presses>>

SaveFails ==
  /\ Named("save") /\ ret.text \notin Scene.writable
  /\ Tells(Step(Top, "loop"), Message, 5)
  /\ UNCHANGED <<world, g, data, lines, subtitles, flags, slip, presses>>

(***************************************************************************)
(* main, the end, signals and keys                                         *)
(***************************************************************************)
init_dialog == lines >= WINDOW_HEIGTH_MIN   \* whether there is a dialog at all

(* conf_read(NULL), and the menus if the terminal is large enough           *)
Start ==
  /\ IsAt("main", "loop") /\ g = Fresh
  /\ g' = IF DotConfig \in DOMAIN files THEN conf_read(g, files[DotConfig])
          ELSE sym_calc_value([g EXCEPT !.changed = TRUE], Kconfig.modules)
  /\ IF init_dialog THEN Call(Step(Top, "exit"), Conf(Root, 0)) ELSE Quit("small")
  /\ UNCHANGED <<world, data, lines, subtitles, flags, slip, presses>>

(* handle_exit: it asks if there are changes.                               *)
HandleExit ==
  /\ IsAt("main", "exit")
  /\ saving' = TRUE /\ subtitles' = <<>>
  /\ IF g.changed THEN Opens(Step(Top, "asked"), OpenYesNo(lines)) ELSE Quit("end")
  /\ UNCHANGED <<world, g, data, lines, showAll, opened, grown, slip, presses>>

(* After escape the menus are shown again, unless a signal was the reason.  *)
ExitAnswered ==
  /\ IsAt("main", "asked") /\ ret # NoRet
  /\ LET saves == ret.code = 0 /\ filename \in Scene.writable
     IN /\ CASE ret.code = 0 -> Quit(IF saves THEN "end" ELSE "error")
             [] ret.code = Esc /\ ~Top.signal -> Call(Step(Top, "exit"), Conf(Root, 0))
             [] OTHER -> Quit("lost")
        /\ files' = IF saves THEN Written(filename) ELSE files
        /\ saved' = IF saves /\ slip # "signal" THEN Saved(filename) ELSE saved
        /\ slip' = IF saves /\ slip = "load" THEN "none" ELSE slip
  /\ UNCHANGED <<world, g, filename, lines, subtitles, flags, presses>>

(* SIGINT: exit(handle_exit()), whatever the program is doing; once, since  *)
(* the signal is blocked in its handler. One that comes before the first    *)
(* menu finds nothing to lose and is left out.                              *)
Handler ==
  /\ stack # <<>> /\ ~stack[1].signal /\ g # Fresh /\ Scene.signal
  /\ stack' = <<Main(TRUE)>> /\ ret' = NoRet
  /\ UNCHANGED <<world, lines, subtitles, flags, told, presses>>

(* It comes while a dialog waits for a key, which may be the one by which   *)
(* conf_write tells that the file was written.                              *)
Signal ==
  /\ Handler /\ Top.fn \in Dialogs
  /\ slip' = IF \E i \in DOMAIN stack : stack[i].fn = "save" /\ stack[i].at = "written"
             THEN "signal" ELSE slip
  /\ UNCHANGED <<g, data>>

(* What it finds when it interrupts a function that works.                  *)
Stage(h, fs, name, kept) == [g |-> h, files |-> fs, filename |-> name, saved |-> kept]

(* conf_read: the count is 0, some lines are read, all values calculated;   *)
(* then the name is set, and the count last.                                *)
ReadStages(name) ==
  LET text == files[name]
      none == [g EXCEPT !.changed = FALSE]
      full == conf_read(g, text)
  IN {Stage(h, files, filename, saved) :
        h \in {none, full} \cup {ReadLines(none, SubSeq(text, 1, n)) : n \in 0..Len(text)}}
       \cup {Stage(full, files, name, saved)}

(* conf_write: some entries are written to the temporary file; between the  *)
(* renames; behind them; and the count is 0 but the name not yet set.       *)
WriteStages(name) ==
  LET full == conf_write(g).g
  IN {Stage(WriteEntries(g, n).g, files, filename, saved) : n \in 0..Len(Entries)}
       \cup {Stage(full, Moved(name), filename, saved)}
       \cup {Stage(h, Written(name), filename, Saved(name)) :
              h \in {full, [full EXCEPT !.changed = FALSE]}}

(* Any other function: of the symbols that are not valid, some are being    *)
(* calculated. sym_calc_value begins with setting SYMBOL_VALID and clearing *)
(* SYMBOL_WRITE.                                                            *)
WorkStages ==
  {Stage([g EXCEPT !.valid = @ \cup being, !.write = @ \ being], files, filename, saved) :
     being \in SUBSET (All \ g.valid)}

Stages ==
  CASE Named("load") /\ ret.text \in DOMAIN files -> ReadStages(ret.text)
    [] Named("save") /\ ret.text \in Scene.writable -> WriteStages(ret.text)
    [] IsAt("main", "asked") /\ ret # NoRet /\ ret.code = 0 /\ filename \in Scene.writable ->
         WriteStages(filename)
    [] OTHER -> WorkStages

Interrupt ==
  /\ Handler /\ Top.fn \notin Dialogs
  /\ \E at \in Stages : /\ g' = at.g /\ files' = at.files
                        /\ filename' = at.filename /\ saved' = at.saved
  /\ slip' = "signal"

(* on_key_esc: an escape and what follows it at once. Two escapes are       *)
(* KEY_ESC; one other key is put back; the rest is dropped.                 *)
on_key_esc(rest) == IF Len(rest) = 1 THEN Head(rest) ELSE "none"

Typed == (Scene.keys \ {"esc"})
           \cup (IF "esc" \in Scene.keys THEN {on_key_esc(<<>>), on_key_esc(<<"esc">>)} ELSE {})

DialogKey(n, d, key) ==
  CASE d.fn = "menubox" -> MenuKey(n, d, key)
    [] d.fn = "checklist" -> ListKey(n, d, key)
    [] d.fn = "inputbox" -> InputKey(n, d, key, Scene.letters)
    [] d.fn = "textbox" -> TextKey(n, d, key)
    [] d.fn = "yesno" -> YesNoKey(n, d, key)

Waits == stack # <<>> /\ Top.fn \in Dialogs /\ presses < Scene.budget

Press ==
  /\ Waits
  /\ \E key \in Typed : Show(Below, DialogKey(lines, Top, key))
  /\ presses' = presses + 1
  /\ UNCHANGED <<world, g, data, lines, subtitles, flags, slip>>

(* The terminal gets another size: KEY_RESIZE                               *)
Resize ==
  /\ Waits
  /\ \E n \in Scene.heights \ {lines} : lines' = n /\ Show(Below, DialogKey(n, Top, "resize"))
  /\ presses' = presses + 1
  /\ UNCHANGED <<world, g, data, subtitles, flags, slip>>

Next ==
  \/ Start \/ ConfLoop \/ ConfLeave \/ ConfSelect \/ ConfHelp \/ ConfSearch \/ ConfSet
  \/ ConfShowAll \/ ConfFile
  \/ SearchLoop \/ SearchReturns \/ SearchResults \/ SearchJumps
  \/ ChoiceLoop \/ ChoiceReturns \/ StringLoop \/ StringReturns
  \/ FileLoop \/ FileNot \/ Load \/ LoadNone \/ Save \/ SaveDone \/ SaveFails
  \/ HandleExit \/ ExitAnswered \/ Signal \/ Interrupt \/ Press \/ Resize

Spec == Init /\ [][Next]_vars

(***************************************************************************)
(* Properties                                                              *)
(***************************************************************************)
(* Rows that are printed one by one agree with scroll and choice: the item  *)
(* a key acts on is the one that is lit.                                    *)
RowsAgree(d) ==
  /\ d.scroll >= 0 /\ d.scroll + d.rows <= Len(d.items)
  /\ d.items # <<>> => d.choice \in DOMAIN d.screen
  /\ \A r \in DOMAIN d.screen : d.screen[r] = [item |-> d.scroll + r, lit |-> r = d.choice]

(* A box is shown around a value that can be changed, braces if it cannot   *)
(* be n, and dashes if nothing can be done.                                 *)
Marked(it) ==
  LET s == SymOf(it.menu)
      others == {v \in 0..2 : v # g.tri[s] /\ CanSetTri(g, s, v)}
  IN it.shows.type \in {"boolean", "tristate"} =>
       /\ it.shows.value = g.tri[s]
       /\ it.shows.fixed <=> others = {}
       /\ ~it.shows.fixed /\ it.shows.least = 0 => CanSetTri(g, s, 0)

(* In an input box the cursor is on the character that is edited next, and  *)
(* the columns show the line from show on, though inputbox.c stops printing *)
(* at the first blank; the line never grows past MAX_LEN.                   *)
LineAsShown ==
  stack # <<>> /\ Top.fn = "inputbox" =>
    /\ Top.pos = Top.show + Top.input /\ Top.pos <= Len(Top.instr)
    /\ Top.show >= 0 /\ Top.input \in 0..BOX_WIDTH - 1
    /\ Len(Top.instr) <= MAX_LEN
    /\ Top.cells = Cells(Top.instr, Top.show)

(* In a menu, a list or a question the highlighted line is the one that     *)
(* Enter acts on and the button that is lit is the one it presses, whatever *)
(* keys led there (menubox.c and checklist.c redraw only what changes), and *)
(* every line of a menu shows truly whether y, n, m or space can change it; *)
(* above it stands the way to it through all menus and searches.            *)
(* Not after the terminal was resized under a menu: dialog_menu then keeps  *)
(* first_item, choice and button of the old size.                           *)
LinesAsShown ==
  stack # <<>> =>
    /\ Top.fn = "menubox" => /\ ~Top.resized => RowsAgree(Top)
                             /\ \A i \in DOMAIN Top.items : Marked(Top.items[i])
    /\ Top.fn = "checklist" => RowsAgree(Top)
    /\ Top.fn \in {"menubox", "checklist"} => subtitles = Trail(stack)
    /\ Top.fn \in {"menubox", "checklist", "yesno"} /\ ~Top.resized => Top.shown = Top.button

(* What is shown is what the next key acts on, in every dialog, and in a    *)
(* terminal that keeps its size no menu is ever printed past its last item, *)
(* where print_page would end the program (lxdialog).                       *)
ShownIsActedOn ==
  LinesAsShown /\ LineAsShown /\ (told = "crash" => Cardinality(Scene.heights) > 1)

(* Whatever is typed and whenever a signal comes, the last configuration    *)
(* that was saved under a name is on the disk as it was on the screen, in   *)
(* that file or, if handle_exit has written over it what was interrupted,   *)
(* in its .old (the renames of conf_write).                                 *)
LastSavedKept ==
  \A n \in DOMAIN saved :
    \E f \in {n, Old(n)} \cap DOMAIN files : saved[n] \subseteq ToSet(files[f])

(* When menuconfig says it is the end of the configuration, the file it     *)
(* saves to holds the configuration that was on the screen: a load, a save  *)
(* under another name, a value set and set back never make it forget a      *)
(* change. A load of a file that does not exist does, since conf_read sets  *)
(* the count of changes to 0 first; and so does a signal that comes while   *)
(* the program works or tells that a file was written (slip): of these only *)
(* LastSavedKept speaks.                                                    *)
EndMeansSaved ==
  told = "end" /\ slip = "none" =>
    /\ filename \in DOMAIN files
    /\ \A s \in {x \in g.valid : ~IsChoice(x)} :
         LET of == SelectSeq(files[filename], LAMBDA l : l.name = s)
         IN of = <<LineOf(g, s)>> \/ (of = <<>> /\ g.visible[s] = 0)

(* A configuration that was saved stays on the disk, and the end comes      *)
(* without a question only if nothing is left to save (conf_write,          *)
(* conf_load, conf_save, handle_exit).                                      *)
SavedIsKept == LastSavedKept /\ EndMeansSaved

(* A page of a text starts where the keys say: one line up or down, aside   *)
(* not at all, and begin_reached is true of the first page alone, so that   *)
(* no line is out of reach (textbox.c only keeps the place after the page). *)
(* On a page of search results the lines with a jump have different keys.   *)
(* A terminal of TEXTBOX_HEIGTH_MIN lines leaves no row for the text, and a *)
(* message without \n at its end vanishes when it is scrolled aside.        *)
PagesFollow ==
  stack # <<>> /\ Top.fn = "textbox" /\ Top.boxh > 0 /\ ~Top.text.open =>
    LET After(key) == TextKey(lines, Top, key).top
        total == Len(Top.text.lines)
    IN /\ Top.begin <=> Top.top = 0
       /\ Top.end => Top.top + Top.boxh >= total
       /\ After("up") = Greater(Top.top - 1, 0)
       /\ ~Top.end => After("down") = Top.top + 1
       /\ After("left") = Top.top /\ After("right") = Top.top
       /\ LeaveText(Top, "x").vscroll = Top.top
       /\ \A i, j \in DOMAIN Top.keys : i # j => Top.keys[i].key # Top.keys[j].key
       /\ Top.search =>
            \A n \in 1..total :
              Top.text.lines[n] # 0 /\ n - 1 \in Top.top..Top.top + Top.boxh - 1 =>
                \/ Len(Top.keys) = JUMP_NB
                \/ \E i \in DOMAIN Top.keys : Top.keys[i].at = n - 1
=============================================================================
