------------------------------ MODULE KConfData ------------------------------
(***************************************************************************)
(* Configurations in files (confdata.c). A line is [set, name, text]:      *)
(* NAME=text, or "# NAME is not set" if set is FALSE.                      *)
(***************************************************************************)
EXTENDS KSymbol

SetLine(s, t) == [set |-> TRUE, name |-> s, text |-> t]
UnsetLine(s)  == [set |-> FALSE, name |-> s, text |-> <<>>]

(* All symbols as conf_parse leaves them                                    *)
Fresh ==
  LET Of(x) == [s \in All |-> x]
  IN [valid |-> {}, user |-> {}, write |-> {}, need |-> {}, hastext |-> {},
      def |-> Of(0), deftext |-> Of(<<>>), pick |-> Of(""),
      tri |-> Of(0), text |-> Of(<<>>), chosen |-> Of(""),
      visible |-> Of(0), dir |-> Of(0), rev |-> Of(0),
      modval |-> 0, changed |-> TRUE, warned |-> FALSE, unsaved |-> FALSE, stale |-> FALSE]

(***************************************************************************)
(* Reading                                                                 *)
(***************************************************************************)
(* The characters up to the quote that ends the string, without the         *)
(* backslashes; closed says whether there is one.                           *)
RECURSIVE Unescape(_, _)
Unescape(t, got) ==
  CASE t = <<>> -> [text |-> got, closed |-> FALSE]
    [] t # <<>> /\ t[1] = Quote -> [text |-> got, closed |-> TRUE]
    [] t # <<>> /\ t[1] = Backslash /\ Len(t) > 1 -> Unescape(SubSeq(t, 3, Len(t)), Append(got, t[2]))
    [] OTHER -> Unescape(Tail(t), Append(got, t[1]))

(* conf_set_sym_val: what a line gives a symbol of this type: a value, or   *)
(* "none" if the line is passed over, or "bad" with a warning.              *)
conf_set_sym_val(s, t) ==
  LET c == IF t = <<>> THEN "" ELSE t[1]
      u == Unescape(Tail(t), <<>>)
      Got(x) == [is |-> "value", tri |-> 0, text |-> x]
      Bad  == [is |-> "bad", tri |-> 0, text |-> <<>>]
      None == [is |-> "none", tri |-> 0, text |-> <<>>]
  IN CASE TypeOf(s) \in {"boolean", "tristate"} ->
            (IF c = "m" /\ TypeOf(s) = "tristate" THEN [Got(<<>>) EXCEPT !.tri = 1]
             ELSE IF c = "y" THEN [Got(<<>>) EXCEPT !.tri = 2]
             ELSE IF c = "n" THEN Got(<<>>) ELSE Bad)
       [] TypeOf(s) = "string" -> IF c # Quote THEN None
                                  ELSE IF u.closed THEN Got(u.text) ELSE Bad
       [] OTHER -> IF sym_string_valid(s, t) THEN Got(t) ELSE Bad

(* A value of a choice counts for the choice too.                           *)
ForChoice(g, s) ==
  LET c == Decl(s).choice
      v == g.def[s]
  IN IF ~IsValue(s) THEN g
     ELSE [g EXCEPT !.user = IF v = 1 /\ g.def[c] = 2 THEN @ \ {c} ELSE @,
                    !.warned = @ \/ (v = 1 /\ g.def[c] = 2) \/ (v = 2 /\ g.def[c] # 0),
                    !.pick[c] = IF v = 2 THEN s ELSE @,
                    !.def[c] = Larger(@, v)]

ReadLine(g, line) ==
  LET s == line.name
      v == conf_set_sym_val(s, line.text)
      again == g.warned \/ s \in g.user
  IN CASE s \notin All -> [g EXCEPT !.changed = TRUE]
       [] s \in All /\ ~line.set /\ IsText(s) -> [g EXCEPT !.warned = again]
       [] s \in All /\ ~line.set /\ ~IsText(s) ->
            ForChoice([g EXCEPT !.warned = again, !.def[s] = 0, !.user = @ \cup {s}], s)
       [] s \in All /\ line.set /\ v.is = "bad" -> [g EXCEPT !.warned = TRUE]
       [] s \in All /\ line.set /\ v.is = "none" -> [g EXCEPT !.warned = again]
       [] OTHER ->
            ForChoice([g EXCEPT !.warned = again, !.user = @ \cup {s},
                                !.def[s] = v.tri, !.deftext[s] = v.text,
                                !.hastext = IF IsText(s) THEN @ \cup {s} ELSE @], s)

(* The loop of conf_read_simple(name, S_DEF_USER): everything the user had  *)
(* set is forgotten, a choice is not new, and nothing is valid.             *)
ReadLines(g, lines) ==
  LET g1 == [g EXCEPT !.valid = {}, !.user = {s \in All : IsChoice(s)}, !.hastext = {},
                      !.def = [s \in All |-> 0], !.deftext = [s \in All |-> <<>>],
                      !.pick = [s \in All |-> ""], !.warned = FALSE, !.unsaved = FALSE,
                      !.stale = FALSE]
  IN FoldLeft(ReadLine, g1, lines)
conf_read_simple(g, lines) == sym_calc_value(ReadLines(g, lines), Kconfig.modules)

(* Is the value that was read not the one that holds?                       *)
Disagrees(g, s) ==
  IF s \in g.user /\ s \in g.write
  THEN IF IsText(s) THEN g.text[s] # g.deftext[s] ELSE g.tri[s] # g.def[s]
  ELSE s \in g.user \/ s \in g.write

(* Values that cannot be seen become new, numbers out of range are dropped; *)
(* what depends on such a number stays as it is, and stale says so.         *)
NewUnseen(g, s) ==
  IF g.visible[s] = 0 /\ ~g.unsaved THEN [g EXCEPT !.user = @ \ {s}] ELSE g
DropUnlessValid(g, s) ==
  IF sym_string_valid(s, g.deftext[s]) /\ InRange(g, s, g.deftext[s]) THEN g
  ELSE [g EXCEPT !.valid = @ \ {s}, !.user = @ \ {s}, !.unsaved = TRUE, !.stale = TRUE]
Forget(g, s) ==
  CASE s \notin g.user \/ IsValue(s) -> g
    [] s \in g.user /\ ~IsValue(s) /\ ~IsText(s) -> NewUnseen(g, s)
    [] OTHER -> DropUnlessValid(WithRange(NewUnseen(g, s), s), s)

(* conf_read of a file that exists                                          *)
Compared(g, s) ==
  IF ~IsChoice(s) /\ Disagrees(g, s) THEN [g EXCEPT !.unsaved = TRUE] ELSE g
ToSave(g) == [g EXCEPT !.changed = @ \/ g.warned \/ g.unsaved]
conf_read(g, lines) ==
  ToSave(FoldLeft(Forget,
                  FoldLeft(LAMBDA h, s : Compared(sym_calc_value(h, s), s),
                           conf_read_simple([g EXCEPT !.changed = FALSE], lines), Kconfig.order),
                  Kconfig.order))

(***************************************************************************)
(* Writing                                                                 *)
(***************************************************************************)
Menus   == DOMAIN Kconfig.menus
Menu(m) == Kconfig.menus[m]

Is(g, b) == [g |-> g, yes |-> b]

RECURSIVE menu_is_visible(_, _), Outline(_)

(* Is the menu to be seen? A symbol with entries that are, while it is not, *)
(* is not new.                                                              *)
SeenByKids(r, s) == IF r.yes THEN Is([r.g EXCEPT !.user = @ \cup {s}], TRUE) ELSE r
SeenItself(g, m) ==
  CASE Value(g, Menu(m).vis) # 0 -> Is(g, TRUE)
    [] Value(g, Menu(m).vis) = 0 /\ (Menu(m).sym = "" \/ g.tri[Menu(m).sym] = 0) -> Is(g, FALSE)
    [] OTHER -> SeenByKids(FoldLeft(LAMBDA r, n : IF r.yes THEN r ELSE menu_is_visible(r.g, n),
                                    Is(g, FALSE), Menu(m).list), Menu(m).sym)
SeenInMenu(g, m) ==
  IF Value(g, Menu(m).visibility) = 0 THEN Is(g, FALSE)
  ELSE SeenItself(CalcAll(g, IF Menu(m).sym = "" THEN Names(Menu(m).vis) ELSE <<Menu(m).sym>>), m)
menu_is_visible(g, m) ==
  IF Menu(m).prompt = "none" THEN Is(g, FALSE) ELSE SeenInMenu(Known(g, Menu(m).visibility), m)

(* The menus in the order in which they are walked                          *)
Outline(m) == <<m>> \o FlattenSeq([k \in DOMAIN Menu(m).list |-> Outline(Menu(m).list[k])])
Root == 1
Entries == Tail(Outline(Root))

(* conf_write_symbol with kconfig_printer_cb                                *)
LineOf(g, s) ==
  CASE TypeOf(s) = "string" -> SetLine(s, sym_escape_string_value(Str(g, s)))
    [] TypeOf(s) \in {"int", "hex"} -> SetLine(s, Str(g, s))
    [] OTHER -> IF Str(g, s) = <<"n">> THEN UnsetLine(s) ELSE SetLine(s, Str(g, s))

Out(g, lines) == [g |-> g, lines |-> lines]

(* Mutant: what cannot be seen is not written.                              *)
WriteOnce_VisibleOnly(g, lines, s) ==
  IF s \notin g.write \/ g.visible[s] = 0 THEN Out(g, lines)
  ELSE Out([g EXCEPT !.write = @ \ {s}], Append(lines, LineOf(g, s)))

(* What is written of the symbol of an entry, g being calculated.           *)
(* SYMBOL_WRITE is cleared so that a symbol with several entries is written *)
(* once.                                                                    *)
WriteOnce(g, lines, s) ==
  IF s \notin g.write THEN Out(g, lines)
  ELSE Out([g EXCEPT !.write = @ \ {s}], Append(lines, LineOf(g, s)))
WriteEntry(r, m) ==
  CASE Menu(m).sym = "" -> Out(menu_is_visible(r.g, m).g, r.lines)
    [] Menu(m).sym # "" /\ IsChoice(Menu(m).sym) -> r
    [] OTHER -> WriteOnce(sym_calc_value(r.g, Menu(m).sym), r.lines, Menu(m).sym)

(* The lines conf_write writes, as far as its first n entries.              *)
WriteEntries(g, n) ==
  FoldLeft(WriteEntry, Out(IF g.changed THEN g ELSE sym_clear_all_valid(g), <<>>),
           SubSeq(Entries, 1, n))
conf_write(g) == WriteEntries(g, Len(Entries))

(* Would the symbol have its value without the user? d is what it has then. *)
SameAs(g, s, d) ==
  \/ Str(g, s) = d.str
  \/ /\ IsValue(s) /\ ~Decl(Decl(s).choice).optional
     /\ sym_choice_default(d.g, Decl(s).choice) = s
     /\ TypeOf(s) = "boolean" /\ g.tri[s] = 2

(* The lines conf_write_defconfig writes: what is not the default.          *)
DifferingLine(g, lines, s, d) ==
  Out(d.g, IF SameAs(g, s, d) THEN lines ELSE Append(lines, LineOf(g, s)))
UnlessFixed(g, lines, s) ==
  IF sym_is_changable(g, s) THEN DifferingLine(g, lines, s, sym_get_string_default(g, s))
  ELSE Out(g, lines)
UnlessDefault(g, lines, s) ==
  IF s \notin g.write THEN Out(g, lines) ELSE UnlessFixed([g EXCEPT !.write = @ \ {s}], lines, s)
DefconfigEntry(r, m) ==
  CASE Menu(m).sym = "" -> Out(menu_is_visible(r.g, m).g, r.lines)
    [] Menu(m).sym # "" /\ IsChoice(Menu(m).sym) -> r
    [] OTHER -> UnlessDefault(sym_calc_value(r.g, Menu(m).sym), r.lines, Menu(m).sym)
conf_write_defconfig(g) ==
  FoldLeft(DefconfigEntry, Out(sym_clear_all_valid(g), <<>>), Entries)

(* What conf_write_autoconf writes: the symbols that are set                *)
AutoLines(g, named) ==
  [g |-> g, lines |-> SelectSeq([k \in DOMAIN named |-> LineOf(g, named[k])], LAMBDA l : l.set)]
AutoOf(g) ==
  AutoLines(g, SelectSeq(Kconfig.order, LAMBDA s : s \in g.write /\ ~IsChoice(s)))
Auto(g) == AutoOf(CalcAll(g, Kconfig.order))

(* Mutant: the file of a symbol that is no longer set stays as it is.       *)
Touches_OnlySet(g, old, s) ==
  LET lines == SelectSeq(old, LAMBDA l : l.name = s)
      was   == conf_set_sym_val(s, Last(lines).text)
  IN IF s \notin g.write THEN FALSE
     ELSE IF lines # <<>> THEN IF IsText(s) THEN g.text[s] # was.text ELSE g.tri[s] # was.tri
     ELSE IsText(s) \/ g.tri[s] # 0

(* conf_split_config: does the file that stands for s change? old is        *)
(* auto.conf as it is read, with SYMBOL_DEF_AUTO for its symbols.           *)
Touches(g, old, s) ==
  LET lines == SelectSeq(old, LAMBDA l : l.name = s)
      was   == conf_set_sym_val(s, Last(lines).text)
      has   == lines # <<>>
  IN IF s \notin All THEN TRUE
     ELSE IF s \in g.write
     THEN IF has THEN IF IsText(s) THEN g.text[s] # was.text ELSE g.tri[s] # was.tri
          ELSE IsText(s) \/ g.tri[s] # 0
     ELSE has

(***************************************************************************)
(* conf_set_all_new_symbols                                                *)
(***************************************************************************)
(* A symbol without a value that is not calculated gets one: value(s), if   *)
(* there is one for the mode. A choice stays new if values are random.      *)
Assign(g, value, random) ==
  LET new == {s \in All : s \notin g.user /\ s \notin g.valid /\ ~IsText(s)}
  IN sym_clear_all_valid(
       [g EXCEPT !.def = [s \in All |-> IF s \in new THEN value[s] ELSE @[s]],
                 !.user = @ \cup {s \in new : ~(IsChoice(s) /\ random)}])

(* Mode "default" only looks at the choices.                                *)
Keep(g) == sym_clear_all_valid(g)

SetChoices(g) ==
  LET need == {s \in All : (IsChoice(s) /\ s \notin g.user) \/ IsValue(s)}
  IN FoldLeft(LAMBDA h, c : IF c \in h.user \/ ~IsChoice(c) THEN h
                            ELSE set_all_choice_values(sym_calc_value(h, c), c),
              [g EXCEPT !.need = @ \cup need], Kconfig.order)

(* randomize_choice_values, with dice[c] the value that is drawn            *)
randomize_choice_values(g, c, dice) ==
  LET vs == ToSet(Decl(c).values)
  IN [g EXCEPT !.def = [s \in All |-> IF s \notin vs THEN @[s] ELSE IF s = dice[c] THEN 2 ELSE 0],
               !.pick[c] = dice[c], !.user = @ \cup vs \cup {c}, !.valid = @ \ (vs \cup {c})]

(* more is what the function returns: TRUE if symbols were new, then what   *)
(* the last choice without a value says.                                    *)
Randomized(g, c, dice) ==
  IF g.tri[c] = 2 THEN [g |-> randomize_choice_values(g, c, dice), more |-> TRUE]
  ELSE [g |-> g, more |-> FALSE]
RandomChoices(g, dice, more) ==
  FoldLeft(LAMBDA r, c : IF c \in r.g.user \/ ~IsChoice(c) THEN r
                         ELSE Randomized(sym_calc_value(r.g, c), c, dice),
           [g |-> g, more |-> more], Kconfig.order)
=============================================================================
