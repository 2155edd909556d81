------------------------------- MODULE KSymbol -------------------------------
(***************************************************************************)
(* The values of configuration symbols (symbol.c). A value is computed     *)
(* from the user's, the defaults, the prompts and the symbols that select  *)
(* it, and kept until SYMBOL_VALID is cleared. g is what symbol.c keeps in *)
(* its symbols; every function that changes it returns the new one.        *)
(***************************************************************************)
EXTENDS KExpr, Functions

CONSTANTS
  Kconfigs,      \* name -> a Kconfig, see below
  Chars          \* a constant of the files -> its characters

VARIABLE world   \* the name of the Kconfig that was parsed; it never changes

Kconfig == Kconfigs[world]

(* Kconfig.order is the order of the hash table, .modules modules_sym.        *)
(* decl[s] has prompts (conditions), defaults [vis, val], ranges [vis, lo,  *)
(* hi], rev and dir, as menu_finalize leaves them; values of a choice, the  *)
(* choice of a value ("" for none) and whether a choice is optional.        *)
Decl(s)    == Kconfig.decl[s]
All        == DOMAIN Kconfig.decl
IsChoice(s) == s \in All /\ Decl(s).values # <<>>
IsValue(s)  == s \in All /\ Decl(s).choice # ""
TextTypes  == {"int", "hex", "string"}
IsText(s)  == TypeOf(s) \in TextTypes
Smaller(v, w) == IF v < w THEN v ELSE w
Larger(v, w)  == IF v > w THEN v ELSE w

(***************************************************************************)
(* Text                                                                    *)
(***************************************************************************)
Digit == [c \in {"0", "1", "2", "3", "4", "5", "6", "7", "8", "9"} |->
            CHOOSE n \in 0..9 : ToString(n) = c]
XDigit == Digit @@ [c \in {"a", "b", "c", "d", "e", "f"} |->
            10 + (CHOOSE n \in 0..5 : <<"a", "b", "c", "d", "e", "f">>[n + 1] = c)]

Prefixed(t) == Len(t) >= 2 /\ t[1] = "0" /\ t[2] \in {"x", "X"}
Digits(t, base) == SelectSeq(IF base = 16 /\ Prefixed(t) THEN SubSeq(t, 3, Len(t)) ELSE t,
                             LAMBDA c : c # "-")

(* strtoll: the number the longest prefix of digits gives.                  *)
DigitsOf(base) == IF base = 10 THEN Digit ELSE XDigit
Leading(d, base) ==
  SubSeq(d, 1, Max({n \in 0..Len(d) : \A k \in 1..n : d[k] \in DOMAIN DigitsOf(base)}))
strtoll(t, base) ==
  (IF t # <<>> /\ t[1] = "-" THEN -1 ELSE 1)
    * FoldLeft(LAMBDA x, c : x * base + DigitsOf(base)[c], 0, Leading(Digits(t, base), base))

(* sprintf("%lld") and sprintf("0x%llx")                                    *)
RECURSIVE Print_(_, _)
Print_(n, base) ==
  (IF n < base THEN <<>> ELSE Print_(n \div base, base))
    \o <<CHOOSE c \in DOMAIN XDigit : XDigit[c] = n % base>>
Base(type) == IF type = "hex" THEN 16 ELSE 10
Number(n, type) ==
  (IF type = "hex" THEN <<"0", "x">> ELSE IF n < 0 THEN <<"-">> ELSE <<>>)
    \o Print_(IF n < 0 THEN -n ELSE n, Base(type))

sym_string_valid(s, t) ==
  CASE TypeOf(s) = "string" -> TRUE
    [] TypeOf(s) = "int" ->
         LET d == IF t # <<>> /\ t[1] = "-" THEN Tail(t) ELSE t
         IN /\ d # <<>> /\ \A k \in DOMAIN d : d[k] \in DOMAIN Digit
            /\ d[1] = "0" => Len(d) = 1
    [] TypeOf(s) = "hex" ->
         LET d == IF Prefixed(t) THEN SubSeq(t, 3, Len(t)) ELSE t
         IN d # <<>> /\ \A k \in DOMAIN d : d[k] \in DOMAIN XDigit
    [] OTHER -> t # <<>> /\ t[1] \in Consts

Quote == "q"        \* the characters " and \
Backslash == "b"

sym_escape_string_value(t) ==
  <<Quote>> \o FlattenSeq([k \in DOMAIN t |-> IF t[k] \in {Quote, Backslash}
                                              THEN <<Backslash, t[k]>> ELSE <<t[k]>>])
            \o <<Quote>>

(***************************************************************************)
(* Reading a value                                                         *)
(***************************************************************************)
Tri(g, s) == IF s \in All THEN g.tri[s] ELSE TriOf(<<>>, IF s \in Consts THEN s ELSE "n")

ModulesOn(g) == Tri(g, Kconfig.modules) # 0

(* What sym_get_string_value gives once the symbol is calculated.           *)
Str(g, s) ==
  CASE s \in All /\ IsText(s) -> g.text[s]
    [] s \notin All \cup Consts -> Chars[s]
    [] OTHER -> <<CASE Tri(g, s) = 0 -> "n" [] Tri(g, s) = 2 -> "y"
                    [] OTHER -> IF ModulesOn(g) THEN "m" ELSE "n">>

sym_get_type(g, s) ==
  IF TypeOf(s) = "tristate" /\ ((IsValue(s) /\ g.visible[s] = 2) \/ g.modval = 0)
  THEN "boolean" ELSE TypeOf(s)

RECURSIVE Value(_, _), Names(_)

(* expr_calc_value, the symbols in e being calculated.                      *)
Value(g, e) ==
  CASE e.type = "none"    -> 2
    [] e.type = "symbol"  -> Tri(g, e.sym)
    [] e.type = "not"     -> 2 - Value(g, e.left)
    [] e.type \in {"equal", "unequal"} ->
         IF (Str(g, e.sym) = Str(g, e.val)) = (e.type = "equal") THEN 2 ELSE 0
    [] e.type = "and"     -> Smaller(Value(g, e.left), Value(g, e.right))
    [] e.type = "or"      -> Larger(Value(g, e.left), Value(g, e.right))

(* The symbols of e, in the order in which they are met.                    *)
Names(e) ==
  CASE e.type = "none" -> <<>>
    [] e.type = "symbol" -> <<e.sym>>
    [] e.type = "not" -> Names(e.left)
    [] e.type \in {"equal", "unequal"} -> <<e.sym, e.val>>
    [] e.type \in {"and", "or"} -> Names(e.left) \o Names(e.right)

RECURSIVE sym_calc_value(_, _)

CalcAll(g, names) == FoldLeft(sym_calc_value, g, names)
Known(g, e)       == CalcAll(g, Names(e))
KnownAll(g, es)   == FoldLeft(Known, g, es)

Visibles(props) == [k \in DOMAIN props |-> props[k].vis]

(* sym_get_default_prop, sym_get_range_prop: the first that applies. The    *)
(* conditions are calculated up to it.                                      *)
First(g, props) == SelectInSeq(props, LAMBDA p : Value(g, p.vis) # 0)
RECURSIVE KnownUpTo(_, _), StopOrGoOn(_, _)
KnownUpTo(g, props) ==
  IF props = <<>> THEN g
  ELSE StopOrGoOn(Known(g, Head(props).vis), props)
StopOrGoOn(g, props) ==
  IF Value(g, Head(props).vis) # 0 THEN g ELSE KnownUpTo(g, Tail(props))

(***************************************************************************)
(* Visibility and choices                                                  *)
(***************************************************************************)
(* The prompts being calculated, what the user can set s to.                *)
SeeAs(g, s, v) ==
  [g EXCEPT !.visible[s] = IF v = 1 /\ (TypeOf(s) # "tristate" \/ g.modval = 0) THEN 2 ELSE v]
SeenAs(g, s) ==
  SeeAs(g, s, Max({Value(g, Decl(s).prompts[k]) : k \in DOMAIN Decl(s).prompts} \cup {0}))

(* What s depends on directly, and what selects it.                         *)
BoundBy(g, s, dir, rev) ==
  [g EXCEPT !.dir[s] = IF dir = 1 THEN 2 ELSE dir,
            !.rev[s] = IF rev = 1 /\ sym_get_type(g, s) = "boolean" THEN 2 ELSE rev]
Bounded(g, s) ==
  BoundBy(g, s, Value(g, Decl(s).dir), IF Decl(s).rev = Null THEN 0 ELSE Value(g, Decl(s).rev))

BoundedUnlessValue(g, s) ==
  IF IsValue(s) THEN g ELSE Bounded(Known(Known(g, Decl(s).dir), Decl(s).rev), s)

sym_calc_visibility(g, s) ==
  BoundedUnlessValue(SeenAs(KnownAll(g, Decl(s).prompts), s), s)

FirstOf(d, k, n) ==
  CASE k # 0 -> d.defaults[k].val.sym [] k = 0 /\ n # 0 -> d.values[n] [] OTHER -> ""

(* sym_choice_default: a default that can be seen, or the first value that  *)
(* can. "" if there is none.                                                *)
sym_choice_default(g, c) ==
  FirstOf(Decl(c),
          SelectInSeq(Decl(c).defaults,
                      LAMBDA p : Value(g, p.vis) # 0 /\ g.visible[p.val.sym] # 0),
          SelectInSeq(Decl(c).values, LAMBDA s : g.visible[s] # 0))

(* sym_calc_choice: a choice with a value that is new is new itself. The    *)
(* user's value is chosen while it can be seen, and the default otherwise.  *)
NewWithItsValues(g, c) ==
  IF \E s \in ToSet(Decl(c).values) : g.visible[s] # 0 /\ s \notin g.user
  THEN [g EXCEPT !.user = @ \ {c}] ELSE g
PickSeen(g, c) == g.pick[c] # "" /\ g.visible[g.pick[c]] # 0
Choose_(g, c, s) == [g EXCEPT !.chosen[c] = s, !.tri[c] = IF s = "" THEN 0 ELSE @]
ChooseDefault(g, c) == Choose_(g, c, sym_choice_default(g, c))
ChoosePick(g, c) ==
  IF PickSeen(g, c) THEN Choose_(g, c, g.pick[c])
  ELSE ChooseDefault(KnownAll(g, Visibles(Decl(c).defaults)), c)

sym_calc_choice(g, c) ==
  ChoosePick(NewWithItsValues(FoldLeft(sym_calc_visibility, g, Decl(c).values), c), c)

(***************************************************************************)
(* Values                                                                  *)
(***************************************************************************)
sym_get_range_val(g, x, base) ==
  strtoll(Str(g, x), CASE TypeOf(x) = "hex" -> 16 [] TypeOf(x) = "int" -> 10 [] OTHER -> base)

(* sym_validate_range: a number outside the range becomes the bound that    *)
(* it was compared with last.                                               *)
Limited(g, s, n) == [g EXCEPT !.text[s] = Number(n, TypeOf(s))]
BelowHigh(g, s, val, last) == IF val <= last THEN g ELSE Limited(g, s, last)
BelowOf(g, s, val, hi) == BelowHigh(g, s, val, sym_get_range_val(g, hi, Base(TypeOf(s))))
AboveLow(g, s, val, first, hi) ==
  IF val < first THEN Limited(g, s, first) ELSE BelowOf(sym_calc_value(g, hi), s, val, hi)
WithinRange(g, s, r) ==
  AboveLow(g, s, strtoll(g.text[s], Base(TypeOf(s))),
           sym_get_range_val(g, r.lo, Base(TypeOf(s))), r.hi)
WithinNth(g, s, k) ==
  IF k = 0 THEN g
  ELSE WithinRange(sym_calc_value(g, Decl(s).ranges[k].lo), s, Decl(s).ranges[k])
WithinFirst(g, s) == WithinNth(g, s, First(g, Decl(s).ranges))

sym_validate_range(g, s) ==
  IF TypeOf(s) \notin {"int", "hex"} \/ Decl(s).ranges = <<>> THEN g
  ELSE WithinFirst(KnownUpTo(g, Decl(s).ranges), s)

HasOwn(g, s) == g.visible[s] # 0 /\ s \in g.user   \* the user's value counts

(* The value of a boolean or tristate: the choice's, the user's or the      *)
(* default's, but never below what selects the symbol.                      *)
StoreTri(g, s, v, written) ==
  [g EXCEPT !.tri[s] = IF v = 1 /\ sym_get_type(g, s) = "boolean" THEN 2 ELSE v,
            !.write = IF written THEN @ \cup {s} ELSE @]
AtLeastRev(g, s, v, written) ==
  StoreTri(g, s, Larger(v, g.rev[s]), written \/ g.visible[s] # 0 \/ g.rev[s] # 0)
TriFrom(g, s, p) == AtLeastRev(g, s, Smaller(Value(g, p.val), Value(g, p.vis)), TRUE)
TriNth(g, s, k) ==
  IF k = 0 THEN AtLeastRev(g, s, 0, FALSE)
  ELSE TriFrom(Known(g, Decl(s).defaults[k].val), s, Decl(s).defaults[k])
TriDefault(g, s) == TriNth(g, s, First(g, Decl(s).defaults))
CalcTri(g, s) ==
  CASE IsValue(s) /\ g.visible[s] = 2 ->
         StoreTri(g, s, IF g.chosen[Decl(s).choice] = s THEN 2 ELSE 0, FALSE)
    [] HasOwn(g, s) -> AtLeastRev(g, s, Smaller(g.def[s], g.visible[s]), TRUE)
    [] IsChoice(s) -> AtLeastRev(g, s, 0, FALSE)
    [] OTHER -> TriDefault(KnownUpTo(g, Decl(s).defaults), s)

(* The value of a number or a string; without any it is empty.              *)
StoreText(g, s, t, written) ==
  [g EXCEPT !.text[s] = t, !.write = IF written THEN @ \cup {s} ELSE @]
TextFrom(g, s, x) == StoreText(g, s, Str(g, x), TRUE)
TextNth(g, s, k) ==
  IF k = 0 THEN StoreText(g, s, <<>>, g.visible[s] # 0)
  ELSE TextFrom(Known(g, Decl(s).defaults[k].val), s, Decl(s).defaults[k].val.sym)
TextDefault(g, s) == TextNth(g, s, First(g, Decl(s).defaults))
CalcText(g, s) ==
  IF HasOwn(g, s) THEN StoreText(g, s, g.deftext[s], TRUE)
  ELSE TextDefault(KnownUpTo(g, Decl(s).defaults), s)

(* set_all_choice_values                                                    *)
set_all_choice_values(g, c) ==
  [g EXCEPT !.def = [s \in All |-> IF Decl(s).choice = c /\ s \notin g.user THEN 0 ELSE g.def[s]],
            !.user = @ \cup {c}, !.valid = @ \ {c}, !.need = @ \ {c}]

(* sym_calc_value, step by step: the choice of a value that needs it first, *)
(* then visibility, value, what is chosen, what is written.                 *)
ItsChoiceFirst(g, s) ==
  IF IsValue(s) /\ s \in g.need
  THEN sym_calc_value([g EXCEPT !.need = @ \ {s}], Decl(s).choice) ELSE g
Validated(g, s) ==
  [g EXCEPT !.valid = @ \cup {s}, !.write = IF IsValue(s) THEN @ ELSE @ \ {s}]
Emptied(g, s) ==
  IF IsText(s) THEN [g EXCEPT !.text[s] = <<>>] ELSE [g EXCEPT !.tri[s] = 0, !.chosen[s] = ""]
Valued(g, s) == IF IsText(s) THEN sym_validate_range(CalcText(g, s), s) ELSE CalcTri(g, s)
ChoiceMade(g, s) == IF IsChoice(s) /\ g.tri[s] = 2 THEN sym_calc_choice(g, s) ELSE g
ModulesSet(g, s, old) ==
  IF s = Kconfig.modules /\ g.tri[s] # old THEN [g EXCEPT !.modval = g.tri[s]] ELSE g
ValuesWritten(g, s) ==
  IF IsChoice(s) /\ s \in g.write
  THEN [g EXCEPT !.write = @ \cup {v \in ToSet(Decl(s).values) : g.visible[v] # 0}] ELSE g
NeedMet(g, s) == IF s \in g.need THEN set_all_choice_values(g, s) ELSE g

sym_calc_value(g, s) ==
  IF s \notin All \/ s \in g.valid THEN g
  ELSE NeedMet(ValuesWritten(ModulesSet(
         ChoiceMade(Valued(Emptied(sym_calc_visibility(Validated(
           ItsChoiceFirst(g, s), s), s), s), s), s), s, g.tri[s]), s), s)

(* Mutant: only the symbols without a user's value are cleared.             *)
sym_clear_all_valid_KeepsUser(g) ==
  sym_calc_value([g EXCEPT !.valid = @ \cap g.user, !.changed = TRUE, !.stale = FALSE],
                 Kconfig.modules)

sym_clear_all_valid(g) ==
  sym_calc_value([g EXCEPT !.valid = {}, !.changed = TRUE, !.stale = FALSE], Kconfig.modules)

(***************************************************************************)
(* Setting a value                                                         *)
(***************************************************************************)
sym_is_changable(g, s) == g.visible[s] > g.rev[s]

sym_tristate_within_range(g, s, v) ==
  /\ g.visible[s] # 0 /\ ~IsText(s)
  /\ sym_get_type(g, s) = "boolean" => v # 1
  /\ sym_is_changable(g, s)
  /\ IF IsValue(s) /\ g.visible[s] = 2 THEN v = 2 ELSE v >= g.rev[s] /\ v <= g.visible[s]

CanSetTri(g, s, v) == g.tri[s] = v \/ sym_tristate_within_range(g, s, v)

(* Mutant: the value of a choice is set, the choice itself stays as it is.  *)
SetTri_LeavesChoice(g, s, v) ==
  LET g2 == [g EXCEPT !.def[s] = v, !.user = @ \cup {s}]
  IN IF g.tri[s] = v THEN g2 ELSE sym_clear_all_valid(g2)

(* Mutant: a symbol that has the value already stays new.                   *)
SetTri_StaysNew(g, s, v) ==
  LET c  == Decl(s).choice
      g1 == IF IsValue(s) /\ v = 2
            THEN [g EXCEPT !.pick[c] = s,
                           !.user = @ \cup {c} \cup {x \in ToSet(Decl(c).values) : g.visible[x] # 0}]
            ELSE g
  IN IF g.tri[s] = v THEN g1 ELSE sym_clear_all_valid([g1 EXCEPT !.def[s] = v, !.user = @ \cup {s}])

(* sym_set_tristate_value, if it can be set. A value of a choice that is    *)
(* set to y makes it the user's choice and nothing in the choice new.       *)
SetTri(g, s, v) ==
  LET c  == Decl(s).choice
      g1 == IF IsValue(s) /\ v = 2
            THEN [g EXCEPT !.pick[c] = s,
                           !.user = @ \cup {c} \cup {x \in ToSet(Decl(c).values) : g.visible[x] # 0}]
            ELSE g
      g2 == [g1 EXCEPT !.def[s] = v, !.user = @ \cup {s}]
  IN IF g.tri[s] = v THEN g2 ELSE sym_clear_all_valid(g2)

(* The range that applies, and its bounds, calculated.                      *)
InNth(g, s, val, k) ==
  k # 0 => /\ val >= sym_get_range_val(g, Decl(s).ranges[k].lo, Base(TypeOf(s)))
           /\ val <= sym_get_range_val(g, Decl(s).ranges[k].hi, Base(TypeOf(s)))
InRange(g, s, t) ==
  TypeOf(s) = "string" \/ InNth(g, s, strtoll(t, Base(TypeOf(s))), First(g, Decl(s).ranges))
WithBounds(g, s, k) ==
  IF k = 0 THEN g ELSE CalcAll(g, <<Decl(s).ranges[k].lo, Decl(s).ranges[k].hi>>)
WithFirst(g, s)  == WithBounds(g, s, First(g, Decl(s).ranges))
WithRange(g, s)  == WithFirst(KnownUpTo(g, Decl(s).ranges), s)

sym_string_within_range(g, s, t) == sym_string_valid(s, t) /\ InRange(WithRange(g, s), s, t)

(* sym_set_string_value, if t is within range                               *)
StoreOwn(g, s, t, had) ==
  LET full == IF TypeOf(s) = "hex" /\ ~Prefixed(t) THEN <<"0", "x">> \o t ELSE t
      h    == [g EXCEPT !.user = @ \cup {s}, !.deftext[s] = full]
  IN IF full = t /\ had /\ g.deftext[s] = t THEN h
     ELSE sym_clear_all_valid([h EXCEPT !.hastext = @ \cup {s}])
SetText(g, s, t) == StoreOwn(WithRange(g, s), s, t, s \in g.hastext)

(* sym_get_string_default: what the symbol is without the user.             *)
DefaultTri(g, s, base) ==
  LET v == Larger(base, g.rev[s])
  IN IF v = 1 /\ ((~IsValue(s) /\ ~ModulesOn(g)) \/ TypeOf(s) = "boolean") THEN 2 ELSE v
DefaultOf(g, s, text, base) ==
  [g |-> g, str |-> IF IsText(s) THEN text ELSE <<<<"n", "m", "y">>[DefaultTri(g, s, base) + 1]>>]
ByDefault(g, s, p) ==
  DefaultOf(g, s, Str(g, p.val.sym), Smaller(Value(g, p.val), Value(g, p.vis)))
NthDefault(g, s, k) ==
  IF k = 0 THEN DefaultOf(g, s, <<>>, 0)
  ELSE ByDefault(Known(g, Decl(s).defaults[k].val), s, Decl(s).defaults[k])
FirstDefault(g, s) == NthDefault(g, s, First(g, Decl(s).defaults))
sym_get_string_default(g, s) ==
  FirstDefault(KnownUpTo(CalcAll(sym_calc_visibility(g, s), <<Kconfig.modules>>),
                         Decl(s).defaults), s)

(***************************************************************************)
(* Recursive dependencies                                                  *)
(***************************************************************************)
(* k has the symbols flagged SYMBOL_CHECK and SYMBOL_CHECKED and whether a  *)
(* cycle was reported; res is the symbol that is returned, "" for none.     *)
Checked(k, res) == [k |-> k, res |-> res]
RECURSIVE sym_check_deps(_, _)

(* What the checked conditions of s name: those of its prompts, defaults    *)
(* and ranges, the default values, and who selects it.                      *)
Needs(s) ==
  LET d == Decl(s)
  IN Names(d.rev) \o FlattenSeq([k \in DOMAIN d.prompts |-> Names(d.prompts[k])])
     \o FlattenSeq([k \in DOMAIN d.defaults |->
          Names(d.defaults[k].vis) \o (IF IsChoice(s) THEN <<>> ELSE Names(d.defaults[k].val))])
     \o FlattenSeq([k \in DOMAIN d.ranges |-> Names(d.ranges[k].vis)])

(* sym_check_sym_deps: until one is found                                   *)
sym_check_sym_deps(k, s) ==
  FoldLeft(LAMBDA r, t : IF r.res # "" THEN r ELSE sym_check_deps(r.k, t), Checked(k, ""), Needs(s))

Unchecking(r, s) == Checked([r.k EXCEPT !.check = @ \ {s}], r.res)
Unmark(r, done, c) ==
  Checked([r.k EXCEPT !.check = @ \ done], IF r.res \in done THEN c ELSE r.res)
sym_check_choice_deps(k, c) ==
  LET vs == ToSet(Decl(c).values)
      k1 == [k EXCEPT !.check = @ \cup vs \cup {c}, !.checked = @ \cup vs \cup {c}]
  IN Unmark(FoldLeft(LAMBDA r, v : IF r.res # "" THEN r ELSE sym_check_sym_deps(r.k, v),
                     Unchecking(sym_check_sym_deps(k1, c), c), Decl(c).values), vs, c)

Checking(k, s) == [k EXCEPT !.check = @ \cup {s}, !.checked = @ \cup {s}]
Resolve(r, s) == Checked(r.k, IF r.res = s THEN "" ELSE r.res)
DepsOf(k, s) ==
  CASE IsValue(s) -> sym_check_deps(k, Decl(s).choice)
    [] IsChoice(s) -> sym_check_choice_deps(k, s)
    [] OTHER -> Unchecking(sym_check_sym_deps(Checking(k, s), s), s)

(* Mutant: a symbol that is being checked counts as checked.                *)
sym_check_deps_CheckedFirst(k, s) ==
  IF s \notin All \/ s \in k.checked THEN Checked(k, "") ELSE Resolve(DepsOf(k, s), s)

sym_check_deps(k, s) ==
  CASE s \notin All -> Checked(k, "")
    [] s \in All /\ s \in k.check -> Checked([k EXCEPT !.reported = TRUE], s)
    [] s \in All \ k.check /\ s \in k.checked -> Checked(k, "")
    [] OTHER -> Resolve(DepsOf(k, s), s)

(* conf_parse checks every symbol.                                          *)
FirstFound(r, found) == Checked(r.k, IF found # "" THEN found ELSE r.res)
CheckAll ==
  FoldLeft(LAMBDA r, s : FirstFound(sym_check_deps(r.k, s), r.res),
           Checked([check |-> {}, checked |-> {}, reported |-> FALSE], ""), Kconfig.order)
=============================================================================
