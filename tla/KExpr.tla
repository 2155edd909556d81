-------------------------------- MODULE KExpr --------------------------------
(***************************************************************************)
(* Dependency expressions of kconfig (expr.c): how they are built,         *)
(* simplified, compared, tested and printed. Everything here is an         *)
(* operator on trees; KMenu calls them in the order of menu_finalize.      *)
(***************************************************************************)
EXTENDS Integers, Sequences, FiniteSetsExt, SequencesExt

CONSTANTS
  Symbols,   \* the configuration symbols an expression may name
  SymType    \* symbol -> "boolean", "tristate", "int", "hex" or "string"

(* symbol_no, symbol_mod and symbol_yes                                     *)
Consts == {"n", "m", "y"}

ASSUME SymbolsAssumption ==
  /\ Symbols \cap Consts = {}
  /\ SymType \in [Symbols -> {"boolean", "tristate", "int", "hex", "string"}]

TypeOf(s) == IF s \in Symbols THEN SymType[s] ELSE "unknown"

(***************************************************************************)
(* Trees. A comparison is always with a constant or another symbol.        *)
(***************************************************************************)
Null            == [type |-> "none"]
Sym(s)          == [type |-> "symbol", sym |-> s]
Not(e)          == [type |-> "not", left |-> e]
Comp(t, s, v)   == [type |-> t, sym |-> s, val |-> v]     \* "equal", "unequal"
Two(t, e1, e2)  == [type |-> t, left |-> e1, right |-> e2] \* "and", "or"

expr_alloc_and(e1, e2) ==
  IF e1 = Null THEN e2 ELSE IF e2 = Null THEN e1 ELSE Two("and", e1, e2)
expr_alloc_or(e1, e2) ==
  IF e1 = Null THEN e2 ELSE IF e2 = Null THEN e1 ELSE Two("or", e1, e2)

expr_is_yes(e) == e = Null \/ e = Sym("y")
expr_is_no(e)  == e = Sym("n")

(* The operand that does not count in a conjunction, in a disjunction.      *)
Unit(type) == IF type = "and" THEN Sym("y") ELSE Sym("n")

RECURSIVE At(_, _), Put(_, _, _), Operands(_, _, _)

(* The subtree of t at path p, and t with x there.                          *)
At(t, p) == IF p = <<>> THEN t ELSE At(t[Head(p)], Tail(p))
Put(t, p, x) ==
  IF p = <<>> THEN x ELSE [t EXCEPT ![Head(p)] = Put(@, Tail(p), x)]

(* The paths of the operands of the chain of type at p, from left to right. *)
Operands(type, t, p) ==
  IF At(t, p).type # type THEN <<p>>
  ELSE Operands(type, t, Append(p, "left")) \o Operands(type, t, Append(p, "right"))

(* An operand at p1 with every operand at p2, operand by operand: the order *)
(* in which the functions on two chains descend into them.                  *)
PairsOf(s1, s2) ==
  [k \in 1..(Len(s1) * Len(s2)) |->
     <<s1[((k - 1) \div Len(s2)) + 1], s2[((k - 1) % Len(s2)) + 1]>>]
OperandPairs(type, t, p1, p2) == PairsOf(Operands(type, t, p1), Operands(type, t, p2))

(* Two trees that are edited together.                                      *)
Both(e1, e2) == Two("pair", e1, e2)

(* A tree and trans_count, which matters only as zero or not.               *)
Edit(tree, hit) == [tree |-> tree, hit |-> hit]

(***************************************************************************)
(* Constants are removed                                                   *)
(***************************************************************************)
RECURSIVE expr_eliminate_yn(_)

(* Mutant: the operands of a chain are not visited.                         *)
expr_eliminate_yn_Shallow(e) ==
  IF e.type \notin {"and", "or"} THEN e
  ELSE LET zero == IF e.type = "and" THEN Sym("n") ELSE Sym("y")
       IN CASE e.left = zero -> zero
            [] e.left # zero /\ e.left = Unit(e.type) -> e.right
            [] OTHER -> e

(* The chain of l and r, whose own constants are gone.                      *)
WithoutConstants(type, l, r) ==
  LET zero == IF type = "and" THEN Sym("n") ELSE Sym("y")
  IN CASE l = zero \/ (l # Unit(type) /\ r = zero) -> zero
       [] l = Unit(type)                           -> r
       [] OTHER -> IF r = Unit(type) THEN l ELSE Two(type, l, r)

expr_eliminate_yn(e) ==
  IF e.type \notin {"and", "or"} THEN e
  ELSE WithoutConstants(e.type, expr_eliminate_yn(e.left), expr_eliminate_yn(e.right))

(***************************************************************************)
(* Equality of expressions, up to order and repetition                     *)
(***************************************************************************)
RECURSIVE expr_eq(_, _)

Cancelled(type) == Unit(type)

(* __expr_eliminate_eq: operands that are in both chains are taken out.     *)
Cancel(type, t, pp) ==
  LET e1 == At(t, pp[1])
      e2 == At(t, pp[2])
  IN IF (e1 = e2 /\ e1 \in {Sym("y"), Sym("n")}) \/ ~expr_eq(e1, e2) THEN t
     ELSE Put(Put(t, pp[1], Cancelled(type)), pp[2], Cancelled(type))
CancelOperands(type, pair) ==
  FoldLeft(LAMBDA t, pp : Cancel(type, t, pp), pair,
           OperandPairs(type, pair, <<"left">>, <<"right">>))

(* Once as chains of the type of the first, once of that of the second.     *)
CancelAs(type, pair) ==
  IF type \in {"and", "or"} THEN CancelOperands(type, pair) ELSE pair
CancelAsSecond(pair) ==
  IF pair.left.type # pair.right.type THEN CancelAs(pair.right.type, pair) ELSE pair

expr_eliminate_eq(e1, e2) ==
  LET Simplified(pair) == Both(expr_eliminate_yn(pair.left), expr_eliminate_yn(pair.right))
  IN IF Null \in {e1, e2} THEN Both(e1, e2)
     ELSE Simplified(CancelAsSecond(CancelAs(e1.type, Both(e1, e2))))

expr_eq(e1, e2) ==
  LET SameSymbol(pair) == pair.left.type = "symbol" /\ pair.left = pair.right
  IN /\ e1.type = e2.type
     /\ CASE e1.type = "not" -> expr_eq(e1.left, e2.left)
          [] e1.type \in {"and", "or"} -> SameSymbol(expr_eliminate_eq(e1, e2))
          [] OTHER -> e1 = e2

(***************************************************************************)
(* Normal form: negations moved to the symbols, comparisons of booleans    *)
(* replaced by the symbol or its negation                                  *)
(***************************************************************************)
RECURSIVE expr_transform(_)

TransformComp(e) ==
  IF TypeOf(e.sym) # "boolean" THEN e
  ELSE CASE e.val = "m" -> Sym(IF e.type = "equal" THEN "n" ELSE "y")
         [] e.val = "n" -> IF e.type = "equal" THEN Not(Sym(e.sym)) ELSE Sym(e.sym)
         [] e.val = "y" -> IF e.type = "equal" THEN Sym(e.sym) ELSE Not(Sym(e.sym))
         [] OTHER -> e

Opposite(type) ==
  CASE type = "and" -> "or" [] type = "or" -> "and"
    [] type = "equal" -> "unequal" [] type = "unequal" -> "equal"

(* Mutant: a negated chain keeps its operator.                              *)
TransformNot_KeepsOperator(e) ==
  IF e.type \in {"and", "or"}
  THEN expr_transform(Two(e.type, Not(e.left), Not(e.right)))
  ELSE Not(e)

(* e is the operand of the negation, already transformed.                   *)
TransformNot(e) ==
  CASE e.type = "not" -> expr_transform(e.left)
    [] e.type \in {"equal", "unequal"} -> Comp(Opposite(e.type), e.sym, e.val)
    [] e.type \in {"and", "or"} ->
         expr_transform(Two(Opposite(e.type), Not(e.left), Not(e.right)))
    [] e.type = "symbol" ->
         CASE e.sym = "y" -> Sym("n") [] e.sym = "n" -> Sym("y")
           [] e.sym = "m" -> Sym("m") [] OTHER -> Not(e)

expr_transform(e) ==
  CASE e.type \in {"none", "symbol"}      -> e
    [] e.type \in {"equal", "unequal"}    -> TransformComp(e)
    [] e.type = "not"                     -> TransformNot(expr_transform(e.left))
    [] e.type \in {"and", "or"}           ->
         Two(e.type, expr_transform(e.left), expr_transform(e.right))

(* For a symbol that is not tristate: FOO!=n becomes FOO.                   *)
RECURSIVE expr_trans_bool(_)
expr_trans_bool(e) ==
  CASE e.type \in {"and", "or"} ->
         Two(e.type, expr_trans_bool(e.left), expr_trans_bool(e.right))
    [] e.type = "not" -> Not(expr_trans_bool(e.left))
    [] e.type = "unequal" ->
         IF TypeOf(e.sym) = "tristate" /\ e.val = "n" THEN Sym(e.sym) ELSE e
    [] OTHER -> e

(***************************************************************************)
(* Two operands become one                                                 *)
(***************************************************************************)
(* The symbol a joinable operand is about, or "".                           *)
AboutFirst(e) ==
  CASE e.type \in {"equal", "unequal", "symbol"} -> e.sym
    [] e.type = "not" /\ e.left.type \in {"equal", "unequal", "symbol"} -> e.left.sym
    [] OTHER -> ""
AboutSecond(e) ==
  CASE e.type \in {"equal", "unequal", "symbol"} -> e.sym
    [] e.type = "not" /\ e.left.type = "symbol" -> e.left.sym
    [] OTHER -> ""

Joinable(e1, e2) ==
  /\ AboutFirst(e1) = AboutSecond(e2)
  /\ TypeOf(AboutFirst(e1)) \in {"boolean", "tristate"}

(* Both compare with these two constants; one is the symbol itself and the  *)
(* other a comparison.                                                      *)
Comps(e1, e2, type, v1, v2) ==
  e1.type = type /\ e2.type = type /\ {e1.val, e2.val} = {v1, v2}
SymbolAnd(e1, e2, type, v) ==
  \/ e1.type = "symbol" /\ e2.type = type /\ e2.val = v
  \/ e2.type = "symbol" /\ e1.type = type /\ e1.val = v

(* e1 || e2, or Null if it stays as it is                                   *)
expr_join_or(e1, e2) ==
  LET s == AboutFirst(e1)
  IN IF expr_eq(e1, e2) THEN e1
     ELSE IF ~Joinable(e1, e2) THEN Null
     ELSE IF TypeOf(s) = "tristate"
          THEN CASE Comps(e1, e2, "equal", "y", "m") -> Comp("unequal", s, "n")
                 [] Comps(e1, e2, "equal", "y", "n") -> Comp("unequal", s, "m")
                 [] Comps(e1, e2, "equal", "m", "n") -> Comp("unequal", s, "y")
                 [] OTHER -> Null
          ELSE IF {e1, e2} = {Sym(s), Not(Sym(s))} THEN Sym("y") ELSE Null

(* (a='b') && (a!='c'), for constants b and c                               *)
EqualAndUnequal(eq, ne) ==
  CASE ~{eq.val, ne.val} \subseteq Consts -> Null
    [] eq.val = ne.val                    -> Sym("n")
    [] OTHER                              -> Comp("equal", eq.sym, eq.val)

(* e1 && e2, or Null                                                        *)
expr_join_and(e1, e2) ==
  LET s == AboutFirst(e1)
  IN IF expr_eq(e1, e2) THEN e1
     ELSE IF ~Joinable(e1, e2) THEN Null
     ELSE CASE SymbolAnd(e1, e2, "equal", "y")   -> Comp("equal", s, "y")
            [] SymbolAnd(e1, e2, "unequal", "n") -> Sym(s)
            [] SymbolAnd(e1, e2, "unequal", "m") -> Comp("equal", s, "y")
            [] OTHER ->
               IF TypeOf(s) # "tristate" THEN Null
               ELSE CASE e1.type = "equal" /\ e2.type = "unequal" -> EqualAndUnequal(e1, e2)
                      [] e1.type = "unequal" /\ e2.type = "equal" -> EqualAndUnequal(e2, e1)
                      [] Comps(e1, e2, "unequal", "y", "n") -> Comp("equal", s, "m")
                      [] Comps(e1, e2, "unequal", "y", "m") -> Comp("equal", s, "n")
                      [] Comps(e1, e2, "unequal", "m", "n") -> Comp("equal", s, "y")
                      [] OTHER -> Null

(***************************************************************************)
(* Duplicates are removed                                                  *)
(***************************************************************************)
RECURSIVE expr_eliminate_dups1(_, _, _, _), expr_eliminate_dups2(_, _, _, _)

(* The operands at pp, as j if they can be joined: the first becomes the    *)
(* neutral constant, the second the joined operand.                         *)
PutJoined(type, t, pp, j) ==
  IF j = Null THEN t ELSE Edit(Put(Put(t.tree, pp[1], Unit(type)), pp[2], j), TRUE)

JoinPair(type, t, pp) ==
  LET e1 == At(t.tree, pp[1])
      e2 == At(t.tree, pp[2])
  IN PutJoined(type, t, pp, IF type = "and" THEN expr_join_and(e1, e2) ELSE expr_join_or(e1, e2))

(* The first operand is a chain of its own: its duplicates go before.       *)
WithinOperand(t, p) ==
  LET c == At(t.tree, p).type
  IN IF c \in {"and", "or"} THEN expr_eliminate_dups1(c, t, p, p) ELSE t

(* Every pair of operands of the chains of type at p1 and p2, both in       *)
(* s.tree.                                                                  *)
expr_eliminate_dups1(type, s, p1, p2) ==
  FoldLeft(LAMBDA t, pp : IF pp[1] = pp[2] THEN t
                          ELSE JoinPair(type, WithinOperand(t, pp[1]), pp),
           s, OperandPairs(type, s.tree, p1, p2))

(* expr_extract_eq: what is left of the first chain without the operands    *)
(* that are in the second one too.                                          *)
Extract(type, x, pp) ==
  LET a == At(x.pair, pp[1])
  IN IF ~expr_eq(a, At(x.pair, pp[2])) THEN x
     ELSE [pair |-> Put(Put(x.pair, pp[1], Unit(type)), pp[2], Unit(type)),
           common |-> IF x.common = Null THEN a ELSE Two(type, x.common, a)]
Extracted(type, e1, e2) ==
  LET Rest(x) == IF x.common = Null THEN e1 ELSE expr_eliminate_yn(x.pair.left)
  IN Rest(FoldLeft(LAMBDA x, pp : Extract(type, x, pp), [pair |-> Both(e1, e2), common |-> Null],
                   OperandPairs(type, Both(e1, e2), <<"left">>, <<"right">>)))

(* (FOO || BAR) && (!FOO && !BAR) -> n, (FOO && BAR) || (!FOO || !BAR) -> y:*)
(* the operand at p1, a chain of the other type, against the tree at p2.    *)
GoneIf(c, s, p1, left) ==
  IF (IF c = "or" THEN expr_is_yes(left) ELSE expr_is_no(left))
  THEN Edit(Put(s.tree, p1, Unit(c)), TRUE) ELSE s
Against(c, s, p1, p2) ==
  GoneIf(c, s, p1, Extracted(Opposite(c), expr_transform(Not(At(s.tree, p1))), At(s.tree, p2)))
Contradict(s, p1, p2) ==
  LET c == At(s.tree, p1).type
  IN Against(c, expr_eliminate_dups2(c, s, p1, p1), p1, p2)

(* There is no return behind the operands of p2, so the operand at p1 is    *)
(* set against every chain on the way as well, once its operands are done.  *)
RECURSIVE Chains(_, _, _)
Chains(type, t, p) ==
  IF At(t, p).type # type THEN <<p>>
  ELSE Chains(type, t, Append(p, "left")) \o Chains(type, t, Append(p, "right")) \o <<p>>

TryContradict(type, t, q1, q2) ==
  IF q1 # q2 /\ At(t.tree, q1).type \in {"and", "or"} /\ At(t.tree, q1).type # type
  THEN Contradict(t, q1, q2) ELSE t
AgainstAll(type, t, q1, p2) ==
  FoldLeft(LAMBDA x, q2 : TryContradict(type, x, q1, q2), t, Chains(type, t.tree, p2))

expr_eliminate_dups2(type, s, p1, p2) ==
  FoldLeft(LAMBDA t, q1 : AgainstAll(type, t, q1, p2), s, Operands(type, s.tree, p1))

(* One round of expr_eliminate_dups' loop; it ends with a round that        *)
(* changes nothing.                                                         *)
DupsRound1(e) ==
  IF e.type \in {"and", "or"} THEN expr_eliminate_dups1(e.type, Edit(e, FALSE), <<>>, <<>>)
  ELSE Edit(e, FALSE)
DupsRound2(s) ==
  IF s.tree.type \in {"and", "or"} THEN expr_eliminate_dups2(s.tree.type, s, <<>>, <<>>) ELSE s

RECURSIVE expr_eliminate_dups(_)
expr_eliminate_dups(e) ==
  LET UntilUnchanged(r) ==
        IF r.hit THEN expr_eliminate_dups(expr_eliminate_yn(r.tree)) ELSE r.tree
  IN UntilUnchanged(DupsRound2(DupsRound1(e)))

(***************************************************************************)
(* Questions about expressions                                             *)
(***************************************************************************)
RECURSIVE expr_contains_symbol(_, _), expr_depends_symbol(_, _)

expr_contains_symbol(e, s) ==
  CASE e.type \in {"and", "or"} ->
         expr_contains_symbol(e.left, s) \/ expr_contains_symbol(e.right, s)
    [] e.type = "symbol" -> e.sym = s
    [] e.type \in {"equal", "unequal"} -> s \in {e.sym, e.val}
    [] e.type = "not" -> expr_contains_symbol(e.left, s)
    [] OTHER -> FALSE

expr_depends_symbol(e, s) ==
  CASE e.type = "and" -> expr_depends_symbol(e.left, s) \/ expr_depends_symbol(e.right, s)
    [] e.type = "symbol" -> e.sym = s
    [] e.type = "equal" -> e.sym = s /\ e.val \in {"y", "m"}
    [] e.type = "unequal" -> e.sym = s /\ e.val = "n"
    [] OTHER -> FALSE

(* The expression "e type v", v a constant.                                 *)
RECURSIVE expr_trans_compare(_, _, _)
expr_trans_compare(e, type, v) ==
  LET Signed(x) == IF type = "unequal" THEN Not(x) ELSE x
  IN CASE e.type = "none" -> Signed(Sym(v))
       [] e.type \in {"and", "or"} ->
            LET e1 == expr_trans_compare(e.left, "equal", v)
                e2 == expr_trans_compare(e.right, "equal", v)
            IN Signed(CASE v = "y" -> Two(e.type, e1, e2)
                        [] v = "n" -> Two(Opposite(e.type), e1, e2)
                        [] OTHER   -> e)
       [] e.type = "not" -> expr_trans_compare(e.left, Opposite(type), v)
       [] e.type \in {"equal", "unequal"} ->
            CASE v = "m" -> Sym(IF type = "equal" THEN "n" ELSE "y")
              [] (v = "y") = (type = "equal") /\ v # "m" -> e
              [] OTHER -> Not(e)
       [] e.type = "symbol" -> Comp(type, e.sym, v)

(* The value under an assignment of 0 (n), 1 (m) and 2 (y) to the symbols.  *)
TriOf(a, s) ==
  CASE s = "n" -> 0 [] s = "m" -> 1 [] s = "y" -> 2 [] OTHER -> a[s]

RECURSIVE expr_calc_value(_, _)
expr_calc_value(e, a) ==
  CASE e.type = "none"    -> 2
    [] e.type = "symbol"  -> TriOf(a, e.sym)
    [] e.type = "not"     -> 2 - expr_calc_value(e.left, a)
    [] e.type = "equal"   -> IF TriOf(a, e.sym) = TriOf(a, e.val) THEN 2 ELSE 0
    [] e.type = "unequal" -> IF TriOf(a, e.sym) = TriOf(a, e.val) THEN 0 ELSE 2
    [] OTHER -> LET v1 == expr_calc_value(e.left, a)
                    v2 == expr_calc_value(e.right, a)
                IN IF (e.type = "and") = (v1 < v2) THEN v1 ELSE v2

(***************************************************************************)
(* Printing and reading                                                    *)
(***************************************************************************)
(* expr_compare_type(prev, type) > 0                                        *)
Parenthesised(prev, type) ==
  CASE prev \in {"equal", "unequal"} -> type \in {"not", "and", "or", "list"}
    [] prev = "not" -> type \in {"and", "or", "list"}
    [] prev = "and" -> type \in {"or", "list"}
    [] prev = "or"  -> type = "list"
    [] OTHER -> FALSE

RECURSIVE expr_print(_, _)
expr_print(e, prev) ==
  LET text ==
        CASE e.type = "none" -> <<"y">>
          [] e.type = "symbol" -> <<e.sym>>
          [] e.type = "not" -> <<"!">> \o expr_print(e.left, "not")
          [] e.type = "equal" -> <<e.sym, "=", e.val>>
          [] e.type = "unequal" -> <<e.sym, "!=", e.val>>
          [] e.type = "and" -> expr_print(e.left, "and") \o <<"&&">> \o expr_print(e.right, "and")
          [] e.type = "or" -> expr_print(e.left, "or") \o <<"||">> \o expr_print(e.right, "or")
  IN IF Parenthesised(prev, e.type) THEN <<"(">> \o text \o <<")">> ELSE text

(* The grammar of zconf.y: || binds weaker than &&, both to the left, and   *)
(* ! and comparisons bind strongest.                                        *)
RECURSIVE expr_read(_)
expr_read(text) ==
  LET Depth(i) == Len(SelectSeq(SubSeq(text, 1, i), LAMBDA x : x = "("))
                  - Len(SelectSeq(SubSeq(text, 1, i), LAMBDA x : x = ")"))
      Tops(op) == {i \in DOMAIN text : text[i] = op /\ Depth(i) = 0}
      Split(type, i) == Two(type, expr_read(SubSeq(text, 1, i - 1)),
                                  expr_read(SubSeq(text, i + 1, Len(text))))
  IN CASE Tops("||") # {} -> Split("or", Max(Tops("||")))
       [] Tops("||") = {} /\ Tops("&&") # {} -> Split("and", Max(Tops("&&")))
       [] OTHER -> CASE text[1] = "!" -> Not(expr_read(Tail(text)))
                     [] text[1] = "(" -> expr_read(SubSeq(text, 2, Len(text) - 1))
                     [] Len(text) = 3 -> Comp(IF text[2] = "=" THEN "equal" ELSE "unequal",
                                              text[1], text[3])
                     [] Len(text) = 1 -> Sym(text[1])
=============================================================================
