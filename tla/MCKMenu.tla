------------------------------- MODULE MCKMenu -------------------------------
(***************************************************************************)
(* Instances of KMenu for TLC: conditions over booleans A, B and           *)
(* tristates T, C, in files of several shapes.                             *)
(***************************************************************************)
EXTENDS KMenu

SomeSymbols == {"A", "B", "T", "C"}
TypesOfSymbols == [s \in SomeSymbols |-> IF s \in {"T", "C"} THEN "tristate" ELSE "boolean"]

Atoms == {Sym("A"), Not(Sym("A")), Sym("T"), Not(Sym("T")),
          Comp("equal", "T", "y"), Comp("unequal", "T", "n"), Comp("unequal", "T", "m")}
Pairs == {Two(t, a, b) : t \in {"and", "or"}, a \in Atoms,
                         b \in {Sym("A"), Sym("T"), Comp("equal", "T", "m")}}
Negated == {Not(Two(t, a, Sym("T"))) : t \in {"and", "or"},
                         a \in {Sym("A"), Not(Sym("A")), Comp("equal", "T", "m")}}
Conditions == {Null} \cup Atoms \cup Pairs \cup Negated
Some == {Null, Sym("T"), Comp("equal", "T", "y"), Two("or", Sym("T"), Sym("B"))}

Statement(st, sym, d, v, ps) ==
  [st |-> st, sym |-> sym, dep |-> d, visible |-> v, props |-> ps, file |-> "main"]
Prompt(e) == [kind |-> "prompt", to |-> "", vis |-> e]
MenuPrompt == [kind |-> "menu", to |-> "", vis |-> Null]
Select(s, e) == [kind |-> "select", to |-> s, vis |-> e]

Config(sym, d, ps) == Statement("config", sym, d, Null, ps)
Menu(d, v) == Statement("menu", "", d, v, <<MenuPrompt>>)
If(d) == Statement("if", "", d, Null, <<>>)
End_(kind) == Statement("end", kind, Null, Null, <<>>)
Include(f) == Statement("source", f, Null, Null, <<>>)
Comment == Statement("comment", "", Null, Null, <<MenuPrompt>>)

OneFile(t) == [f \in {"main"} |-> t]
In(f, t) == [k \in DOMAIN t |-> [t[k] EXCEPT !.file = f]]

(* A menu with one entry: every pair of conditions meets.                   *)
MenuOfOne ==
  {OneFile(<<Menu(d, v), Config("B", e, <<Prompt(Null)>>), End_("menu")>>) :
     d \in Conditions, e \in Conditions, v \in {Null}}
  \cup {OneFile(<<Menu(d, v), Config("B", e, <<Prompt(Null)>>), End_("menu")>>) :
     d \in Some, e \in Some, v \in Atoms}

(* Entries that depend on the one before them, or only name it, one of      *)
(* them selecting another.                                                  *)
Flat ==
  {OneFile(<<Config("T", d, <<Prompt(Null)>>), Config("B", e, <<Prompt(v), Select("A", w)>>),
             Config("A", f, p)>>) :
     d \in {Null, Sym("B")}, e \in Conditions, v \in {Null, Sym("T")},
     w \in {Null, Not(Sym("T"))}, f \in Some, p \in {<<>>, <<Prompt(Null)>>}}

(* An `if' block behind an entry it depends on.                             *)
Block ==
  {OneFile(<<Config("T", Null, <<Prompt(Null)>>), If(d), Config("B", e, <<Prompt(Null)>>),
             Config("A", f, <<Prompt(Null)>>), End_("if"), Comment>>) :
     d \in Conditions \ {Null}, e \in {Null, Sym("T")}, f \in Some}

(* A tristate choice with a boolean and a tristate value, one of them in an *)
(* `if' block.                                                              *)
Choice ==
  {OneFile(<<Statement("choice", "C", d, Null, <<Prompt(v)>>), Config("A", e, <<Prompt(Null)>>),
             If(f), Config("T", Null, <<Prompt(Null)>>), End_("if"), End_("choice")>>) :
     d \in {Null, Sym("B")}, v \in {Null, Sym("B")}, e \in {Null, Sym("T")},
     f \in {Sym("B"), Sym("A")}}

(* Blocks that open and close in every order, in one file or in an included *)
(* one.                                                                     *)
Lines == {Menu(Null, Null), If(Sym("A")), End_("menu"), End_("if"),
          Config("B", Null, <<Prompt(Null)>>), Include("sub")}
Nested ==
  {[f \in {"main", "sub"} |-> IF f = "main" THEN t ELSE In("sub", u)] :
     t \in [1..4 -> Lines], u \in {<<End_("if")>>, <<If(Sym("T")), End_("if")>>}}

(* Three files that include each other in every way.                        *)
Graph ==
  {[f \in {"main", "x", "y"} |->
      In(f, SetToSeq({Include(g) : g \in inc[f]}))] :
     inc \in [{"main", "x", "y"} -> SUBSET {"x", "y", "main", "none"}]}

Files == MenuOfOne \cup Flat \cup Block \cup Choice \cup Nested \cup Graph

(* The values of the constants. TLC evaluates what a constant stands for at *)
(* every use, but a definition of its own, as above, only once.             *)
MCSymbols == LET table == SomeSymbols IN table
MCSymType == LET table == TypesOfSymbols IN table
MCWorlds  == LET table == Files IN table
=============================================================================
