------------------------------- MODULE MCKConf -------------------------------
(***************************************************************************)
(* Instances of KConf for TLC: Kconfigs with numbers and ranges, with      *)
(* tristates, modules and select, and with choices.                        *)
(***************************************************************************)
EXTENDS KConf

SomeSymbols == {"A", "B", "C", "X", "Y", "T", "U", "V", "MOD", "N", "L", "S", "H"}
TypesOfSymbols == [s \in SomeSymbols |->
  CASE s \in {"T", "U", "V"} -> "tristate" [] s \in {"N", "L"} -> "int"
    [] s = "H" -> "hex" [] s = "S" -> "string" [] OTHER -> "boolean"]
CharsOfTexts == [s \in {"1", "3", "7", "0xa", "back"} |->
  CASE s = "0xa" -> <<"0", "x", "a">> [] s = "back" -> <<Backslash, Quote>> [] OTHER -> <<s>>]


Plain(prompts) ==
  [prompts |-> prompts, defaults |-> <<>>, ranges |-> <<>>, rev |-> Null, dir |-> Null,
   values |-> <<>>, choice |-> "", optional |-> FALSE]
If(e) == [Plain(<<e>>) EXCEPT !.dir = e]
Default(v) == <<[vis |-> Null, val |-> v]>>
Between(lo, hi) == <<[vis |-> Null, lo |-> lo, hi |-> hi]>>

RootMenu(list) == [sym |-> "", prompt |-> "menu", vis |-> Null, visibility |-> Null, list |-> list, up |-> 0]
Entry(s, e, up, list) == [sym |-> s, prompt |-> "prompt", vis |-> e, visibility |-> Null, list |-> list, up |-> up]
Unseen(s, up) == [Entry(s, Null, up, <<>>) EXCEPT !.prompt = "none"]
SubMenu(e, up, list) == [RootMenu(list) EXCEPT !.vis = e, !.up = up]

(* A number N up to L, of which B depends and from which H and S do not.    *)
Numbers ==
  [order |-> <<"B", "N", "L", "H", "S">>, modules |-> "n",
   decl |-> [s \in {"N", "L", "B", "H", "S"} |->
     CASE s = "N" -> [Plain(<<Null>>) EXCEPT !.defaults = Default(Sym("3")), !.ranges = Between("1", "L")]
       [] s = "L" -> [Plain(<<Null>>) EXCEPT !.defaults = Default(Sym("7"))]
       [] s = "B" -> If(Comp("equal", "N", "3"))
       [] s = "H" -> [If(Sym("B")) EXCEPT !.defaults = Default(Sym("0xa"))]
       [] s = "S" -> [Plain(<<Null>>) EXCEPT !.defaults = Default(Sym("back"))]],
   menus |-> <<RootMenu(<<2, 3, 6>>), Entry("L", Null, 1, <<>>), Entry("N", Null, 1, <<4>>),
               Entry("B", Comp("equal", "N", "3"), 3, <<5>>), Entry("H", Sym("B"), 4, <<>>),
               Entry("S", Null, 1, <<>>)>>]

(* Tristates: U depends on T and selects B, in a menu of their own.         *)
Trees ==
  [order |-> <<"U", "B", "MOD", "T">>, modules |-> "MOD",
   decl |-> [s \in {"MOD", "T", "U", "B"} |->
     CASE s = "MOD" -> Plain(<<Null>>)
       [] s = "T" -> [Plain(<<Null>>) EXCEPT !.defaults = Default(Sym("m"))]
       [] s = "U" -> If(Sym("T"))
       [] s = "B" -> [If(Sym("A")) EXCEPT !.prompts = <<Sym("MOD")>>, !.dir = Sym("MOD"), !.rev = Sym("U")]],
   menus |-> <<RootMenu(<<3, 2>>), Entry("MOD", Null, 1, <<>>), SubMenu(Null, 1, <<4, 6>>),
               Entry("T", Null, 3, <<5>>), Entry("U", Sym("T"), 4, <<>>), Entry("B", Sym("MOD"), 3, <<>>)>>]

(* A choice of X and Y, Y only with A; B depends on X.                      *)
Choosing ==
  [order |-> <<"B", "Y", "C", "A", "X">>, modules |-> "n",
   decl |-> [s \in {"A", "B", "C", "X", "Y"} |->
     CASE s = "A" -> Plain(<<Null>>)
       [] s = "C" -> [Plain(<<Null>>) EXCEPT !.rev = Sym("m"), !.values = <<"X", "Y">>,
                                             !.defaults = Default(Sym("Y"))]
       [] s = "X" -> [Plain(<<Sym("C")>>) EXCEPT !.choice = "C"]
       [] s = "Y" -> [Plain(<<Two("and", Sym("C"), Sym("A"))>>) EXCEPT !.choice = "C"]
       [] s = "B" -> [If(Sym("X")) EXCEPT !.defaults = Default(Sym("y"))]],
   menus |-> <<RootMenu(<<2, 3>>), Entry("A", Null, 1, <<>>), Entry("C", Null, 1, <<4, 6>>),
               Entry("X", Sym("C"), 3, <<5>>), Entry("B", Sym("X"), 4, <<>>),
               Entry("Y", Two("and", Sym("C"), Sym("A")), 3, <<>>)>>]

Lines(s) ==
  CASE s = "MOD" -> {<<>>, <<SetLine(s, <<"y">>)>>}
    [] s \in {"Y", "B"} -> {<<>>, <<UnsetLine(s)>>}
    [] s \in {"A", "X"} -> {<<>>, <<SetLine(s, <<"y">>)>>, <<UnsetLine(s)>>}
    [] TypeOf(s) = "tristate" -> {<<>>, <<SetLine(s, <<"y">>)>>, <<SetLine(s, <<"m">>)>>}
    [] s = "N" -> {<<SetLine(s, <<"3">>)>>, <<SetLine(s, <<"9">>)>>}
    [] s = "L" -> {<<>>, <<SetLine(s, <<"2">>)>>}
    [] s = "S" -> {<<>>, <<SetLine(s, <<Quote, Backslash, Backslash, Quote>>)>>}

Pick_(ss) == {f \in [ToSet(ss) -> UNION {Lines(s) : s \in ToSet(ss)}] : \A s \in ToSet(ss) : f[s] \in Lines(s)}
Written_(ss) == {File(FlattenSeq([k \in DOMAIN ss |-> f[ss[k]]])) : f \in Pick_(ss)}

(* A tristate choice of T and U, of which X depends.                        *)
Modular ==
  [order |-> <<"T", "X", "MOD", "V", "U">>, modules |-> "MOD",
   decl |-> [s \in {"MOD", "V", "T", "U", "X"} |->
     CASE s = "MOD" -> Plain(<<Null>>)
       [] s = "V" -> [Plain(<<Null>>) EXCEPT !.rev = Sym("m"), !.values = <<"T", "U">>]
       [] s = "X" -> If(Sym("T"))
       [] OTHER -> [Plain(<<Sym("V")>>) EXCEPT !.choice = "V"]],
   menus |-> <<RootMenu(<<2, 3>>), Entry("MOD", Null, 1, <<>>), Entry("V", Null, 1, <<4, 6>>),
               Entry("T", Sym("V"), 3, <<5>>), Entry("X", Sym("T"), 4, <<>>), Entry("U", Sym("V"), 3, <<>>)>>]

(* Symbols that depend on each other in every way, one in the prompt, one   *)
(* in the default and one by select; without and with a choice.             *)
All3 == {"A", "B", "X"}
On(S) == FoldSet(LAMBDA s, e : expr_alloc_or(e, Sym(s)), Null, S)
Loop(f, v) ==
  [order |-> <<"C", "X", "A", "B", "Y">>, modules |-> "n",
   decl |-> [s \in All3 \cup {"C", "Y"} |->
     CASE s = "A" -> Plain(<<On(f["A"])>>)
       [] s = "B" -> [Plain(<<>>) EXCEPT !.defaults = Default(On(f["B"] \cup {"y"}))]
       [] s = "X" -> [Plain(<<Sym("C")>>) EXCEPT !.choice = "C", !.prompts = <<expr_alloc_and(Sym("C"), On(f["X"]))>>]
       [] s = "Y" -> [Plain(<<Sym("C")>>) EXCEPT !.choice = "C"]
       [] s = "C" -> [Plain(<<On(v)>>) EXCEPT !.rev = Two("and", Two("or", On(v \cup {"n"}), Sym("y")), Sym("m")),
                                             !.values = <<"X", "Y">>]],
   menus |-> <<RootMenu(<<>>)>>]
Bit(n, k, set) == IF (n \div 2^k) % 2 = 1 THEN set ELSE {}

(* The last one but the loops is called twice, after an earlier build.     *)
SomeKconfigs ==
  <<Numbers, Trees, Choosing, Modular, Choosing>> \o
  [n \in 1..64 |->
     Loop([s \in All3 |-> CASE s = "A" -> Bit(n - 1, 0, {"B"}) \cup Bit(n - 1, 1, {"X"})
                            [] s = "B" -> Bit(n - 1, 2, {"A"}) \cup Bit(n - 1, 3, {"X"})
                            [] s = "X" -> Bit(n - 1, 4, {"A"})], Bit(n - 1, 5, {"B"}))]
Everything == {"oldaskconfig", "silentoldconfig", "oldconfig", "allnoconfig", "allyesconfig",
               "allmodconfig", "alldefconfig", "randconfig", "defconfig", "savedefconfig",
               "listnewconfig", "olddefconfig"}
SomeConfigs == [w \in DOMAIN SomeKconfigs |->
  CASE w = 1 -> {NoFile} \cup Written_(<<"L", "N", "S">>)
    [] w = 2 -> {NoFile} \cup Written_(<<"MOD", "T", "U", "B">>)
    [] w = 3 -> {NoFile} \cup Written_(<<"A", "X", "Y", "B">>)
    [] w = 4 -> {NoFile} \cup Written_(<<"MOD", "T", "U">>)
    [] w = 5 -> Written_(<<"A", "X">>)
    [] OTHER -> {NoFile}]
SomeSeeds == [w \in DOMAIN SomeKconfigs |->
  {NoFile} \cup (IF w = 3 THEN {File(<<SetLine("A", <<"y">>), SetLine("X", <<"y">>)>>)} ELSE {})]
SomeAutos == [w \in DOMAIN SomeKconfigs |->
  IF w = 5 THEN {File(<<SetLine("A", <<"y">>), SetLine("Y", <<"y">>)>>)} ELSE {NoFile}]
ModesOfRuns == [w \in DOMAIN SomeKconfigs |->
  CASE w < 5 -> <<Everything>>
    [] w = 5 -> <<{"silentoldconfig"}, {"silentoldconfig"}>>
    [] OTHER -> <<{"listnewconfig"}>>]
MCAnswers == {<<"1">>, <<"x", Quote>>}

(* The values of the constants. TLC evaluates what a constant stands for at *)
(* every use, but a definition of its own, as above, only once.             *)
MCSymbols == LET table == SomeSymbols IN table
MCSymType == LET table == TypesOfSymbols IN table
MCChars == LET table == CharsOfTexts IN table
MCKconfigs == LET table == SomeKconfigs IN table
MCConfigs == LET table == SomeConfigs IN table
MCSeeds == LET table == SomeSeeds IN table
MCAutos == LET table == SomeAutos IN table
MCModes == LET table == ModesOfRuns IN table
=============================================================================
