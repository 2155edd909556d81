------------------------------- MODULE MCMConf -------------------------------
(***************************************************************************)
(* Instances of MConf for TLC. In each world a few keys are pressed that   *)
(* matter for its menus.                                                   *)
(***************************************************************************)
EXTENDS MConf

SomeSymbols == {"A", "B", "C", "X", "Y", "Z", "T", "U", "V", "MOD", "N", "S"}
TypesOfSymbols == [s \in SomeSymbols |->
  CASE s \in {"T", "U", "V"} -> "tristate" [] s = "N" -> "int" [] s = "S" -> "string" [] OTHER -> "boolean"]
CharsOfTexts == [s \in {"1", "a"} |-> <<s>>]

Plain(prompts) ==
  [prompts |-> prompts, defaults |-> <<>>, ranges |-> <<>>, rev |-> Null, dir |-> Null,
   values |-> <<>>, choice |-> "", optional |-> FALSE]
If(e) == [Plain(<<e>>) EXCEPT !.dir = e]
Entry(s, e, up, list) == [sym |-> s, prompt |-> "prompt", vis |-> e, visibility |-> Null, list |-> list, up |-> up]
SubMenu_(e, up, list) == [Entry("", e, up, list) EXCEPT !.prompt = "menu"]
Comment(up) == [Entry("", Null, up, <<>>) EXCEPT !.prompt = "comment"]
Top_(list) == SubMenu_(Null, 0, list)

(* Six lines, one of them a menu with nothing to see in it unless A is set  *)
Long ==
  [order |-> <<"B", "A">>, modules |-> "n",
   decl |-> [s \in {"A", "B"} |-> IF s = "A" THEN Plain(<<Null>>) ELSE If(Sym("A"))],
   menus |-> <<Top_(<<2, 3, 4, 6, 7>>), Comment(1), Comment(1), SubMenu_(Null, 1, <<5>>),
               Entry("B", Sym("A"), 4, <<>>), Comment(1), Entry("A", Null, 1, <<>>)>>]

(* A choice of three, one of which has an entry below it, and a comment     *)
Choosing ==
  [order |-> <<"Z", "C", "A", "Y", "X">>, modules |-> "n",
   decl |-> [s \in {"A", "C", "X", "Y", "Z"} |->
     CASE s = "C" -> [Plain(<<Null>>) EXCEPT !.rev = Sym("m"), !.values = <<"X", "Y", "Z">>]
       [] s = "A" -> If(Sym("Y"))
       [] OTHER -> [Plain(<<Sym("C")>>) EXCEPT !.choice = "C"]],
   menus |-> <<Top_(<<2>>), Entry("C", Null, 1, <<3, 4, 6, 7>>), Entry("X", Sym("C"), 2, <<>>),
               Entry("Y", Sym("C"), 2, <<5>>), Entry("A", Sym("Y"), 4, <<>>),
               Comment(2), Entry("Z", Sym("C"), 2, <<>>)>>]

(* A string, and a number of at least 1                                     *)
Texts ==
  [order |-> <<"N", "S">>, modules |-> "n",
   decl |-> [s \in {"N", "S"} |->
     IF s = "S" THEN [Plain(<<Null>>) EXCEPT !.defaults = <<[vis |-> Null, val |-> Sym("a")]>>]
     ELSE [Plain(<<Null>>) EXCEPT !.defaults = <<[vis |-> Null, val |-> Sym("1")]>>,
                                  !.ranges = <<[vis |-> Null, lo |-> "1", hi |-> "1"]>>]],
   menus |-> <<Top_(<<2, 3>>), Entry("S", Null, 1, <<>>), Entry("N", Null, 1, <<>>)>>]

(* Tristates: T, U below it, which selects B, and a menu that B opens       *)
Trees ==
  [order |-> <<"U", "B", "MOD", "T">>, modules |-> "MOD",
   decl |-> [s \in {"MOD", "T", "U", "B"} |->
     CASE s \in {"MOD", "T"} -> Plain(<<Null>>)
       [] s = "U" -> If(Sym("T"))
       [] s = "B" -> [If(Sym("MOD")) EXCEPT !.rev = Sym("U")]],
   menus |-> <<Top_(<<2, 3>>), Entry("MOD", Null, 1, <<>>), SubMenu_(Null, 1, <<4, 6>>),
               Entry("T", Null, 3, <<5>>), Entry("U", Sym("T"), 4, <<>>),
               [Entry("B", Sym("MOD"), 3, <<>>) EXCEPT !.prompt = "menu"]>>]

(* X, and T and U below it if there are modules                             *)
Nested ==
  [order |-> <<"T", "X", "MOD", "U">>, modules |-> "MOD",
   decl |-> [s \in {"MOD", "X", "T", "U"} |->
     CASE s = "MOD" -> Plain(<<Null>>)
       [] s = "X" -> Plain(<<Null>>)
       [] s \in {"T", "U"} -> Plain(<<Sym("MOD")>>)],
   menus |-> <<Top_(<<2, 3>>), Entry("MOD", Null, 1, <<>>), Entry("X", Null, 1, <<4, 5>>),
               Entry("T", Sym("MOD"), 3, <<>>), Entry("U", Sym("MOD"), 3, <<>>)>>]

(* A choice that may be m, of T and U                                       *)
Modular ==
  [order |-> <<"T", "MOD", "V", "U">>, modules |-> "MOD",
   decl |-> [s \in {"MOD", "V", "T", "U"} |->
     CASE s = "MOD" -> Plain(<<Null>>)
       [] s = "V" -> [Plain(<<Null>>) EXCEPT !.rev = Sym("m"), !.values = <<"T", "U">>]
       [] OTHER -> [Plain(<<Sym("V")>>) EXCEPT !.choice = "V"]],
   menus |-> <<Top_(<<2, 3>>), Entry("MOD", Null, 1, <<>>), Entry("V", Null, 1, <<4, 5>>),
               Entry("T", Sym("V"), 3, <<>>), Entry("U", Sym("V"), 3, <<>>)>>]

SomeKconfigs == <<Long, Choosing, Texts, Texts, Trees, Trees, Nested, Trees, Modular>>

NoConfig == [there |-> FALSE, lines |-> <<>>]
Config(ls) == [there |-> TRUE, lines |-> ls]
NoHot == [m \in 1..9 |-> ""]
Base_ == [config |-> NoConfig, others |-> << >>, writable |-> {DotConfig}, keys |-> {}, letters |-> {},
          heights |-> {16}, budget |-> 6, single |-> FALSE, hot |-> NoHot, found |-> << >>, signal |-> FALSE]
SomeScenes == <<
  \* scrolling, and a terminal that grows, shrinks and gets too small
  [Base_ EXCEPT !.keys = {"up", "down", "ppage", "npage", "enter", "a"},
                !.heights = {16, 17, 18}, !.budget = 8,
                !.hot = [m \in 1..9 |-> IF m \in {3, 7} THEN "a" ELSE ""]],
  \* a choice, in a terminal that may be too small for it
  [Base_ EXCEPT !.keys = {"up", "down", "enter", "h", "tab", "esc", "z", "s"}, !.heights = {16, 17, 18},
                !.budget = 9, !.hot = [m \in 1..9 |-> IF m = 7 THEN "z" ELSE ""]],
  \* a string and a number
  [Base_ EXCEPT !.keys = {"down", "left", "right", "backspace", "a", "1", "enter", "tab", "esc"},
                !.letters = {"a", "1"}, !.heights = {8, 16}, !.budget = 8],
  \* files: .config and one to load, that cannot be written
  [Base_ EXCEPT !.config = Config(<<SetLine("S", <<Quote, "b", Quote>>)>>),
                !.others = (<<"a">> :> <<SetLine("S", <<Quote, Quote>>)>>),
                !.writable = {DotConfig, <<"b">>},
                !.keys = {"left", "backspace", "a", "b", "enter", "esc", "y", "n"},
                !.letters = {"a", "b"}, !.budget = 11, !.signal = TRUE],
  \* values, with all options shown or not
  [Base_ EXCEPT !.keys = {"down", "y", "n", "m", "space", "z", "esc"}, !.budget = 9],
  \* search
  [Base_ EXCEPT !.keys = {"slash", "a", "enter", "1", "2", "up", "down", "npage", "end", "x"},
                !.letters = {"a"}, !.heights = {16, 24}, !.budget = 9,
                !.found = (<<"a">> :> <<"U", "B", "T">>)],
  \* help, in one menu with all of them
  [Base_ EXCEPT !.keys = {"h", "up", "down", "ppage", "npage", "home", "end", "left", "right", "enter"},
                !.heights = {9, 10, 16}, !.budget = 8],
  \* all menus in one
  [Base_ EXCEPT !.keys = {"down", "enter", "space", "esc", "n"}, !.budget = 9, !.single = TRUE],
  \* a choice that may be m
  [Base_ EXCEPT !.keys = {"down", "y", "n", "m", "space", "enter", "esc"}, !.heights = {18}, !.budget = 8]
>>

(* The values of the constants. TLC evaluates what a constant stands for at *)
(* every use, but a definition of its own, as above, only once.             *)
MCSymbols == LET table == SomeSymbols IN table
MCSymType == LET table == TypesOfSymbols IN table
MCChars == LET table == CharsOfTexts IN table
MCKconfigs == LET table == SomeKconfigs IN table
MCScenes == LET table == SomeScenes IN table
=============================================================================
