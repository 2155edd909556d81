-------------------------------- MODULE KMenu --------------------------------
(***************************************************************************)
(* kconfig from the Config.in files to the menu tree. The parser (zconf.y, *)
(* zconf.l, the menu_add functions of menu.c) follows `source', nests      *)
(* menus, choices and `if' blocks and gathers conditions. menu_finalize    *)
(* then walks the tree once, hands the dependencies of every menu down to  *)
(* its entries and their properties, makes entries that depend on the one  *)
(* before them its sub-entries, collects reverse dependencies and choice   *)
(* values, and dissolves `if' blocks. Its recursion is a stack of frames,  *)
(* the loop of expr_eliminate_dups a step per round.                       *)
(***************************************************************************)
EXTENDS KExpr

CONSTANTS
  Main,      \* the name of the first file
  NoMenu,    \* a null pointer
  Worlds     \* the files: name -> a sequence of statements, see below

(* A statement [st, sym, dep, visible, props, file] is an entry ("config",  *)
(* "comment", "menu", "choice", "if") with all its options, an "end" of     *)
(* the kind sym, or a "source" of the file sym. dep is its `depends on',    *)
(* visible its `visible if'. A property is [kind, to, vis]: the prompt of a *)
(* symbol ("prompt") or of a menu ("menu"), the "select" of the symbol to,  *)
(* or a "default", each with its own condition.                             *)
ASSUME FilesAssumption ==
  \A w \in Worlds : /\ Main \in DOMAIN w
                    /\ \A f \in DOMAIN w : \A k \in DOMAIN w[f] : w[f][k].file = f

VARIABLES
  world,        \* one of Worlds; it never changes
  buffers,      \* the files being read, [file, at], the innermost last
  fparent,      \* file -> the file that included it, or NoMenu
  cur,          \* current_menu
  blocks,       \* the kinds of the blocks the grammar is in
  errors,       \* is zconfnerrs positive?
  status,       \* "parsing", "refused", "finalizing" or "done"
  node,         \* menu -> its statement
  origin,       \* menu -> its parent when parsing ends
  list, up,     \* menu -> its entries; menu -> its parent
  dep, props,   \* menu -> what becomes of its conditions
  rev, dir,     \* symbol -> rev_dep, dir_dep
  values,       \* choice symbol -> its values
  stack,        \* frames [menu, in, phase, i, j]: in is the menu whose list
                \* holds this one, i and j where its loops stand
  work,         \* the expression in expr_eliminate_dups, or NoMenu
  contradicted  \* has expr_eliminate_dups2 changed an expression?

parser == <<buffers, fparent, cur, blocks, errors, node, origin>>
tree   == <<list, up, dep, props, rev, dir, values>>
walk   == <<rev, dir, values, work, contradicted>>
vars   == <<world, parser, status, tree, stack, work, contradicted>>

Root    == 1
Menus   == DOMAIN list
Node(m) == node[m]
IsChoice(m) == Node(m).st = "choice"
Prompts(m) == SelectSeq(props[m], LAMBDA p : p.kind \in {"prompt", "menu"})
HasPrompt(m) == Prompts(m) # <<>>
PromptVis(m) == Last(Prompts(m)).vis

Frame(m, in) == [menu |-> m, in |-> in, phase |-> "enter", i |-> 1, j |-> 0]

(* rootmenu, with the prompt conf_parse gives it                            *)
RootStatement ==
  [st |-> "menu", sym |-> "", dep |-> Null, visible |-> Null,
   props |-> <<[kind |-> "menu", to |-> "", vis |-> Null]>>, file |-> Main]

Init ==
  /\ world \in Worlds
  /\ buffers = <<[file |-> Main, at |-> 1]>>
  /\ fparent = [f \in DOMAIN world |-> NoMenu]
  /\ cur = Root /\ blocks = <<>> /\ errors = FALSE /\ status = "parsing"
  /\ node = <<RootStatement>> /\ origin = <<>>
  /\ list = <<<<>>>> /\ up = <<NoMenu>>
  /\ dep = <<Null>> /\ props = <<RootStatement.props>>
  /\ rev = [s \in Symbols |-> Null] /\ dir = [s \in Symbols |-> Null]
  /\ values = [s \in Symbols |-> <<>>]
  /\ stack = <<>> /\ work = NoMenu /\ contradicted = FALSE

(***************************************************************************)
(* Parsing                                                                 *)
(***************************************************************************)
current_file == Last(buffers).file
AtEnd == Last(buffers).at > Len(world[current_file])
Stmt  == world[current_file][Last(buffers).at]
Step  == [buffers EXCEPT ![Len(buffers)].at = @ + 1]

Parsing(kinds) == status = "parsing" /\ ~AtEnd /\ Stmt.st \in kinds

(* menu_add_prop: what the menus above want to be seen goes for a prompt.   *)
RECURSIVE Visibility(_)
Visibility(m) ==
  IF m = NoMenu THEN Null ELSE expr_alloc_and(Node(m).visible, Visibility(up[m]))

menu_add_prop(p) ==
  IF p.kind = "prompt" THEN [p EXCEPT !.vis = expr_alloc_and(@, Visibility(cur))] ELSE p

Opens == {"menu", "choice", "if"}

(* menu_add_entry with the options of the entry, and menu_add_menu for one  *)
(* that holds others.                                                       *)
AddEntry ==
  /\ Parsing(Opens \cup {"config", "comment"})
  /\ LET id == Len(list) + 1
     IN /\ list' = Append([list EXCEPT ![cur] = Append(@, id)], <<>>)
        /\ up' = Append(up, cur)
        /\ node' = Append(node, Stmt)
        /\ dep' = Append(dep, Stmt.dep)
        /\ props' = Append(props, [k \in DOMAIN Stmt.props |-> menu_add_prop(Stmt.props[k])])
        /\ cur' = IF Stmt.st \in Opens THEN id ELSE cur
        /\ blocks' = IF Stmt.st \in Opens THEN Append(blocks, Stmt.st) ELSE blocks
  /\ buffers' = Step
  /\ UNCHANGED <<fparent, errors, status, origin, stack, walk>>

(* Mutant: an end in another file than the beginning is accepted.           *)
zconf_endtoken_AnyFile == Stmt.sym = Last(blocks)

zconf_endtoken == Stmt.sym = Last(blocks) /\ Node(cur).file = current_file

(* menu_end, choice_end, if_end: the block is over for the grammar; the     *)
(* menu ends only if the end is the right one. Outside all blocks an end is *)
(* an error.                                                                *)
End ==
  /\ Parsing({"end"})
  /\ IF blocks # <<>> /\ zconf_endtoken THEN cur' = up[cur] /\ UNCHANGED errors
     ELSE errors' = TRUE /\ UNCHANGED cur
  /\ blocks' = IF blocks = <<>> THEN blocks ELSE Front(blocks)
  /\ buffers' = Step
  /\ UNCHANGED <<fparent, node, origin, status, stack, tree, work, contradicted>>

RECURSIVE Includers(_, _)
Includers(f, seen) ==
  IF f = NoMenu \/ f \in seen THEN seen ELSE Includers(fparent[f], seen \cup {f})

(* The check of zconf_nextfile: is the file that contains this `source' one *)
(* of its own includers? The file to be included is not looked at.          *)
Recursive(f) == f \in Includers(fparent[f], {})

Source ==
  /\ Parsing({"source"})
  /\ IF Stmt.sym \notin DOMAIN world \/ Recursive(current_file)
     THEN status' = "refused" /\ UNCHANGED <<buffers, fparent>>
     ELSE /\ buffers' = Append(Step, [file |-> Stmt.sym, at |-> 1])
          /\ fparent' = [fparent EXCEPT ![Stmt.sym] = current_file]
          /\ UNCHANGED status
  /\ UNCHANGED <<cur, blocks, errors, node, origin, stack, tree, work, contradicted>>

EndFile ==
  /\ status = "parsing" /\ AtEnd /\ Len(buffers) > 1
  /\ buffers' = Front(buffers)
  /\ UNCHANGED <<fparent, cur, blocks, errors, node, origin, status, stack, tree, work, contradicted>>

(* conf_parse goes on only if there was no error; a block that is still     *)
(* open is one.                                                             *)
EndParse ==
  /\ status = "parsing" /\ AtEnd /\ Len(buffers) = 1
  /\ IF errors \/ blocks # <<>> THEN status' = "refused" /\ UNCHANGED <<stack, origin>>
     ELSE status' = "finalizing" /\ stack' = <<Frame(Root, NoMenu)>> /\ origin' = up
  /\ UNCHANGED <<buffers, fparent, cur, blocks, errors, node, tree, work, contradicted>>

Top == Last(stack)
Jump(phase) == stack' = [stack EXCEPT ![Len(stack)].phase = phase, ![Len(stack)].i = 1,
                                      ![Len(stack)].j = 0]
Running(phase) == stack # <<>> /\ Top.phase = phase
Call(m, in) == stack' = Append([stack EXCEPT ![Len(stack)].i = @ + 1], Frame(m, in))

(***************************************************************************)
(* Dependencies go down                                                    *)
(***************************************************************************)
Enter ==
  /\ Running("enter")
  /\ Jump(CASE list[Top.menu] # <<>> -> "deps"
            [] list[Top.menu] = <<>> /\ Node(Top.menu).sym # "" -> "nest"
            [] OTHER -> "tail")
  /\ UNCHANGED <<tree, work, contradicted>>

parentdep(m) ==
  CASE IsChoice(m) -> Sym(Node(m).sym)
    [] ~IsChoice(m) /\ HasPrompt(m) -> PromptVis(m)
    [] OTHER -> dep[m]

(* The entry the loop is at; j = 0 is its own dependency, j > 0 a property. *)
Child == list[Top.menu][Top.i]

Collect ==
  /\ Running("deps") /\ work = NoMenu
  /\ Top.i <= Len(list[Top.menu]) /\ Top.j <= Len(props[Child])
  /\ work' = IF Top.j = 0
             THEN expr_alloc_and(parentdep(Top.menu), expr_transform(dep[Child]))
             ELSE expr_alloc_and(dep[Child], expr_transform(props[Child][Top.j].vis))
  /\ UNCHANGED <<tree, stack, contradicted>>

(* A round of expr_eliminate_dups that changes something.                   *)
Reduce ==
  /\ work # NoMenu
  /\ \E one \in {DupsRound1(work)} : \E two \in {DupsRound2(Edit(one.tree, FALSE))} :
       /\ one.hit \/ two.hit
       /\ work' = expr_eliminate_yn(two.tree)
       /\ contradicted' = (contradicted \/ two.hit)
  /\ UNCHANGED <<tree, stack>>

Settled == work # NoMenu /\ ~DupsRound2(DupsRound1(work)).hit

KeepDep ==
  /\ Settled /\ Top.j = 0
  /\ dep' = [dep EXCEPT ![Child] = work]
  /\ stack' = [stack EXCEPT ![Len(stack)].j = 1]
  /\ work' = NoMenu
  /\ UNCHANGED <<list, up, props, rev, dir, values, contradicted>>

(* Mutant: the target is selected whenever the symbol is set.               *)
KeepProp_Unconditional ==
  /\ Settled /\ Top.j > 0
  /\ LET s   == Node(Child).sym
         p   == props[Child][Top.j]
         vis == IF s # "" /\ TypeOf(s) # "tristate" THEN expr_trans_bool(work) ELSE work
     IN /\ props' = [props EXCEPT ![Child][Top.j].vis = vis]
        /\ rev' = IF p.kind = "select" THEN [rev EXCEPT ![p.to] = expr_alloc_or(@, Sym(s))] ELSE rev
  /\ stack' = [stack EXCEPT ![Len(stack)].j = @ + 1]
  /\ work' = NoMenu
  /\ UNCHANGED <<list, up, dep, dir, values, contradicted>>

(* The condition of a property; a select also counts for its target.        *)
KeepProp ==
  /\ Settled /\ Top.j > 0
  /\ LET s   == Node(Child).sym
         p   == props[Child][Top.j]
         vis == IF s # "" /\ TypeOf(s) # "tristate" THEN expr_trans_bool(work) ELSE work
     IN /\ props' = [props EXCEPT ![Child][Top.j].vis = vis]
        /\ rev' = IF p.kind = "select"
                  THEN [rev EXCEPT ![p.to] = expr_alloc_or(@, expr_alloc_and(Sym(s), vis))]
                  ELSE rev
  /\ stack' = [stack EXCEPT ![Len(stack)].j = @ + 1]
  /\ work' = NoMenu
  /\ UNCHANGED <<list, up, dep, dir, values, contradicted>>

NextEntry ==
  /\ Running("deps") /\ work = NoMenu
  /\ \/ /\ Top.i <= Len(list[Top.menu]) /\ Top.j > Len(props[Child])
        /\ stack' = [stack EXCEPT ![Len(stack)].i = @ + 1, ![Len(stack)].j = 0]
     \/ /\ Top.i > Len(list[Top.menu])
        /\ Jump("entries")
  /\ UNCHANGED <<tree, work, contradicted>>

(* for (menu = parent->list; menu; menu = menu->next) menu_finalize(menu)   *)
Entries ==
  /\ Running("entries")
  /\ IF Top.i <= Len(list[Top.menu]) THEN Call(Child, Top.menu) ELSE Jump("tail")
  /\ UNCHANGED <<tree, work, contradicted>>

(***************************************************************************)
(* Entries that depend on the one before them become its sub-entries       *)
(***************************************************************************)
(* "e is not n", in the form in which expressions are compared.             *)
NotNo(e) == expr_eliminate_dups(expr_transform(expr_trans_compare(e, "unequal", "n")))

basedep(m) == NotNo(IF HasPrompt(m) THEN PromptVis(m) ELSE Null)

(* Does n, behind m, go below m?                                            *)
Belongs(m, n) ==
  LET d == IF HasPrompt(n) THEN PromptVis(n) ELSE dep[n]
  IN /\ expr_contains_symbol(d, Node(m).sym)
     /\ \/ expr_depends_symbol(d, Node(m).sym)
        \/ expr_is_yes(expr_eliminate_eq(NotNo(d), basedep(m)).right)

Here == SelectInSeq(list[Top.in], LAMBDA m : m = Top.menu)
After == IF Here + Top.i <= Len(list[Top.in]) THEN list[Top.in][Here + Top.i] ELSE NoMenu

(* The next one is finalized, which may take what follows it below itself,  *)
(* and is then the next sub-entry.                                          *)
Adopt ==
  /\ Running("nest")
  /\ After # NoMenu /\ Belongs(Top.menu, After)
  /\ Call(After, Top.in)
  /\ UNCHANGED <<tree, work, contradicted>>

(* The first that does not belong ends the loop.                            *)
Nest ==
  /\ Running("nest")
  /\ ~(After # NoMenu /\ Belongs(Top.menu, After))
  /\ LET m    == Top.menu
         kids == SubSeq(list[Top.in], Here + 1, Here + Top.i - 1)
     IN /\ list' = [list EXCEPT ![m] = kids,
                                ![Top.in] = SubSeq(@, 1, Here) \o SubSeq(@, Here + Top.i, Len(@))]
        /\ up' = [n \in Menus |-> IF Contains(kids, n) THEN m ELSE up[n]]
        /\ dir' = [dir EXCEPT ![Node(m).sym] = expr_alloc_or(@, dep[m])]
  /\ Jump("tail")
  /\ UNCHANGED <<dep, props, rev, values, work, contradicted>>

(***************************************************************************)
(* Choice values, and menus without a prompt                               *)
(***************************************************************************)
Taken(s) == \E c \in Symbols : Contains(values[c], s)

(* A value of a choice is entered in the choice's list; if it is not        *)
(* tristate and the choice is, it needs the choice to be y.                 *)
ChoiceValue(m, n) ==
  LET c == Node(m).sym
      s == Node(n).sym
      strict == TypeOf(c) = "tristate" /\ TypeOf(s) # "tristate"
      isY == Comp("equal", c, "y")
  IN IF ~IsChoice(m) \/ s = "" \/ Taken(s) THEN UNCHANGED <<dep, props, values>>
     ELSE /\ values' = [values EXCEPT ![c] = Append(@, s)]
          /\ dep' = IF strict THEN [dep EXCEPT ![n] = expr_alloc_and(isY, @)] ELSE dep
          /\ props' = IF strict
                      THEN [props EXCEPT ![n] = [k \in DOMAIN @ |->
                              [@[k] EXCEPT !.vis = expr_alloc_and(isY, @)]]]
                      ELSE props

(* Mutant: they are put in front of it.                                     *)
Dissolve_InFront(m, n) ==
  IF list[n] # <<>> /\ ~HasPrompt(n)
  THEN /\ list' = [list EXCEPT ![m] = SubSeq(@, 1, Top.i - 1) \o list[n] \o SubSeq(@, Top.i, Len(@)),
                               ![n] = <<>>]
       /\ up' = [k \in Menus |-> IF Contains(list[n], k) THEN m ELSE up[k]]
  ELSE UNCHANGED <<list, up>>

(* The entries of n, which has no prompt, move behind it into m's list.     *)
Dissolve(m, n) ==
  IF list[n] # <<>> /\ ~HasPrompt(n)
  THEN /\ list' = [list EXCEPT ![m] = SubSeq(@, 1, Top.i) \o list[n] \o SubSeq(@, Top.i + 1, Len(@)),
                               ![n] = <<>>]
       /\ up' = [k \in Menus |-> IF Contains(list[n], k) THEN m ELSE up[k]]
  ELSE UNCHANGED <<list, up>>

TailEntry ==
  /\ Running("tail") /\ Top.i <= Len(list[Top.menu])
  /\ ChoiceValue(Top.menu, Child)
  /\ Dissolve(Top.menu, Child)
  /\ stack' = [stack EXCEPT ![Len(stack)].i = @ + 1]
  /\ UNCHANGED <<rev, dir, work, contradicted>>

(* A choice that can be seen is at least m.                                 *)
Return ==
  /\ Running("tail") /\ Top.i > Len(list[Top.menu])
  /\ rev' = IF IsChoice(Top.menu) /\ HasPrompt(Top.menu)
            THEN [rev EXCEPT ![Node(Top.menu).sym] =
                    expr_alloc_or(@, expr_alloc_and(PromptVis(Top.menu), Sym("m")))]
            ELSE rev
  /\ stack' = Front(stack)
  /\ status' = IF Len(stack) = 1 THEN "done" ELSE status
  /\ UNCHANGED <<list, up, dep, props, dir, values, work, contradicted>>

Parse == AddEntry \/ End \/ Source \/ EndFile \/ EndParse

menu_finalize ==
  \/ /\ \/ Enter \/ Collect \/ Reduce \/ KeepDep \/ KeepProp \/ NextEntry
        \/ Entries \/ Adopt \/ Nest \/ TailEntry
     /\ UNCHANGED status
  \/ Return

Next ==
  /\ Parse \/ (menu_finalize /\ UNCHANGED parser)
  /\ UNCHANGED world

Spec == Init /\ [][Next]_vars

(***************************************************************************)
(* Properties                                                              *)
(***************************************************************************)
Done == status = "done"

Held == UNION {ToSet(list[m]) : m \in Menus}

(* Every menu but the root is in one list and nowhere else, in the end in   *)
(* its parent's (the next pointers menu_finalize relinks), and the stack is *)
(* no deeper than there are menus.                                          *)
TypeOK ==
  /\ status \in {"parsing", "refused", "finalizing", "done"}
  /\ Len(stack) <= Len(list)
  /\ cur \in Menus
  /\ Held = Menus \ {Root}
  /\ FoldSet(LAMBDA m, n : Len(list[m]) + n, 0, Menus) = Len(list) - 1
  /\ Done => \A m \in Menus \ {Root} : Contains(list[up[m]], m)

(* The files put together, as `source' does.                                *)
RECURSIVE Expand(_), Reached(_)
Expand(f) ==
  FlattenSeq([k \in DOMAIN world[f] |->
                IF world[f][k].st = "source" THEN Expand(world[f][k].sym) ELSE <<world[f][k]>>])
Included(f) == {world[f][k].sym : k \in {j \in DOMAIN world[f] : world[f][j].st = "source"}}
Reached(S) ==
  LET more == S \cup UNION {Included(f) : f \in S \cap DOMAIN world}
  IN IF more = S THEN S ELSE Reached(more)
Readable ==
  LET all == Reached({Main})
  IN all \subseteq DOMAIN world /\ \A f \in all : f \notin Reached(Included(f))

(* j opens a block of t that is still open just before i.                   *)
OpenAt(t, j, i) ==
  /\ t[j].st \in Opens
  /\ \A k \in (j + 1)..(i - 1) :
       Cardinality({x \in (j + 1)..k : t[x].st = "end"})
         <= Cardinality({x \in (j + 1)..k : t[x].st \in Opens})
Around(t, i) == {j \in 1..(i - 1) : OpenAt(t, j, i)}
WellNested(t) ==
  /\ Around(t, Len(t) + 1) = {}
  /\ \A i \in DOMAIN t : t[i].st = "end" =>
       /\ Around(t, i) # {}
       /\ t[Max(Around(t, i))].st = t[i].sym /\ t[Max(Around(t, i))].file = t[i].file

MenuOf(t, i) == 1 + Cardinality({x \in 1..i : t[x].st # "end"})

(* A file is accepted exactly if its blocks are nested and each ends with   *)
(* its own statement in its own file, and then every entry belongs to the   *)
(* innermost block around it, also after an error in another block.         *)
ParsedAsNested ==
  /\ status = "finalizing" => Readable
  /\ status \in {"finalizing", "refused"} /\ Readable =>
       LET t == Expand(Main)
       IN /\ WellNested(t) = (status = "finalizing")
          /\ status = "finalizing" =>
               \A i \in DOMAIN t : t[i].st # "end" =>
                 origin[MenuOf(t, i)] = IF Around(t, i) = {} THEN Root
                                        ELSE MenuOf(t, Max(Around(t, i)))

(* A file that includes itself, directly or not, is found out: the check    *)
(* comes one file late, but the files that are open stay bounded.           *)
InclusionEnds == Len(buffers) <= Cardinality(DOMAIN world) + 1

(* The assignments a user can make: a boolean is never m.                   *)
Assignments ==
  {a \in [Symbols -> 0..2] : \A s \in Symbols : SymType[s] = "boolean" => a[s] # 1}
Plain(a) == \A s \in Symbols : a[s] # 1

(* The condition the file states: the conjunction of all conditions around  *)
(* an entry, those of a choice given by its symbol.                         *)
RECURSIVE StatedDep(_, _), StatedAround(_, _), StatedVisible(_, _)
StatedAround(q, a) ==
  LET prompts == SelectSeq(Node(q).props, LAMBDA p : p.kind \in {"prompt", "menu"})
  IN CASE IsChoice(q) -> a[Node(q).sym]
       [] ~IsChoice(q) /\ q = Root -> 2
       [] OTHER -> IF prompts = <<>> THEN StatedDep(q, a)
                   ELSE Min({StatedDep(q, a), expr_calc_value(prompts[1].vis, a)})
StatedDep(m, a) ==
  Min({StatedAround(origin[m], a), expr_calc_value(Node(m).dep, a)})
StatedVisible(m, a) ==
  IF m = Root THEN 2
  ELSE Min({expr_calc_value(Node(m).visible, a), StatedVisible(origin[m], a)})
Stated(m, k, a) ==
  LET p == Node(m).props[k]
  IN Min({StatedDep(m, a), expr_calc_value(p.vis, a)} \cup
         (IF p.kind = "prompt" THEN {StatedVisible(origin[m], a)} ELSE {}))

(* A boolean value of a tristate choice also needs the choice to be y.      *)
Strict(m) ==
  LET c == Node(origin[m])
  IN c.st = "choice" /\ TypeOf(c.sym) = "tristate" /\ TypeOf(Node(m).sym) = "boolean"

Agree(m, v, w) ==
  IF Node(m).sym # "" /\ TypeOf(Node(m).sym) = "boolean" THEN (v = 0) = (w = 0) ELSE v = w

(* However often dependencies are handed down, reordered and simplified, a  *)
(* property applies exactly when the conditions written around it hold. Only *)
(* expr_eliminate_dups2 may change that, and only for a tristate that is m: *)
(* "(FOO || BAR) && (!FOO && !BAR) -> n" is m then.                         *)
VisibleAsWritten ==
  Done => \A m \in Menus \ {Root} : \A k \in DOMAIN props[m] : \A a \in Assignments :
    (Plain(a) \/ ~contradicted) /\ ~Strict(m)
      => Agree(m, expr_calc_value(props[m][k].vis, a), Stated(m, k, a))

(* An entry that became a sub-entry of a symbol is of no interest without   *)
(* it: whenever it can be seen, the symbol is set, or can be seen itself    *)
(* (expr_depends_symbol, and expr_eliminate_eq on both conditions).         *)
NestedBelowItsCondition ==
  Done => \A m \in Menus \ {Root} : \A a \in Assignments :
    LET q == up[m]
    IN (q # Root /\ Node(q).sym # "" /\ ~IsChoice(q) /\ Plain(a) /\ HasPrompt(m)
        /\ expr_calc_value(PromptVis(m), a) # 0)
       => \/ a[Node(q).sym] # 0
          \/ HasPrompt(q) /\ expr_calc_value(PromptVis(q), a) # 0

RECURSIVE Outline(_)
Outline(m) == <<m>> \o FlattenSeq([k \in DOMAIN list[m] |-> Outline(list[m][k])])

(* Nesting and dissolving never change the order in which the entries were  *)
(* written: conf asks for them, and .config lists them, in this order.      *)
OrderKept == Done => Outline(Root) = [m \in Menus |-> m]

(* A symbol is selected by exactly those whose select property applies, and *)
(* its direct dependencies are those of all its definitions, unless some    *)
(* but not all of them are unconditional: expr_alloc_or drops those.        *)
SelectsCollected ==
  Done => \A s \in Symbols : \A a \in Assignments :
    LET selecting == {mk \in Menus \X (1..4) :
                        /\ mk[2] \in DOMAIN props[mk[1]]
                        /\ props[mk[1]][mk[2]].kind = "select"
                        /\ props[mk[1]][mk[2]].to = s}
        defining == {m \in Menus : Node(m).sym = s /\ ~IsChoice(m)}
        Selects(mk) == Min({a[Node(mk[1]).sym], Stated(mk[1], mk[2], a)})
        chosen == \E m \in Menus : IsChoice(m) /\ Node(m).sym = s
    IN Plain(a) /\ ~chosen =>
         /\ expr_calc_value(IF rev[s] = Null THEN Sym("n") ELSE rev[s], a)
              = Max({Selects(mk) : mk \in selecting} \cup {0})
         /\ defining # {} /\ (Cardinality(defining) = 1 \/ \A m \in defining : dep[m] # Null)
              => expr_calc_value(dir[s], a) = Max({StatedDep(m, a) : m \in defining})

(* What the help of an entry prints as its dependencies can be read again   *)
(* as the same expression (expr_print's parentheses, the grammar of         *)
(* zconf.y).                                                                *)
PrintsBack ==
  Done => \A m \in Menus : \A k \in DOMAIN props[m] : \A a \in Assignments :
    expr_calc_value(expr_read(expr_print(props[m][k].vis, "none")), a)
      = expr_calc_value(props[m][k].vis, a)

RECURSIVE Size(_)
Size(e) ==
  CASE e.type \in {"and", "or"} -> 1 + Size(e.left) + Size(e.right)
    [] e.type = "not" -> 1 + Size(e.left)
    [] OTHER -> 1

(* The loop of expr_eliminate_dups ends: every round that changes the       *)
(* expression makes it smaller, and the round that does not is the last.    *)
RoundsShrink ==
  [][work # NoMenu /\ work' # NoMenu => Size(work') < Size(work)]_vars

(* Whatever is written, parsing ends, and leaves the menus as they are      *)
(* nested in the files (zconf.l, zconf_endtoken).                           *)
ParsedRight == ParsedAsNested /\ InclusionEnds

(* menu_finalize keeps a tree: every menu in one place, in the order of the *)
(* files, and below another only if it depends on that.                     *)
TreeKept == TypeOK /\ OrderKept /\ NestedBelowItsCondition

(* Conditions keep their meaning, simplified (menu_finalize) and printed    *)
(* (expr_print).                                                            *)
MeaningKept == VisibleAsWritten /\ PrintsBack
=============================================================================
