-------------------------------- MODULE KConf --------------------------------
(***************************************************************************)
(* The program conf (conf.c): one process after the other reads a          *)
(* configuration, asks for what is new or sets it, and writes .config, the *)
(* files of the build (auto.conf, autoconf.h, tristate.conf) or a minimal  *)
(* configuration. A process may be killed between any two of its steps.    *)
(***************************************************************************)
EXTENDS KConfData

CONSTANTS
  Configs,    \* name of a Kconfig -> the .config files there may be
  Modes,      \* Modes[world][n]: the modes conf is called in the n-th time
  Answers,    \* the texts a user may type
  Seeds,      \* name of a Kconfig -> the files defconfig may read
  Autos       \* name of a Kconfig -> the auto.conf there may be from before

VARIABLES
  g,          \* the symbols, see KSymbol
  files,      \* the files, see NoFile
  touched,    \* the symbols whose file was touched since auto.conf was renamed
  mode, env,  \* the mode and how conf was called
  pc,         \* where main stands; "exit" if there is no process
  code,       \* "none", "ok" or "error": how the last one ended
  stack,      \* frames [fn, menu, at, i, isNew] of conf and check_conf
  rootEntry,  \* the menu conf was called for
  cnt,        \* is conf_cnt positive?
  at,         \* where conf_split_config stands
  reported,   \* was a recursive dependency reported?
  runs,       \* how often conf was called
  rounds      \* how often the loop of main, or that of randconfig, went round

memory == <<g, stack, rootEntry, cnt, at, rounds>>
disk   == <<files, touched>>
vars   == <<world, memory, disk, mode, env, pc, code, reported, runs>>

(* A file: whole is FALSE while it is written.                              *)
NoFile     == [there |-> FALSE, whole |-> FALSE, lines |-> <<>>]
Begun      == [there |-> TRUE, whole |-> FALSE, lines |-> <<>>]
File(ls)   == [there |-> TRUE, whole |-> TRUE, lines |-> ls]

(* config, old, tmp: .config, .config.old, .tmpconfig.PID. saved, seed: the *)
(* file of savedefconfig, and that of defconfig or KCONFIG_ALLCONFIG. auto, *)
(* header, tristate, and tmpauto: auto.conf, autoconf.h, tristate.conf and  *)
(* .tmpconfig, .tmpconfig.h and .tmpconfig_tristate, written as one.        *)
FileNames == {"config", "old", "tmp", "saved", "seed", "auto", "header", "tristate", "tmpauto"}

TristatesOf(f) == [f EXCEPT !.lines = SelectSeq(@, LAMBDA l : TypeOf(l.name) = "tristate")]

Idle == /\ g = Fresh /\ stack = <<>> /\ rootEntry = Root /\ cnt = FALSE /\ at = 0 /\ rounds = 0

Init ==
  /\ world \in DOMAIN Kconfigs
  /\ Idle
  /\ \E c \in Configs[world], seed \in Seeds[world], auto \in Autos[world] :
       files = [n \in FileNames |->
                 CASE n = "config" -> c [] n = "seed" -> seed
                   [] n \in {"auto", "header"} -> auto
                   [] n = "tristate" -> TristatesOf(auto)
                   [] OTHER -> NoFile]
  /\ touched = {}
  /\ mode = "none" /\ env = [overwrite |-> FALSE, tty |-> TRUE, nosilent |-> FALSE, sync |-> FALSE]
  /\ pc = "exit" /\ code = "none" /\ reported = FALSE /\ runs = 0

Exit(how) ==
  /\ pc' = "exit" /\ code' = how /\ mode' = "none"
  /\ g' = Fresh /\ stack' = <<>> /\ rootEntry' = Root /\ cnt' = FALSE /\ at' = 0 /\ rounds' = 0

Goto(p) == pc' = p

(* The modes, as far as they differ                                         *)
AskNew   == mode \in {"silentoldconfig", "oldconfig"}
NoAsking == mode \in {"listnewconfig", "olddefconfig"}
AllModes == {"allnoconfig", "allyesconfig", "allmodconfig", "alldefconfig", "randconfig"}

(***************************************************************************)
(* Start and read                                                          *)
(***************************************************************************)
(* main: the arguments, and conf_parse, which reports recursive             *)
(* dependencies. silentoldconfig needs a .config.                           *)
Start ==
  /\ pc = "exit" /\ runs < Len(Modes[world])
  /\ \E m \in Modes[world][runs + 1], o \in BOOLEAN, t \in BOOLEAN, n \in BOOLEAN :
       /\ o => m = "olddefconfig"
       /\ ~t \/ n => m = "silentoldconfig"
       /\ env' = [overwrite |-> o, tty |-> t, nosilent |-> n, sync |-> m = "silentoldconfig"]
       /\ \E r \in {CheckAll} :
          LET refused == r.res # "" \/ (m = "silentoldconfig" /\ ~files["config"].there)
          IN /\ reported' = r.k.reported
             /\ mode' = IF refused THEN "none" ELSE m
             /\ pc' = IF refused THEN "exit" ELSE "read"
             /\ code' = IF refused THEN "error" ELSE "none"
  /\ runs' = runs + 1
  /\ UNCHANGED <<memory, disk>>

(* The configuration the mode starts from                                   *)
Read ==
  /\ pc = "read"
  /\ ~(mode = "defconfig" /\ ~files["seed"].there)
  /\ LET from == files[IF mode \in AllModes \cup {"defconfig"} THEN "seed" ELSE "config"]
     IN g' = CASE mode \notin AllModes /\ from.there -> conf_read(g, from.lines)
               [] mode \in AllModes -> IF from.there THEN conf_read_simple(g, from.lines) ELSE g
               [] OTHER -> sym_calc_value([g EXCEPT !.changed = TRUE], Kconfig.modules)
  /\ Goto(CASE mode \in AllModes \cup {"defconfig"} -> "set"
            [] mode = "savedefconfig" -> "save"
            [] mode = "oldaskconfig" -> "askall"
            [] OTHER -> "loaded")
  /\ UNCHANGED <<disk, mode, env, code, stack, rootEntry, cnt, at, reported, runs, rounds>>

(* Without the file of defconfig, or if an update was needed that the user  *)
(* does not want to be silent, conf ends.                                   *)
Refuse ==
  /\ \/ pc = "read" /\ mode = "defconfig" /\ ~files["seed"].there
     \/ pc = "loaded" /\ env.nosilent /\ g.changed
  /\ Exit("error")
  /\ UNCHANGED <<disk, env, reported, runs>>

(***************************************************************************)
(* Modes that do not ask                                                   *)
(***************************************************************************)
(* conf_set_all_new_symbols for all the modes but randconfig                *)
SetAll ==
  /\ pc = "set" /\ mode # "randconfig"
  /\ LET v == CASE mode = "allyesconfig" -> 2 [] mode = "allmodconfig" -> 1 [] OTHER -> 0
     IN g' = SetChoices(IF mode \in {"allyesconfig", "allmodconfig", "allnoconfig"}
                        THEN Assign(g, [s \in All |-> v], FALSE) ELSE Keep(g))
  /\ Goto("write")
  /\ UNCHANGED <<disk, mode, env, code, stack, rootEntry, cnt, at, reported, runs, rounds>>

(* A round of while (conf_set_all_new_symbols(def_random))                  *)
Randomize ==
  /\ pc = "set" /\ mode = "randconfig"
  /\ LET new == {s \in All : s \notin g.user /\ s \notin g.valid /\ ~IsText(s)}
     IN \E val \in [new -> 0..2], dice \in [{c \in All : IsChoice(c) /\ c \notin g.user} -> All] :
          /\ \A s \in new : TypeOf(s) = "boolean" => val[s] # 1
          /\ \A c \in DOMAIN dice : dice[c] \in ToSet(Decl(c).values)
          /\ \E r \in {RandomChoices(Assign(g, val, TRUE), dice, new # {})} :
               g' = r.g /\ rounds' = rounds + 1 /\ Goto(IF r.more THEN "set" ELSE "write")
  /\ UNCHANGED <<disk, mode, env, code, stack, rootEntry, cnt, at, reported, runs>>

(***************************************************************************)
(* conf and check_conf                                                     *)
(***************************************************************************)
Frame(fn, m) == [fn |-> fn, menu |-> m, at |-> "visit", i |-> 0, isNew |-> FALSE]
Top  == Last(stack)
M    == Menu(Top.menu)
Move(where) == [stack EXCEPT ![Len(stack)].at = where]
Pop  == Front(stack)
Asking(fn, where) == pc = "ask" /\ stack # <<>> /\ Top.fn = fn /\ Top.at = where
Unasked == UNCHANGED <<disk, env, code, reported, runs, at>>

(* oldaskconfig goes through everything first, and is silentoldconfig then. *)
AskAll ==
  /\ pc = "askall"
  /\ stack' = <<Frame("conf", Root)>> /\ rootEntry' = Root /\ Goto("ask")
  /\ Unasked /\ UNCHANGED <<g, mode, cnt, rounds>>

(* A round of the loop in main                                              *)
Check ==
  /\ pc \in {"loaded", "check"}
  /\ pc = "loaded" => ~(env.nosilent /\ g.changed)
  /\ rounds' = rounds + 1 /\ cnt' = FALSE /\ stack' = <<Frame("check", Root)>> /\ Goto("ask")
  /\ Unasked /\ UNCHANGED <<g, mode, rootEntry>>

(* The loop goes on while something was asked; after the first pass of      *)
(* oldaskconfig it begins.                                                  *)
EndRound ==
  /\ pc = "ask" /\ stack = <<>>
  /\ mode' = IF mode = "oldaskconfig" THEN "silentoldconfig" ELSE mode
  /\ Goto(CASE mode = "oldaskconfig" \/ cnt -> "check"
            [] ~cnt /\ mode = "listnewconfig" -> "done"
            [] OTHER -> IF env.sync THEN "sync" ELSE "write")
  /\ Unasked /\ UNCHANGED <<g, stack, rootEntry, cnt, rounds>>

RECURSIVE menu_get_parent_menu(_)
menu_get_parent_menu(m) ==
  IF m = Root \/ Menu(m).prompt = "menu" THEN m ELSE menu_get_parent_menu(Menu(m).up)

(* check_conf: conf is called for the whole menu of a symbol that is new.   *)
VisitCheck ==
  /\ Asking("check", "visit")
  /\ \E v \in {menu_is_visible(g, Top.menu)} :
     LET isNew == IF M.sym = "" \/ M.sym \in v.g.user THEN FALSE
                  ELSE \/ sym_is_changable(v.g, M.sym)
                       \/ IsChoice(M.sym) /\ v.g.tri[M.sym] = 2
         asks == v.yes /\ isNew /\ ~NoAsking
         root == menu_get_parent_menu(Top.menu)
     IN /\ g' = v.g
        /\ stack' = IF ~v.yes THEN Pop
                    ELSE IF asks THEN Append(Move("kids"), Frame("conf", root)) ELSE Move("kids")
        /\ cnt' = (cnt \/ asks)
        /\ rootEntry' = IF asks THEN root ELSE rootEntry
  /\ Unasked /\ UNCHANGED <<pc, mode, rounds>>

(* The entries below, in both functions                                     *)
Kids ==
  /\ pc = "ask" /\ stack # <<>> /\ Top.at = "kids"
  /\ stack' = IF Top.i < Len(M.list)
              THEN Append([stack EXCEPT ![Len(stack)].i = @ + 1], Frame(Top.fn, M.list[Top.i + 1]))
              ELSE Pop
  /\ Unasked /\ UNCHANGED <<g, pc, mode, rootEntry, cnt, rounds>>

(* conf. Another menu than the one it was called for is left to check_conf, *)
(* except in oldconfig.                                                     *)
VisitConf ==
  /\ Asking("conf", "visit")
  /\ \E v \in {menu_is_visible(g, Top.menu)} :
     LET elsewhere == M.prompt = "menu" /\ mode = "silentoldconfig" /\ rootEntry # Top.menu
     IN /\ g' = v.g
        /\ stack' = IF ~v.yes THEN Pop
                    ELSE IF elsewhere THEN Append(Pop, Frame("check", Top.menu))
                    ELSE IF M.sym = "" THEN Move("kids")
                    ELSE [Move("ask") EXCEPT ![Len(stack)].isNew = M.sym \notin v.g.user]
  /\ Unasked /\ UNCHANGED <<pc, mode, rootEntry, cnt, rounds>>

(* What follows a symbol that was dealt with: its entries; for a choice,    *)
(* that depends on its value.                                               *)
After(h) ==
  IF ~IsChoice(M.sym) THEN Move("kids")
  ELSE CASE h.tri[M.sym] = 0 -> Pop [] h.tri[M.sym] = 1 -> Move("kids") [] OTHER -> Move("which")

(* conf_askvalue asks for what can be changed and, in oldconfig, is new.    *)
Asked == sym_is_changable(g, M.sym) /\ ~(AskNew /\ M.sym \in g.user)

Pass ==
  /\ Asking("conf", "ask") /\ ~Asked
  /\ stack' = After(g)
  /\ Unasked /\ UNCHANGED <<g, pc, mode, rootEntry, cnt, rounds>>

CanAsk == env.sync => env.tty

(* The values of a choice that conf_choice lists, as menus                  *)
Listing(v, list, m) ==
  [g |-> v.g, list |-> IF v.yes /\ Menu(m).sym # "" THEN Append(list, m) ELSE list]
Shown ==
  FoldLeft(LAMBDA r, m : Listing(menu_is_visible(r.g, m), r.list, m),
           [g |-> g, list |-> <<>>], M.list)
AskedWhich(list) == Len(list) # 1 /\ ~(AskNew /\ ~Top.isNew)

(* check_stdin: there is nobody to ask.                                     *)
Abort ==
  /\ \/ Asking("conf", "ask") /\ Asked
     \/ Asking("conf", "which") /\ AskedWhich(Shown.list)
  /\ ~CanAsk
  /\ Exit("error")
  /\ UNCHANGED <<disk, env, reported, runs>>

(* conf_sym: the user gives a value that is accepted; nothing is the value  *)
(* there is. Any other answer only leads to the same question.              *)
AnswerTri(v) ==
  /\ Asking("conf", "ask") /\ Asked /\ CanAsk /\ ~IsText(M.sym)
  /\ CanSetTri(g, M.sym, v)
  /\ \E h \in {SetTri(g, M.sym, v)} :
     \E k \in {IF IsChoice(M.sym) THEN sym_calc_value(h, M.sym) ELSE h} :
       g' = k /\ stack' = After(k)
  /\ Unasked /\ UNCHANGED <<pc, mode, rootEntry, cnt, rounds>>

(* conf_string: a text, or nothing for the one there is                     *)
AnswerText(t) ==
  /\ Asking("conf", "ask") /\ Asked /\ CanAsk /\ IsText(M.sym)
  /\ sym_string_within_range(g, M.sym, t)
  /\ g' = SetText(g, M.sym, t)
  /\ stack' = Move("kids")
  /\ Unasked /\ UNCHANGED <<pc, mode, rootEntry, cnt, rounds>>

(* conf_choice: the value the user picks, the only one there is, or the one *)
(* that is chosen. Its entries come next.                                   *)
PickValue(m) ==
  /\ Asking("conf", "which")
  /\ \E r \in {Shown} :
     LET s == Menu(m).sym
     IN /\ AskedWhich(r.list) => CanAsk
        /\ Contains(r.list, m)
        /\ AskedWhich(r.list) \/ Len(r.list) = 1 \/ r.g.chosen[M.sym] = s
        /\ g' = IF CanSetTri(r.g, s, 2) THEN SetTri(r.g, s, 2) ELSE r.g
        /\ stack' = Append(Pop, [Frame("conf", m) EXCEPT !.at = "kids"])
  /\ Unasked /\ UNCHANGED <<pc, mode, rootEntry, cnt, rounds>>

(***************************************************************************)
(* Writing                                                                 *)
(***************************************************************************)
Writing == UNCHANGED <<mode, env, code, stack, rootEntry, cnt, reported, runs, rounds>>

(* The end of silentoldconfig: .config only if something changed            *)
SyncEnd ==
  /\ pc = "sync"
  /\ Goto(IF g.changed THEN "write" ELSE "auto")
  /\ Writing /\ UNCHANGED <<g, disk, at>>

Target == IF env.overwrite THEN "config" ELSE "tmp"

Open ==
  /\ pc = "write"
  /\ files' = [files EXCEPT ![Target] = Begun]
  /\ Goto("fill")
  /\ Writing /\ UNCHANGED <<g, touched, at>>

Fill ==
  /\ pc = "fill"
  /\ \E r \in {conf_write(g)} :
        /\ g' = r.g
        /\ files' = [files EXCEPT ![Target] = File(r.lines)]
  /\ Goto(IF env.overwrite THEN "written" ELSE "backup")
  /\ Writing /\ UNCHANGED <<touched, at>>

(* rename(".config", ".config.old"), whose failure does not matter          *)
Backup ==
  /\ pc = "backup"
  /\ files' = IF files["config"].there
              THEN [files EXCEPT !["old"] = files["config"], !["config"] = NoFile] ELSE files
  /\ Goto("rename")
  /\ Writing /\ UNCHANGED <<g, touched, at>>

Rename ==
  /\ pc = "rename"
  /\ files' = [files EXCEPT !["config"] = files["tmp"], !["tmp"] = NoFile]
  /\ Goto("written")
  /\ Writing /\ UNCHANGED <<g, touched, at>>

Written ==
  /\ pc = "written"
  /\ g' = [g EXCEPT !.changed = FALSE]
  /\ Goto(IF env.sync THEN "auto" ELSE "done")
  /\ Writing /\ UNCHANGED <<disk, at>>

(* conf_write_defconfig                                                     *)
Save ==
  /\ pc = "save"
  /\ \E r \in {conf_write_defconfig(g)} :
       g' = r.g /\ files' = [files EXCEPT !["saved"] = File(r.lines)]
  /\ Goto("done")
  /\ Writing /\ UNCHANGED <<touched, at>>

(* conf_write_autoconf. conf_split_config first reads auto.conf, which      *)
(* makes every value invalid, and adds the names it does not know.          *)
Split ==
  /\ pc = "auto"
  /\ g' = sym_calc_value([sym_clear_all_valid(g) EXCEPT !.valid = {}], Kconfig.modules)
  /\ at' = 1 /\ Goto("touch")
  /\ Writing /\ UNCHANGED disk

Unknown == SelectSeq([k \in DOMAIN files["auto"].lines |-> files["auto"].lines[k].name],
                     LAMBDA s : s \notin All)
ToTouch == SelectSeq(Kconfig.order, LAMBDA s : ~IsChoice(s)) \o Unknown

Touch ==
  /\ pc = "touch" /\ at <= Len(ToTouch)
  /\ LET s == ToTouch[at]
     IN \E h \in {sym_calc_value(g, s)} :
        /\ g' = h
        /\ touched' = IF Touches(h, files["auto"].lines, s) THEN touched \cup {s} ELSE touched
  /\ at' = at + 1
  /\ Writing /\ UNCHANGED <<files, pc>>

(* The three temporary files                                                *)
WriteAuto ==
  /\ pc = "touch" /\ at > Len(ToTouch)
  /\ \E r \in {Auto(g)} :
       g' = r.g /\ files' = [files EXCEPT !["tmpauto"] = File(r.lines)]
  /\ Goto("header")
  /\ Writing /\ UNCHANGED <<touched, at>>

RenameHeader ==
  /\ pc = "header"
  /\ files' = [files EXCEPT !["header"] = files["tmpauto"]]
  /\ Goto("tristate")
  /\ Writing /\ UNCHANGED <<g, touched, at>>

RenameTristate ==
  /\ pc = "tristate"
  /\ files' = [files EXCEPT !["tristate"] = TristatesOf(files["tmpauto"])]
  /\ Goto("renameauto")
  /\ Writing /\ UNCHANGED <<g, touched, at>>

(* "This must be the last step"                                             *)
RenameAuto ==
  /\ pc = "renameauto"
  /\ files' = [files EXCEPT !["auto"] = files["tmpauto"], !["tmpauto"] = NoFile]
  /\ touched' = {}
  /\ Goto("done")
  /\ Writing /\ UNCHANGED <<g, at>>

Finish ==
  /\ pc = "done"
  /\ Exit("ok")
  /\ UNCHANGED <<disk, env, reported, runs>>

(* A file cannot be opened, or renamed.                                     *)
IOError ==
  /\ pc \in {"write", "rename", "save", "touch", "header", "tristate", "renameauto"}
  /\ Exit("error")
  /\ UNCHANGED <<disk, env, reported, runs>>

Killed ==
  /\ pc # "exit"
  /\ Exit("killed")
  /\ UNCHANGED <<disk, env, reported, runs>>

(* The text an empty answer stands for                                      *)
Current == IF Asking("conf", "ask") /\ IsText(M.sym) THEN {g.text[M.sym]} ELSE {}

conf ==
  \/ AskAll \/ Check \/ EndRound \/ VisitCheck \/ Kids \/ VisitConf \/ Pass \/ Abort
  \/ \E v \in 0..2 : AnswerTri(v)
  \/ \E t \in Answers \cup Current : AnswerText(t)
  \/ \E m \in Menus : PickValue(m)

Step ==
  \/ Read \/ Refuse \/ SetAll \/ Randomize \/ conf
  \/ SyncEnd \/ Open \/ Fill \/ Backup \/ Rename \/ Written \/ Save
  \/ Split \/ Touch \/ WriteAuto \/ RenameHeader \/ RenameTristate \/ RenameAuto \/ Finish

Next == (Start \/ Step \/ IOError \/ Killed) /\ UNCHANGED world

Spec == Init /\ [][Next]_vars

(***************************************************************************)
(* Properties                                                              *)
(***************************************************************************)
Refreshed(h) == CalcAll([h EXCEPT !.valid = {}], Kconfig.order)
Agree(h, k) == \A s \in All : h.tri[s] = k.tri[s] /\ h.text[s] = k.text[s]

(* The type invariant. A boolean is never m, whatever is read, asked for,   *)
(* selected or depended on (the promotions of sym_calc_value), and conf     *)
(* recurses no deeper than the menus, check_conf and conf taking turns.     *)
TypeOK ==
  /\ pc \in {"exit", "read", "loaded", "set", "askall", "check", "ask", "sync", "write", "fill",
             "backup", "rename", "written", "save", "auto", "touch", "header", "tristate",
             "renameauto", "done"}
  /\ \A s \in All : /\ g.tri[s] \in 0..2 /\ g.visible[s] \in 0..2
                     /\ TypeOf(s) = "boolean" => g.tri[s] # 1
  /\ Len(stack) <= 2 * Len(Kconfig.menus)

(* Two things leave values behind that a new calculation changes: a number  *)
(* out of range that conf_read drops (confdata.c:459), and sym_calc_choice, *)
(* which makes a choice new that it has just calculated from the user's     *)
(* value: calculated again, a tristate choice is m instead of y.            *)
Dropped(h) == \E c \in All : IsChoice(c) /\ TypeOf(c) = "tristate" /\ c \notin h.user /\ h.def[c] = 2
Settled == ~reported /\ ~g.stale /\ ~Dropped(g)

(* A value that is marked SYMBOL_VALID is the one a new calculation gives:  *)
(* nothing changes what it depends on without clearing the mark, in reading, *)
(* asking, setting and writing.                                             *)
CacheCoherent ==
  Settled => \A s \in g.valid :
    \E h \in {sym_calc_value([g EXCEPT !.valid = {}], s)} :
       h.tri[s] = g.tri[s] /\ h.text[s] = g.text[s] /\ h.visible[s] = g.visible[s]

(* A choice that is y has exactly one value that is y: one that can be      *)
(* seen, whatever .config and the user say (sym_calc_choice).               *)
OneChosen ==
  \A c \in All : IsChoice(c) /\ c \in g.valid /\ g.tri[c] = 2 =>
    \E h \in {CalcAll(g, Decl(c).values)} :
       Cardinality({s \in ToSet(Decl(c).values) : h.tri[s] = 2}) = 1

(* When conf stops asking nothing is left to ask for: an answer may make    *)
(* symbols visible in a menu that was done (main's loop).                   *)
NothingNewLeft ==
  pc \in {"sync", "write"} /\ AskNew /\ ~reported =>
    \A m \in Menus : \A v \in {menu_is_visible(g, m)} :
                         v.yes /\ Menu(m).sym # "" =>
                           Menu(m).sym \in v.g.user \/ ~sym_is_changable(v.g, Menu(m).sym)

(* A .config that was written gives the same values when it is read, and    *)
(* nothing in it is wrong or out of date. Only "is not set" of a value of a *)
(* choice may be left over, whose SYMBOL_WRITE nothing but conf_write       *)
(* clears.                                                                  *)
RoundTrip ==
  pc = "written" /\ Settled =>
    \E h \in {conf_read(Fresh, files["config"].lines)} :
    LET Leftover(s) == IsValue(s) /\ h.visible[s] = 0 /\ UnsetLine(s) \in ToSet(files["config"].lines)
    IN /\ Agree(Refreshed(h), g) /\ ~h.warned
       /\ h.unsaved => \E s \in All : Leftover(s)

(* conf --defconfig of what conf --savedefconfig saved gives the values     *)
(* that were saved: what conf_write_defconfig leaves out is the default.    *)
DefconfigRestores ==
  pc = "done" /\ mode = "savedefconfig" /\ Settled =>
    Agree(Refreshed(SetChoices(Keep(conf_read(Fresh, files["saved"].lines)))), Refreshed(g))

(* Values of a choice that name the choice itself do not count.             *)
Group(s) == IF IsValue(s) THEN Decl(s).choice ELSE s
Edges ==
  {<<Group(s), Group(t)>> : <<s, t>> \in {e \in All \X All :
      Contains(Needs(e[1]), e[2]) /\ e[2] # Decl(e[1]).choice}}
RECURSIVE Leads(_)
Leads(S) ==
  LET more == S \cup {e[2] : e \in {d \in Edges : d[1] \in S}}
  IN IF more = S THEN S ELSE Leads(more)

(* sym_check_deps reports a recursive dependency exactly if there is one,   *)
(* in whatever order the symbols are visited, a choice being one with its   *)
(* values.                                                                  *)
CyclesReported ==
  pc = "read" =>
    reported = \E s \in All : \E e \in Edges : e[1] = s /\ s \in Leads({e[2]})

(* Unless it is to be overwritten, there is a complete configuration at     *)
(* every moment, in .config or .config.old, once there has been one.        *)
ConfigKept ==
  ~env'.overwrite /\ (files["config"].whole \/ files["old"].whole)
    => files'["config"].whole \/ files'["old"].whole

SetLines(f) == {l \in ToSet(f.lines) : l.set}

(* auto.conf is replaced last: autoconf.h and tristate.conf are those of    *)
(* the same configuration then, and it is the one in .config ("This must be *)
(* the last step", confdata.c:1021).                                        *)
AutoLast ==
  files'["auto"] # files["auto"] /\ Settled =>
    /\ files'["header"] = files'["auto"]
    /\ SetLines(files'["tristate"]) = {l \in SetLines(files'["auto"]) : TypeOf(l.name) = "tristate"}
    /\ SetLines(files'["auto"]) = SetLines(files'["config"])

(* When auto.conf is replaced, the file of every symbol whose line changed  *)
(* was touched, in this process or in one that was killed before.           *)
RebuildsWhatChanged ==
  files'["auto"] # files["auto"] =>
    \A s \in All : {l \in SetLines(files["auto"]) : l.name = s}
                         # {l \in SetLines(files'["auto"]) : l.name = s} => s \in touched

(* An answer conf accepts is the value the symbol then has, a text as it    *)
(* was typed or with 0x before it, and the value of a choice that is picked *)
(* is the one that is chosen. This is of the values as they are cached: a   *)
(* choice that may be m and loses its mark in sym_calc_choice has another   *)
(* value when it is calculated the next time.                               *)
AnswerTaken ==
  [][LET h == CalcAll(g', Kconfig.order)
     IN /\ \A v \in 0..2 : AnswerTri(v) => h.tri[M.sym] = v
        /\ \A t \in Answers \cup Current :
             AnswerText(t) => h.text[M.sym] \in {t, <<"0", "x">> \o t}
        /\ \A m \in Menus : PickValue(m) => h.chosen[M.sym] = Menu(m).sym]_vars

(* main's loop, and that of randconfig, come to an end: every round gives   *)
(* at least one symbol a value that was new. Answers that make other        *)
(* symbols new again, and choices that lose their mark in sym_calc_choice,  *)
(* do not keep it going.                                                    *)
LoopEnds == rounds <= Cardinality(All) + 1

(* The values conf works with are right at every moment: of their type, the *)
(* ones a new calculation gives (SYMBOL_VALID), one value for each choice.  *)
ValuesRight == TypeOK /\ CacheCoherent /\ OneChosen

(* What conf writes, as .config or as a minimal defconfig, gives the same   *)
(* values when it is read (conf_write, conf_write_defconfig, conf_read).    *)
SavedIsRestored == RoundTrip /\ DefconfigRestores

(* The loop that asks ends, and ends only when there is nothing left to ask *)
(* (main, randomize_choice_values).                                         *)
AskingEnds == LoopEnds /\ NothingNewLeft

(* Wherever the program is killed, there is a complete .config or           *)
(* .config.old, auto.conf is replaced last, and what changed was touched    *)
(* (conf_write, conf_split_config, conf_write_autoconf).                    *)
FilesInOrder == [][ConfigKept /\ AutoLast /\ RebuildsWhatChanged]_vars
=============================================================================
