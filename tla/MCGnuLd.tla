------------------------------- MODULE MCGnuLd -------------------------------
(***************************************************************************)
(* Links for GnuLd. The scripts are written as trees; the writer below     *)
(* spells them as their author would, with the parentheses C needs, and a  *)
(* script of the disk carries its tree as cmds.                            *)
(***************************************************************************)
EXTENDS GnuLd, TLC

CONSTANT Links
Init == \E l \in Links : Start(l)
Spec == Init /\ [][Next]_vars

-----------------------------------------------------------------------------
(* The writer *)

Text(tokens) == FlattenSeq([i \in DOMAIN tokens |-> tokens[i] \o <<" ">>])
RECURSIVE Decimal(_)
Decimal(n) == IF n < 10 THEN <<Digits[n + 1]>> ELSE Decimal(n \div 10) \o Decimal(n % 10)

Level == [Mul |-> 3, Div |-> 3, Sum |-> 4, Sub |-> 4, Shl |-> 5, Shr |-> 5,
          CompareLess |-> 6, CompareGreater |-> 6, CompareLessEqual |-> 6,
          CompareGreaterEqual |-> 6, CompareEqual |-> 7, CompareDifferent |-> 7,
          And |-> 8, Or |-> 10]
Sign == [Mul |-> <<"*">>, Div |-> <<"/">>, Sum |-> <<"+">>, Sub |-> <<"-">>,
         Shl |-> <<"<", "<">>, Shr |-> <<">", ">">>, CompareLess |-> <<"<">>,
         CompareGreater |-> <<">">>, CompareLessEqual |-> <<"<", "=">>,
         CompareGreaterEqual |-> <<">", "=">>, CompareEqual |-> <<"=", "=">>,
         CompareDifferent |-> <<"!", "=">>, And |-> <<"&">>, Or |-> <<"|">>]
LevelOf(e) == CASE e.kind = "BinOp" -> Level[e.op] [] e.kind = "TernaryConditional" -> 13
                [] OTHER -> 1
RECURSIVE WriteAt(_, _)
WriteAt(e, level) ==
    LET t == CASE e.kind = "Constant" -> Decimal(e.num)
               [] e.kind = "Symbol" -> e.name
               [] e.kind = "Unary" -> Text(<<IF e.op = "Minus" THEN <<"-">> ELSE <<"~">>,
                                             WriteAt(e.child, 1)>>)
               [] e.kind = "FunctionCall" ->
                    Text(<<e.name, <<"(">>>>
                         \o [i \in 1..(2 * Len(e.args) - 1) |->
                                IF i % 2 = 1 THEN WriteAt(e.args[(i + 1) \div 2], 13) ELSE <<",">>]
                         \o <<<<")">>>>)
               [] e.kind = "BinOp" ->
                    Text(<<WriteAt(e.lhs, Level[e.op]), Sign[e.op],
                           WriteAt(e.rhs, Level[e.op] - 1)>>)
               [] e.kind = "TernaryConditional" ->
                    Text(<<WriteAt(e.cond, 12), <<"?">>, WriteAt(e.t, 13), <<":">>,
                           WriteAt(e.f, 13)>>)
    IN  IF LevelOf(e) > level THEN Text(<<<<"(">>, t, <<")">>>>) ELSE t
WriteExpr(e) == WriteAt(e, 13)

Call(word, text) == Text(<<<<word>>, <<"(">>, text, <<")">>>>)
WriteAssignment(c) ==
    LET t == Text(<<c.symbol, <<"=">>, WriteExpr(c.expr)>>)
    IN  CASE c.visibility = "Default" -> t [] c.visibility = "Provide" -> Call("PROVIDE", t)
          [] c.visibility = "Hidden" -> Call("HIDDEN", t)
          [] c.visibility = "ProvideHidden" -> Call("PROVIDE_HIDDEN", t)
WriteSorted(mode, text) ==
    CASE mode = "NA" -> text [] mode = "None" -> Call("SORT_NONE", text)
      [] mode = "ByName" -> Call("SORT_BY_NAME", text)
      [] mode = "ByAlignment" -> Call("SORT_BY_ALIGNMENT", text)
      [] mode = "ByInitPriority" -> Call("SORT_BY_INIT_PRIORITY", text)
      [] mode = "ByNameAndAlignment" -> Call("SORT_BY_NAME", Call("SORT_BY_ALIGNMENT", text))
      [] mode = "ByAlignmentAndName" -> Call("SORT_BY_ALIGNMENT", Call("SORT_BY_NAME", text))
RECURSIVE WriteInputSection(_)
WriteInputSection(s) ==
    IF s.kind = "SortedGroup"
    THEN WriteSorted(s.sortMode, Text([i \in DOMAIN s.sections |-> WriteInputSection(s.sections[i])]))
    ELSE IF s.excludeFile THEN Call("EXCLUDE_FILE", s.name) ELSE s.name
WriteRule(c) ==
    LET t == Text(<<WriteSorted(c.fileSortMode, c.memberName)>>
                  \o (IF c.archiveName = <<>> THEN <<>>
                      ELSE <<<<":">>, WriteSorted(c.archiveSortMode, c.archiveName)>>)
                  \o (IF c.sections = <<>> THEN <<>>
                      ELSE <<<<"(">>, Text([i \in DOMAIN c.sections |->
                                               WriteInputSection(c.sections[i])]), <<")">>>>))
    IN  IF c.keep THEN Call("KEEP", t) ELSE t
WriteOptional(word, e) == IF e = Null THEN <<>> ELSE Call(word, WriteExpr(e))
WriteStatement(c) == IF c.kind = "SymbolAssignment" THEN WriteAssignment(c) \o <<";">> ELSE WriteRule(c)
WriteDescription(c) ==
    Text(<<IF c.discard THEN <<"/DISCARD/">> ELSE c.name,
           IF c.d.address = Null THEN <<>> ELSE WriteExpr(c.d.address), <<":">>,
           WriteOptional("AT", c.d.at), WriteOptional("ALIGN", c.d.align),
           IF c.d.alignWithInput THEN <<"ALIGN_WITH_INPUT">> ELSE <<>>,
           WriteOptional("SUBALIGN", c.d.subAlign),
           CASE c.d.constraint = "None" -> <<>> [] c.d.constraint = "OnlyIfRO" -> <<"ONLY_IF_RO">>
             [] c.d.constraint = "OnlyIfRW" -> <<"ONLY_IF_RW">>, <<"{">>,
           Text([i \in DOMAIN c.cmds |-> WriteStatement(c.cmds[i])]), <<"}">>,
           IF c.fillExpr = Null THEN <<>> ELSE <<"=", " ">> \o WriteExpr(c.fillExpr)>>)
WritePath(p) ==
    LET t == (IF p.dashL THEN <<"-", "l">> ELSE <<>>) \o p.path
    IN  IF p.asNeeded THEN Call("AS_NEEDED", t) ELSE t
WriteBlock(b) ==
    Text(<<b.name, IF b.attr = <<>> THEN <<>> ELSE Text(<<<<"(">>, b.attr, <<")">>>>), <<":">>,
           <<"ORIGIN">>, <<"=">>, WriteExpr(b.origin), <<",">>,
           <<"LENGTH">>, <<"=">>, WriteExpr(b.length)>>)
Commas(names) == Text([i \in 1..(2 * Len(names) - 1) |->
                          IF i % 2 = 1 THEN names[(i + 1) \div 2] ELSE <<",">>])
RECURSIVE WriteCommand(_)
WriteCommand(c) ==
    CASE c.kind = "Output" -> Call("OUTPUT", c.name)
      [] c.kind = "OutputFormat" -> Call("OUTPUT_FORMAT", Commas(c.names))
      [] c.kind = "OutputArch" -> Call("OUTPUT_ARCH", c.name)
      [] c.kind = "Entry" -> Call("ENTRY", c.name)
      [] c.kind = "SearchDir" -> Call("SEARCH_DIR", c.name)
      [] c.kind = "Extern" -> Call("EXTERN", Text(c.names))
      [] c.kind \in {"Input", "Group"} ->
            Call(IF c.kind = "Input" THEN "INPUT" ELSE "GROUP",
                 Text([i \in DOMAIN c.paths |-> WritePath(c.paths[i])]))
      [] c.kind = "SymbolAssignment" -> WriteAssignment(c) \o <<";">>
      [] c.kind = "OutputSectionDescription" -> WriteDescription(c)
      [] c.kind = "Sections" ->
            Text(<<<<"SECTIONS">>, <<"{">>,
                   Text([i \in DOMAIN c.cmds |-> WriteCommand(c.cmds[i])]), <<"}">>>>)
      [] c.kind = "Memory" ->
            Text(<<<<"MEMORY">>, <<"{">>,
                   Text([i \in DOMAIN c.blocks |-> WriteBlock(c.blocks[i])]), <<"}">>>>)
Script(cmds) == [kind |-> "script", cmds |-> cmds,
                 text |-> Text([i \in DOMAIN cmds |-> WriteCommand(cmds[i])])]
-----------------------------------------------------------------------------
(* What is promised *)

Read == SelectSeq(SubSeq(link.args, 1, argi - 1),
                  LAMBDA a : a.opt = "input" /\ a.v \in DOMAIN link.disk
                             /\ link.disk[a.v].kind = "script")

(* The lexer and the parser give back the tree the author of a script       *)
(* wrote, with C's precedence and the fewest parentheses, whatever order    *)
(* the scripts are read in (LinkerScript.cpp, Lexer and Parser).            *)
ParsedAsWritten == scripts = [i \in DOMAIN Read |-> link.disk[Read[i].v].cmds]

(* The text that dump prints of a script is a script that is parsed to the  *)
(* same tree (the dump functions of LinkerScript.cpp). A file and its       *)
(* archive are left out: the dump has no blanks at their colon, and reads   *)
(* as one name.                                                             *)
NamesAnArchive(c) ==
    /\ c.kind = "Sections"
    /\ \E o \in Range(c.cmds) : /\ o.kind = "OutputSectionDescription"
                               /\ \E r \in Range(o.cmds) : r.kind = "InputSectionsCmd"
                                                          /\ r.archiveName # <<>>
DumpReadsBack ==
    phase = "layout" =>
        \A i \in DOMAIN scripts :
            LET cmds == SelectSeq(scripts[i], LAMBDA c : ~NamesAnArchive(c))
            IN  Parse(DumpScript(cmds)) = [ok |-> TRUE, cmds |-> cmds]

(* The rules and the assignments of the SECTIONS commands as written. *)
Written ==
    LET Items(c) == CASE c.kind = "SymbolAssignment" -> <<[out |-> <<>>, c |-> c]>>
                      [] c.kind = "OutputSectionDescription" ->
                            [i \in DOMAIN c.cmds |-> [out |-> c.name, c |-> c.cmds[i]]]
                      [] OTHER -> <<>>
        Commands(c) == IF c.kind = "Sections" THEN FlattenSeq([i \in DOMAIN c.cmds |-> Items(c.cmds[i])])
                       ELSE <<>>
        cmds == FlattenSeq([i \in DOMAIN Read |-> link.disk[Read[i].v].cmds])
    IN  FlattenSeq([i \in DOMAIN cmds |-> Commands(cmds[i])])
RECURSIVE Glob(_, _)
Glob(p, n) ==
    IF p = <<>> THEN n = <<>>
    ELSE IF p[1] = "*" THEN \E k \in 0..Len(n) : Glob(Tail(p), Drop(n, k))
    ELSE n # <<>> /\ (p[1] = "?" \/ p[1] = n[1]) /\ Glob(Tail(p), Tail(n))
Names(rule) == UNION {IF s.kind = "SortedGroup" THEN {t.name : t \in Range(s.sections)}
                      ELSE {s.name} : s \in Range(rule.sections)}
Takes(item, key) ==
    /\ item.c.kind = "InputSectionsCmd"
    /\ Glob(item.c.archiveName, key.archive) /\ Glob(item.c.memberName, key.member)
    /\ \E n \in Names(item.c) : Glob(n, key.name)
(* The place of the rule of a section, 0 for none; a rule that names the    *)
(* file goes before the patterns.                                           *)
PlaceOf(key) ==
    LET hits == {i \in DOMAIN Written : Takes(Written[i], key)}
        named == {i \in hits : Written[i].c.memberName = key.member}
    IN  IF hits = {} THEN 0 ELSE Min(IF named = {} THEN hits ELSE named)
Grouped_(item) == \E s \in Range(item.c.sections) : s.kind = "SortedGroup" /\ s.sortMode = "ByName"

(* Input sections are in the order of the rules that take them and in the   *)
(* output sections these belong to; a group sorted by name is sorted; a     *)
(* section no rule takes stays with its like (Sema::less, getOutputSection, *)
(* TargetLayout::sortInputSections).                                        *)
SectionsFollowTheScript ==
    phase = "segments" =>
        LET place == [i \in DOMAIN sections |-> PlaceOf(sections[i].key)]
        IN  /\ \A i \in DOMAIN sections :
                   IF place[i] # 0 THEN sections[i].out = Written[place[i]].out
                   ELSE (\E j \in 1..(i - 1) : sections[j].type = sections[i].type) =>
                            sections[i - 1].type = sections[i].type
            /\ \A i, j \in DOMAIN sections :
                   i < j /\ place[i] # 0 /\ place[j] # 0 =>
                       /\ place[i] <= place[j]
                       /\ place[i] = place[j] /\ Grouped_(Written[place[i]])
                          /\ sections[i].key.member = sections[j].key.member
                          => link.rank[sections[i].key.name] <= link.rank[sections[j].key.name]

(* An assignment of a SECTIONS command is evaluated at one place, behind    *)
(* all that the rules before it took and in front of all that the rules     *)
(* after it took in its segment, and a symbol set to "." has that address   *)
(* (Sema::getExprs, ExpressionChunk, Segment::assignVirtualAddress).        *)
AssignmentsInOrder ==
    LET At_(c) == {ki \in UNION {{<<k, i>> : i \in DOMAIN segments[k]} : k \in DOMAIN segments} :
                      /\ segments[ki[1]][ki[2]].kind = "expr"
                      /\ segments[ki[1]][ki[2]].assgn = c}
        Around(w, ki) ==
            LET e == segments[ki[1]][ki[2]]
            IN  \A s \in Range(segments[ki[1]]) :
                    s.kind = "section" /\ PlaceOf(s.sec.key) # 0 =>
                        IF PlaceOf(s.sec.key) < w THEN s.addr + s.sec.size <= e.addr
                        ELSE e.addr <= s.addr
    IN  phase = "done" /\ sections # <<>> =>
            \A w \in DOMAIN Written :
                LET c == Written[w].c
                IN  c.kind = "SymbolAssignment" =>
                        \E ki \in At_(c) :
                            /\ At_(c) = {ki} /\ Around(w, ki)
                            /\ c.symbol # Dot /\ c.expr = Symbol(Dot) =>
                                  sema.symbols[c.symbol] = segments[ki[1]][ki[2]].addr

(* A marker "returns the number of files between the corresponding         *)
(* --start-group and this marker" (Node.h:40), and the resolver goes back   *)
(* over as many nodes. With groups inside a group, files that are missing,  *)
(* archives taken whole and scripts between the brackets, a marker of the   *)
(* command line counts the files this gives between its own brackets, each  *)
(* member of an archive taken whole for itself; so it never leads back to   *)
(* what was given before its start, and it leads back to its start if there *)
(* is nothing else between them. A GROUP of a script leads back over its    *)
(* own files and nothing else (GnuLdDriver.cpp:672-722, 300-308).           *)
Opts(opt, from, to) == {a \in from..to : link.args[a].opt = opt}
Balanced(from, to) == Cardinality(Opts("start_group", from, to)) = Cardinality(Opts("end_group", from, to))
StartOf(end) == Max({s \in Opts("start_group", 1, end - 1) : Balanced(s + 1, end - 1)})
Between(end) == {n \in DOMAIN ctx.nodes : StartOf(end) < ctx.nodes[n].arg /\ ctx.nodes[n].arg < end}
FromScript(n) == LET a == link.args[ctx.nodes[n].arg]
                 IN  a.opt = "input" /\ a.v \in DOMAIN link.disk /\ link.disk[a.v].kind = "script"
FilesBetween(end) == {n \in Between(end) : ctx.nodes[n].kind = "file" /\ ~FromScript(n)}
GroupsOf(script) == SelectSeq(script, LAMBDA c : c.kind = "Group")
Span(g) == (g - ctx.nodes[g].size)..(g - 1)
MarkerHoldsItsFiles(g) ==
    LET end == ctx.nodes[g].arg
    IN  /\ ctx.nodes[g].size = Cardinality(FilesBetween(end))
        /\ Span(g) \subseteq Between(end)
        /\ Between(end) = FilesBetween(end) => Span(g) = Between(end)
ScriptGroupHoldsItsFiles(g) ==
    LET arg == ctx.nodes[g].arg
        nth == Cardinality({m \in 1..g : ctx.nodes[m].arg = arg /\ ctx.nodes[m].kind = "group"})
        paths == GroupsOf(link.disk[link.args[arg].v].cmds)[nth].paths
    IN  /\ ctx.nodes[g].size = Len(paths)
        /\ \A n \in Span(g) : ctx.nodes[n].arg = arg /\ ctx.nodes[n].kind \in {"file", "error"}
GroupsHoldTheirFiles ==
    \A g \in DOMAIN ctx.nodes : ctx.nodes[g].kind = "group" =>
        IF FromScript(g) THEN ScriptGroupHoldsItsFiles(g) ELSE MarkerHoldsItsFiles(g)

(* The resolver goes back over all that was given between the brackets. It  *)
(* does NOT: with a group or a script inside, the first files are left out, *)
(* since files were counted and nodes are gone over (GnuLdDriver.cpp:682,   *)
(* Resolver.cpp:262-266).                                                   *)
GroupsHoldAll ==
    \A g \in DOMAIN ctx.nodes :
        ctx.nodes[g].kind = "group" /\ ~FromScript(g) => Between(ctx.nodes[g].arg) \subseteq Span(g)

(* Sema::getLinkerScriptExprValue asserts that every symbol the scripts     *)
(* define has been given a value (LinkerScript.cpp:2253).                   *)
ScriptSymbolsHaveValues == phase # "asserted"

-----------------------------------------------------------------------------
(* Links *)

Arg_(opt, v) == [opt |-> opt, v |-> v]
Flag_(opt) == [opt |-> opt, v |-> 0]
In(path) == Arg_("input", path)
Ranks == [n \in {<<".text">>, <<".text", ".a">>, <<".text", ".b">>, <<".data">>, <<".rodata">>,
                 <<".bss">>, <<".init">>} |->
    CASE n = <<".bss">> -> 1 [] n = <<".data">> -> 2 [] n = <<".init">> -> 3
      [] n = <<".rodata">> -> 4 [] n = <<".text">> -> 5 [] n = <<".text", ".a">> -> 6
      [] OTHER -> 7]
Link(args, disk) ==
    [args |-> args, disk |-> disk, page |-> 64, base |-> 256, absolute |-> {"/"},
     elfHeader |-> 8, headers |-> 20, newest |-> FALSE, rank |-> Ranks]

Sec(name, type, flags, size, align) ==
    [name |-> name, type |-> type, flags |-> flags, size |-> size, align |-> align]
Code(name) == Sec(name, "code", {"X"}, 6, 4)
Data == Sec(<<".data">>, "data", {"W"}, 8, 8)
RoData == Sec(<<".rodata">>, "constant", {}, 4, 4)
Bss == Sec(<<".bss">>, "zeroFill", {"W"}, 16, 8)
Object(secs) == [kind |-> "object", sections |-> secs]
Archive(members, needed, secs) ==
    [kind |-> "archive", members |-> members, needed |-> needed, sections |-> secs]
Empty == Object(<<>>)

(* Expressions: every operator, every two levels in both shapes, four       *)
(* operands, conditionals, calls, signs.                                    *)
x == <<"x">>
Num_(n) == Constant(n)
Sym == Symbol(<<"y">>)
OneEach == <<"Mul", "Sum", "Shr", "CompareLess", "CompareDifferent", "And", "Or">>
Others == <<"Div", "Sub", "Shl", "CompareGreater", "CompareLessEqual", "CompareGreaterEqual",
            "CompareEqual">>
Pairs(o) == FlattenSeq([p \in DOMAIN OneEach |->
    <<BinOp(BinOp(Num_(12), o, Sym), OneEach[p], Num_(3)),
      BinOp(Num_(12), OneEach[p], BinOp(Sym, o, Num_(3)))>>])
Fours(o) == [p \in DOMAIN OneEach |->
    BinOp(BinOp(Num_(1), o, Num_(2)), OneEach[p], BinOp(Num_(3), o, Sym))]
Specials == <<
    TernaryConditional(Sym, Num_(1), TernaryConditional(Num_(2), Num_(3), Sym)),
    TernaryConditional(BinOp(Sym, "CompareLess", Num_(2)),
                       TernaryConditional(Num_(1), Num_(4), Num_(5)), Num_(6)),
    BinOp(Num_(1), "Sub", Unary("Minus", Num_(20))), BinOp(Num_(7), "And", Unary("Not", Sym)),
    FunctionCall(<<"f">>, <<Num_(1), BinOp(Sym, "Sum", Num_(2))>>),
    BinOp(FunctionCall(<<"f">>, <<Sym>>), "Mul", Num_(2)) >>
Assign(e) == SymbolAssignment(x, e, "Simple", "Default")
Expressions == {[i \in DOMAIN es |-> Assign(es[i])] :
    es \in {Pairs(OneEach[o]) : o \in DOMAIN OneEach}
           \cup {Fours(OneEach[o]) : o \in DOMAIN OneEach}
           \cup {[o \in DOMAIN Others |-> BinOp(Num_(40), Others[o], Num_(3))], Specials}}

Rule(member, archive, secs) == InputSectionsCmd(member, archive, FALSE, "NA", "NA", secs)
In_(name) == InputSectionName(name, FALSE)
Every == <<"*">>
All(secs) == Rule(Every, <<>>, secs)
Out(name, cmds) == OutputSectionDescription(name, FALSE, NoDescription, NoFill, cmds)
Set(name, e) == SymbolAssignment(name, e, "Simple", "Default")
Here == Symbol(Dot)
Mark(name) == Set(<<name>>, Here)

(* Every command, and every part of a description. *)
Statements == {
    <<Output(<<"a.exe">>), OutputFormat(<<<<"elf32">>, <<"big">>, <<"little">>>>),
      OutputArch(<<"or1k">>), Entry(<<"main">>), SearchDir(<<"dir">>),
      Extern(<<<<"u">>, <<"v">>>>), Memory(<<
        MemoryBlock(<<"rom">>, <<"rx">>, Num_(0), BinOp(Num_(4), "Mul", Num_(16))),
        MemoryBlock(<<"ram">>, <<>>, Num_(64), Num_(32))>>)>>,
    <<PathList("Input", <<Path(<<"b.o">>, FALSE, FALSE), Path(<<"m">>, FALSE, TRUE),
                          Path(<<"b.o">>, TRUE, FALSE)>>),
      PathList("Group", <<Path(<<"b.o">>, FALSE, FALSE)>>)>>,
    <<SymbolAssignment(x, Num_(1), "Simple", "Provide"),
      SymbolAssignment(x, Num_(1), "Simple", "Hidden"),
      SymbolAssignment(x, Num_(1), "Simple", "ProvideHidden")>>,
    <<Sections(<<
        OutputSectionDescription(<<".text">>, FALSE,
            [address |-> Num_(8), at |-> Num_(16), align |-> Num_(4), alignWithInput |-> FALSE,
             subAlign |-> Num_(2), constraint |-> "OnlyIfRO"], [expr |-> Num_(7), stream |-> <<>>],
            <<InputSectionsCmd(Every, <<>>, TRUE, "NA", "NA", <<In_(<<".init">>)>>),
              InputSectionsCmd(Every, <<>>, FALSE, "ByName", "NA", <<In_(<<".text", ".*">>)>>),
              Rule(<<"b.o">>, <<>>, <<InputSectionName(<<"c.o">>, TRUE), In_(<<".text">>)>>)>>),
        OutputSectionDescription(<<>>, TRUE, NoDescription, NoFill, <<All(<<In_(<<".note">>)>>)>>)
        >>), Sections(<<Out(<<".lib">>, <<Rule(Every, <<"lib", "*">>, <<In_(<<".lib">>)>>)>>)>>)>>,
    <<Sections(<<Out(<<".data">>, [m \in 1..6 |-> All(<<SortedGroup(
        <<"ByName", "ByAlignment", "ByInitPriority", "ByNameAndAlignment", "ByAlignmentAndName",
          "None">>[m], <<In_(<<".data">>), In_(<<".data", ".*">>)>>)>>)])>>)>> }

ScriptLinks == {Link(<<In(<<"s.ld">>), In(<<"b.o">>)>>,
                     (<<"s.ld">> :> Script(cmds)) @@ (<<"b.o">> :> Empty)
                     @@ (<<"/usr/lib", "/", "lib", "m", ".so">> :> Empty)) :
                    cmds \in Expressions \cup Statements}

(* Layouts: two objects and an archive. *)
Objects == (<<"a.o">> :> Object(<<Code(<<".text">>), Data, Bss, Code(<<".text", ".b">>)>>))
        @@ (<<"b.o">> :> Object(<<Code(<<".text", ".a">>), Code(<<".init">>), Code(<<".text">>), RoData, Data>>))
        @@ (<<"libc.a">> :> Archive(<<<<"m.o">>, <<"n.o">>>>, {<<"n.o">>},
                                    <<<<Code(<<".text">>)>>, <<Code(<<".text">>), Data>>>>))
TextRules == {
    <<All(<<In_(<<".text", ".*">>)>>), Mark("mid"), All(<<In_(<<".text">>)>>)>>,
    <<Rule(<<"b.o">>, <<>>, <<In_(<<".text">>)>>), Mark("mid"),
      All(<<In_(<<".text">>)>>), All(<<In_(<<".text", ".*">>)>>)>>,
    <<Set(Dot, BinOp(Here, "Sum", Num_(5))), All(<<SortedGroup("ByName", <<In_(<<".text", ".*">>)>>)>>),
      Set(<<"mid">>, BinOp(Here, "Sub", Num_(1))), All(<<In_(<<".text">>)>>)>>}
Layout(rules) == Sections(<<
    Set(Dot, Num_(600)), Mark("begin"),
    Out(<<".out">>, rules \o <<Rule(Every, <<"libc.a">>, <<In_(<<".text">>)>>)>>),
    Mark("end"), Out(<<".data">>, <<All(<<In_(<<".data">>)>>),
                                    Rule(Every, <<"libc.a">>, <<In_(<<".data">>)>>)>>),
    Set(Dot, BinOp(Here, "Sum", Num_(100))), Mark("bss"),
    Out(<<".bss">>, <<All(<<In_(<<".bss">>)>>)>>)>>)
LayoutLinks == {Link(<<In(<<"s.ld">>), In(f[1]), In(f[2]), In(<<"libc.a">>)>> \o extra,
                     (<<"s.ld">> :> Script(<<Layout(rules)>>)) @@ Objects) :
                    rules \in TextRules, f \in {<<<<"a.o">>, <<"b.o">>>>, <<<<"b.o">>, <<"a.o">>>>},
                    extra \in {<<>>, <<Flag_("nmagic")>>}}

(* Command lines. *)
M == Arg_("l", <<"m">>)
Usr(file) == <<"/usr/lib", "/">> \o file
Files == (<<"a.o">> :> Empty) @@ (<<"b.o">> :> Empty)
      @@ (Usr(<<"lib", "m", ".a">>) :> Archive(<<<<"1.o">>, <<"2.o">>>>, {}, <<<<>>, <<>>>>))
      @@ (<<"s.ld">> :> Script(<<SearchDir(<<"lib">>), Entry(<<"go">>), Extern(<<<<"u">>>>),
            PathList("Group", <<Path(<<"b.o">>, FALSE, FALSE), Path(<<"m">>, FALSE, TRUE)>>)>>))
Bracketed(g) == <<Flag_("start_group")>> \o g \o <<Flag_("end_group")>>
Whole(g) == <<Flag_("whole_archive")>> \o g \o <<Flag_("no_whole_archive")>>
Grouped == {Bracketed(g) :
    g \in {<<M>>, <<In(<<"a.o">>), M>>, <<M, In(<<"b.o">>), M>>, Whole(<<M>>) \o <<In(<<"a.o">>)>>,
           <<Flag_("as_needed"), M, Flag_("no_as_needed"), In(<<"a.o">>)>>}}
(* A group, a missing file or a script with a GROUP of its own inside.      *)
Inside == Grouped \cup {<<In(<<"missing.o">>)>>, <<In(<<"s.ld">>)>>, Whole(<<M>>) \o Bracketed(Whole(<<M>>)),
                        Bracketed(<<In(<<"s.ld">>)>>), Bracketed(<<>>)}
Nested == {Bracketed(before \o inside \o after) :
    before \in {<<>>, <<In(<<"a.o">>), M>>}, inside \in Inside, after \in {<<>>, <<In(<<"b.o">>)>>}}
CommandLines ==
    {<<In(<<"a.o">>)>> \o g : g \in Grouped}
    \cup {g \o <<In(<<"s.ld">>)>> \o g : g \in Grouped}
    \cup {<<Flag_("whole_archive"), M>> \o g \o <<In(<<"b.o">>), Flag_("static")>> : g \in Grouped}
    \cup {<<In(<<"a.o">>)>> \o g \o <<M>> : g \in Nested} \cup {g \o g : g \in Nested}
    \cup {<<In(<<"b.o">>)>> \o Bracketed(g \o g) : g \in Grouped}
    \cup {<<Flag_("start_group"), In(<<"a.o">>)>> \o g : g \in Grouped}
    \cup {<<In(<<"a.o">>), Flag_("end_group")>>, <<In(<<"a.o">>), In(<<"missing.o">>)>>,
          <<In(<<"a.o">>), Arg_("l", <<"missing">>)>>, <<In(<<"a.o">>), Arg_("max_page_size", 65)>>,
          <<In(<<"a.o">>), Arg_("m", "elf_i386")>>,
          <<In(<<"a.o">>), Arg_("m", "or1kle"), Arg_("image_base", 512), Arg_("e", <<"go">>),
            Arg_("u", <<"u">>), Flag_("shared")>>,
          <<Arg_("L", <<"=", "lib">>), Arg_("sysroot", <<"root", "/">>), M>>, <<>>}
CommandLinks == {Link(args, Files) : args \in CommandLines}
MCLinks == ScriptLinks \cup LayoutLinks \cup CommandLinks
TrailingLinks == {Link(l.args, [l.disk EXCEPT ![<<"s.ld">>] =
                      Script(Append(@.cmds, Sections(<<Mark("ebss")>>)))]) : l \in LayoutLinks}

(* A script means to the linker what its author wrote: it is read as       *)
(* written, and what is dumped for the user reads back as the same script. *)
ScriptIsRead == ParsedAsWritten /\ DumpReadsBack

(* Sections, and the addresses that assignments see, are in the order of   *)
(* the script's commands.                                                  *)
ScriptIsFollowed == SectionsFollowTheScript /\ AssignmentsInOrder
=============================================================================
