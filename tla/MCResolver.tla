----------------------------- MODULE MCResolver -----------------------------
(***************************************************************************)
(* Instances of Resolver for TLC: small link lines. Every behaviour starts *)
(* from one of the inputs of the set that the configuration selects.       *)
(***************************************************************************)
EXTENDS Resolver

Atom(definition, name, f) ==
  [definition |-> definition, name |-> name, scope |-> "global",
   merge |-> "no", size |-> 0, canBeNull |-> 0, fallback |-> NoAtom,
   content |-> "c1", readOnly |-> TRUE, file |-> f, group |-> "none"]

Regular(name, f) == Atom("regular", name, f)
Undefined(name, f) == Atom("undefined", name, f)
MayBeNull(name, f, canBeNull) == [Undefined(name, f) EXCEPT !.canBeNull = canBeNull]
WeakExternal(name, other, f) == [Undefined(name, f) EXCEPT !.fallback = Undefined(other, f)]

NoContent ==
  [kind |-> "object", broken |-> FALSE, defined |-> <<>>, undefined |-> <<>>,
   sharedLibrary |-> <<>>, absolute |-> <<>>, symbols |-> [n \in Names |-> NoFile],
   data |-> {}, exports |-> [n \in Names |-> NoAtom], directives |-> <<>>]

Object(defined, undefined) ==
  [NoContent EXCEPT !.defined = defined, !.undefined = undefined]

\* An archive whose members are loaded for the names that symbols maps.
Archive(symbols) ==
  [NoContent EXCEPT !.kind = "archive",
     !.symbols = [n \in Names |-> IF n \in DOMAIN symbols THEN symbols[n] ELSE NoFile]]

Shared(f, exported, undefined) ==
  [NoContent EXCEPT !.kind = "sharedLibrary", !.undefined = undefined,
     !.exports = [n \in Names |->
        IF n \in exported THEN Atom("sharedLibrary", n, f) ELSE NoAtom]]

Node(f) == [file |-> f]
GroupEnd(files) == [groupEnd |-> Cardinality(files), files |-> files]

Ref(kind, target) == [kind |-> kind, target |-> target]
Relocs(targets) == [i \in DOMAIN targets |-> Ref("reloc", targets[i])]

\* Every file that a scenario leaves out is an empty object file.
Input(ns, content, references) ==
  [nodes |-> ns,
   file |-> [f \in Files |-> IF f \in DOMAIN content THEN content[f] ELSE NoContent],
   refs |-> references,
   never |-> {}, roots |-> {}, flags |-> {}]

-----------------------------------------------------------------------------
(***************************************************************************)
(* Archives: main.o uses some of a, b and c, which are defined by two      *)
(* members of lib1 and one of lib2; every member uses any one of them.     *)
(***************************************************************************)
LibNames == {"a", "b", "c"}
MainAtom(f) == Regular(NoName, f)
ArchiveAtoms ==
  {MainAtom("main"), Regular("a", "m1"), Regular("b", "m2"), Regular("c", "m3")}
  \cup {Undefined(n, f) : n \in LibNames, f \in {"main", "m1", "m2", "m3"}}

Uses(names, f) == SetToSeq({Undefined(n, f) : n \in names})

Layouts ==
  LET both == GroupEnd({"lib1", "lib2"}) IN
  {<<Node("main"), Node("lib1"), Node("lib2"), both>>,
   <<Node("main"), Node("lib2"), Node("lib1"), both>>,
   <<Node("main"), Node("lib1"), Node("lib2")>>,
   <<Node("lib1"), Node("main"), Node("lib2"), GroupEnd({"lib1", "main", "lib2"})>>,
   <<Node("main"), Node("lib1"), GroupEnd({"lib1"}), Node("lib2")>>}

ArchiveInput(ns, used, use) ==
  Input(ns,
    [main |-> Object(<<MainAtom("main")>>, Uses(used, "main")),
     lib1 |-> Archive([a |-> "m1", b |-> "m2"]),
     lib2 |-> Archive([c |-> "m3"]),
     m1 |-> Object(<<Regular("a", "m1")>>, Uses(use["m1"], "m1")),
     m2 |-> Object(<<Regular("b", "m2")>>, Uses(use["m2"], "m2")),
     m3 |-> Object(<<Regular("c", "m3")>>, Uses(use["m3"], "m3"))],
    (MainAtom("main") :> Relocs(Uses(used, "main")))
      @@ (Regular("a", "m1") :> Relocs(Uses(use["m1"], "m1")))
      @@ (Regular("b", "m2") :> Relocs(Uses(use["m2"], "m2")))
      @@ (Regular("c", "m3") :> Relocs(Uses(use["m3"], "m3"))))

ArchiveInputs ==
  {ArchiveInput(ns, used, use) :
     ns \in Layouts, used \in {{"a"}, {"b", "c"}},
     use \in [{"m1", "m2", "m3"} -> {{}} \cup {{n} : n \in LibNames}]}

\* The same with libraries that only a .drectve section names: that of main.o,
\* or that of a member, when the search of the group is under way.
DirectiveInputs ==
  {[ArchiveInput(<<Node("main"), Node("lib1"), GroupEnd({"lib1"}), Node("m3")>>, {"a"}, use)
      EXCEPT !.file[where].directives = <<"lib2", "lib1">>,
             !.file["m3"] = NoContent,
             !.file["lib2"] = Archive([c |-> "m4"]),
             !.file["m4"] = Object(<<Regular("c", "m4")>>, Uses(use["m4"], "m4")),
             !.refs = @ @@ (Regular("c", "m4") :> Relocs(Uses(use["m4"], "m4")))] :
     where \in {"main", "m1"},
     use \in [{"m1", "m2", "m3", "m4"} -> {{}} \cup {{n} : n \in LibNames}]}
DirectiveAtoms ==
  ArchiveAtoms \cup {Regular("c", "m4")} \cup {Undefined(n, "m4") : n \in LibNames}

-----------------------------------------------------------------------------
(***************************************************************************)
(* Tentative definitions: main.o and a member of lib1 have a tentative     *)
(* definition of a; another member defines it, as data or not.             *)
(***************************************************************************)
Tentative(name, f, size) == [Regular(name, f) EXCEPT !.merge = "tentative", !.size = size]

TentativeAtoms ==
  {MainAtom("main"), Tentative("a", "main", 1), Tentative("a", "m2", 2),
   Tentative("b", "main", 1), Tentative("b", "m1", 1), Regular("a", "m1"),
   Regular("b", "m3"), Regular("c", "m2")}
  \cup {Undefined(n, f) : n \in {"a", "b", "c"}, f \in {"main", "m1"}}

TentativeInput(mainDefined, mainUses, m1Defined, m1Uses, data, flags) ==
  [Input(<<Node("main"), Node("lib1"), GroupEnd({"lib1"})>>,
     [main |-> Object(<<MainAtom("main")>> \o mainDefined, Uses(mainUses, "main")),
      lib1 |-> [Archive([a |-> "m1", b |-> "m3", c |-> "m2"]) EXCEPT !.data = data],
      m1 |-> Object(<<Regular("a", "m1")>> \o m1Defined, Uses(m1Uses, "m1")),
      m2 |-> Object(<<Tentative("a", "m2", 2), Regular("c", "m2")>>, <<>>),
      m3 |-> Object(<<Regular("b", "m3")>>, <<>>)],
     (MainAtom("main") :> Relocs(mainDefined \o Uses(mainUses, "main")))
       @@ (Regular("a", "m1") :> Relocs(m1Defined \o Uses(m1Uses, "m1"))))
     EXCEPT !.flags = flags]

TentativeInputs ==
  {TentativeInput(defined, mainUses, <<>>, m1Uses, data, flags) :
     defined \in {<<Tentative("a", "main", 1)>>, <<Tentative("b", "main", 1)>>,
                  <<Tentative("a", "main", 1), Tentative("b", "main", 1)>>},
     mainUses \in {{}, {"c"}}, m1Uses \in {{}, {"b"}, {"c"}},
     data \in SUBSET {"a", "b"}, flags \in SUBSET {"archivesOverrideTentative"}}

\* The member that overrides a brings a tentative definition of b.
ChainedTentativeInputs ==
  {TentativeInput(<<Tentative("a", "main", 1)>>, {}, <<Tentative("b", "m1", 1)>>, {},
                  {"a", "b"}, {"archivesOverrideTentative"})}

-----------------------------------------------------------------------------
(***************************************************************************)
(* Shared libraries: main.o uses foo, which may be null, and shared        *)
(* libraries export or need foo and bar; lib1 has members for both, which  *)
(* may fail to load.                                                       *)
(***************************************************************************)
ObjectNames == {"foo", "bar"}
SharedAtoms ==
  {MainAtom("main"), Regular("foo", "m1"), Regular("bar", "m2"), Undefined("bar", "m1")}
  \cup {MayBeNull("foo", "main", c) : c \in 0 .. 2}
  \cup {Atom("sharedLibrary", n, "so") : n \in ObjectNames}
  \cup {Undefined(n, "so") : n \in ObjectNames}

SharedInput(ns, canBeNull, exported, needed, brokenFiles, flags) ==
  LET foo == MayBeNull("foo", "main", canBeNull)
      plain == Input(ns,
        [main |-> Object(<<MainAtom("main")>>, <<foo>>),
         lib1 |-> Archive([foo |-> "m1", bar |-> "m2"]),
         m1 |-> Object(<<Regular("foo", "m1")>>, <<Undefined("bar", "m1")>>),
         m2 |-> Object(<<Regular("bar", "m2")>>, <<>>),
         so |-> Shared("so", exported, Uses(needed, "so"))],
        (MainAtom("main") :> Relocs(<<foo>>))
          @@ (Regular("foo", "m1") :> Relocs(<<Undefined("bar", "m1")>>)))
  IN  [plain EXCEPT !.flags = flags,
         !.file = [f \in Files |-> [plain.file[f] EXCEPT !.broken = f \in brokenFiles]]]

SharedInputs ==
  {SharedInput(ns, canBeNull, exported, needed, brokenFiles, flags) :
     ns \in {<<Node("main"), Node("so"), Node("lib1"), GroupEnd({"so", "lib1"})>>,
             <<Node("main"), Node("lib1"), Node("so")>>},
     canBeNull \in 0 .. 2, exported \in SUBSET ObjectNames, needed \in SUBSET ObjectNames,
     brokenFiles \in {{}, {"lib1"}, {"m2"}},
     flags \in {{}, {"allowShlibUndefines"}, {"allowRemainingUndefines"}}}

\* The shared library comes last in the group and needs bar, which lib1 has.
SharedLastInputs ==
  {SharedInput(<<Node("main"), Node("lib1"), Node("so"), GroupEnd({"lib1", "so"})>>,
               2, {}, {"bar"}, {"m1"}, {})}

\* A tentative definition that a shared library could replace.
SharedTentativeAtoms == SharedAtoms \cup {Tentative("foo", "main", 1)}
SharedTentativeInputs ==
  {[Input(<<Node("main"), Node("so")>>,
      [main |-> Object(<<Tentative("foo", "main", 1)>>, <<>>), so |-> Shared("so", {"foo"}, <<>>)],
      <<>>) EXCEPT !.flags = {"sharedOverrideTentative"}]}

-----------------------------------------------------------------------------
(***************************************************************************)
(* Weak externals: main.o uses foo or else bar. Other files define or use  *)
(* foo and bar; lib1 has members for both.                                 *)
(***************************************************************************)
FallbackAtoms ==
  {MainAtom("main"), WeakExternal("foo", "bar", "main"), Undefined("bar", "main"),
   WeakExternal("foo", "bar", "m3"), Undefined("bar", "m3"), Undefined("foo", "main")}
  \cup {Regular(n, f) : n \in ObjectNames, f \in {"o1", "o2", "m1", "m2"}}
  \cup {Atom("absolute", "bar", f) : f \in {"o1", "o2"}}
  \cup {Undefined(n, f) : n \in ObjectNames, f \in {"o1", "o2"}}

FallbackInput(ns, use, o1, o2, symbols) ==
  Input(ns,
    [main |-> Object(<<MainAtom("main")>>, <<WeakExternal("foo", "bar", "main")>>),
     o1 |-> o1, o2 |-> o2, lib1 |-> Archive(symbols),
     m1 |-> Object(<<Regular("foo", "m1")>>, <<>>),
     m2 |-> Object(<<Regular("bar", "m2")>>, <<>>)],
    MainAtom("main") :> Relocs(<<use>>))

\* What o1.o and o2.o may hold: nothing, a definition or a use of one name.
SmallObjects(f) ==
  {Object(<<>>, <<>>)} \cup {Object(<<Regular(n, f)>>, <<>>) : n \in ObjectNames}
    \cup {Object(<<>>, <<Undefined(n, f)>>) : n \in ObjectNames}
    \cup {[Object(<<>>, <<>>) EXCEPT !.absolute = <<Atom("absolute", "bar", f)>>]}

FallbackInputs ==
  {FallbackInput(ns, WeakExternal("foo", "bar", "main"), o1, o2, symbols) :
     ns \in {<<Node("main"), Node("o1"), Node("lib1"), Node("o2"), GroupEnd({"lib1", "o2"})>>,
             <<Node("o1"), Node("main"), Node("o2"), Node("lib1"), GroupEnd({"lib1"})>>},
     o1 \in SmallObjects("o1"), o2 \in SmallObjects("o2"),
     symbols \in {[bar |-> "m2"], [foo |-> "m1"], [foo |-> "m1", bar |-> "m2"]}}

\* foo is defined after main.o is read, and bar is not defined at all.
LateDefinitionInputs ==
  {FallbackInput(<<Node("main"), Node("o1")>>, WeakExternal("foo", "bar", "main"),
     Object(<<Regular("foo", "o1")>>, <<>>), NoContent, <<>>)}

-----------------------------------------------------------------------------
(***************************************************************************)
(* Section groups: o1.o and o2.o hold a group g with the function x and a  *)
(* file-static atom that x uses. Each file reaches x through an undefined  *)
(* atom. A plain definition of x may compete with that of the groups.      *)
(***************************************************************************)
Group(f, kind) == [Regular("g", f) EXCEPT !.group = kind]
Child(f) == [Regular("x", f) EXCEPT !.merge = "weak"]
Static(f) == [Regular("y", f) EXCEPT !.scope = "translationUnit"]
GroupKinds == {"groupComdat", "gnuLinkOnce"}

GroupAtoms ==
  UNION {{Group(f, "groupComdat"), Group(f, "gnuLinkOnce"), Child(f), Static(f),
          MainAtom(f), Undefined("x", f)} : f \in {"o1", "o2"}}
  \cup {MainAtom("main"), Undefined("x", "main"), Regular("x", "main")}

GroupObject(f, kind) == Object(<<Group(f, kind), MainAtom(f)>>, <<Undefined("x", f)>>)
GroupRefs(f, kind) ==
  (Group(f, kind) :> <<Ref("groupChild", Child(f)), Ref("groupChild", Static(f))>>)
    @@ (Child(f) :> <<Ref("reloc", Static(f))>>)
    @@ (MainAtom(f) :> <<Ref("reloc", Undefined("x", f))>>)

GroupInput(ns, kinds, main, never, flags) ==
  [Input(ns,
     [main |-> main, o1 |-> GroupObject("o1", kinds[1]), o2 |-> GroupObject("o2", kinds[2])],
     (MainAtom("main") :> <<Ref("reloc", Undefined("x", "main"))>>)
       @@ GroupRefs("o1", kinds[1]) @@ GroupRefs("o2", kinds[2]))
   EXCEPT !.never = never, !.flags = flags]

GroupInputs ==
  {GroupInput(ns, kinds, main, never, flags) :
     ns \in {<<Node("main"), Node("o1"), Node("o2")>>, <<Node("o2"), Node("o1"), Node("main")>>},
     kinds \in GroupKinds \X GroupKinds,
     main \in {Object(<<MainAtom("main")>>, <<Undefined("x", "main")>>),
               Object(<<Regular("x", "main")>>, <<>>)},
     never \in {{}, {MainAtom("main"), Regular("x", "main")}, {MainAtom("o1"), MainAtom("o2")}},
     flags \in SUBSET {"deadStrip", "allowDuplicates"}}

-----------------------------------------------------------------------------
(***************************************************************************)
(* Associates: o1.o and o2.o hold a COMDAT function x with a file-static   *)
(* associate that refers back to it.                                       *)
(***************************************************************************)
Comdat(f, merge) == [Regular("x", f) EXCEPT !.merge = merge, !.size = 1]
ComdatMerges == {"weak", "sameNameAndSize", "largest", "tentative"}

AssociateAtoms ==
  {Comdat(f, m) : f \in {"o1", "o2"}, m \in ComdatMerges} \cup {Static("o1"), Static("o2")}
  \cup {MainAtom("main"), Undefined("x", "main")}

AssociateInput(ns, merges, flags) ==
  LET object(f, m) == Object(<<Static(f), Comdat(f, m)>>, <<>>)
      of(f, m) == (Comdat(f, m) :> <<Ref("associate", Static(f))>>)
                    @@ (Static(f) :> <<Ref("reloc", Comdat(f, m))>>)
  IN  [Input(ns,
         [main |-> Object(<<MainAtom("main")>>, <<Undefined("x", "main")>>),
          o1 |-> object("o1", merges[1]), o2 |-> object("o2", merges[2])],
         (MainAtom("main") :> <<Ref("reloc", Undefined("x", "main"))>>)
           @@ of("o1", merges[1]) @@ of("o2", merges[2]))
       EXCEPT !.flags = flags, !.never = {MainAtom("main")}]

AssociateInputs ==
  {AssociateInput(ns, merges, flags) :
     ns \in {<<Node("main"), Node("o1"), Node("o2")>>, <<Node("o2"), Node("main"), Node("o1")>>},
     merges \in ComdatMerges \X ComdatMerges, flags \in SUBSET {"deadStrip"}}

-----------------------------------------------------------------------------
(***************************************************************************)
(* Dead stripping: three atoms of main.o with at most one reference each,  *)
(* to one another or to u, which a member of lib1 may define.              *)
(***************************************************************************)
P == Regular("p", "main")
Q == Regular("q", "main")
R == [Regular("r", "main") EXCEPT !.scope = "translationUnit"]
U == Undefined("u", "main")
D == Regular("u", "m1")
A == [Atom("absolute", "a", "main") EXCEPT !.scope = "translationUnit"]
StripAtoms == {P, Q, R, U, D, A}

RefsTo(targets) ==
  {<<>>} \cup {<<Ref(k, t)>> : k \in {"reloc", "layoutAfter"}, t \in targets}

StripInputs ==
  {[Input(ns,
      [main |-> [Object(<<P, Q, R>>, <<U>>) EXCEPT !.absolute = <<A>>], lib1 |-> Archive([u |-> "m1"]),
       m1 |-> Object(<<D>>, <<>>)],
      (P :> p) @@ (Q :> q) @@ (R :> r))
    EXCEPT !.flags = flags, !.never = never, !.roots = {"p"}] :
     ns \in {<<Node("main")>>, <<Node("main"), Node("lib1")>>},
     p \in RefsTo({Q, R}), q \in RefsTo({P, R, U}), r \in RefsTo({P, U}),
     never \in {{}, {Q}},
     flags \in {{"deadStrip"}, {"deadStrip", "globalsAreDeadStripRoots"}}}

-----------------------------------------------------------------------------
(***************************************************************************)
(* The inputs of the runs.                                                 *)
(***************************************************************************)
AllNames == {"a", "b", "c", "foo", "bar", "g", "x", "y", "p", "q", "r", "u"}
AllAtoms ==
  ArchiveAtoms \cup DirectiveAtoms \cup TentativeAtoms \cup SharedTentativeAtoms
    \cup FallbackAtoms \cup GroupAtoms \cup AssociateAtoms \cup StripAtoms

AllInputs ==
  {ArchiveInputs, DirectiveInputs, TentativeInputs, SharedInputs, SharedTentativeInputs,
   FallbackInputs, GroupInputs, AssociateInputs, StripInputs}

\* The hypothesis of the theorem on units is one that these inputs satisfy.
ASSUME AssociatesAssumption ==
  \A family \in AllInputs : \A link \in family : AssociatesStayApart(link)
=============================================================================
