------------------------------ MODULE MCPeLink ------------------------------
(***************************************************************************)
(* Two objects, two DLLs.  The first object has a reference from its code  *)
(* and one from its data to every kind of symbol; the second has the       *)
(* symbols it leaves undefined, behind some bytes that belong to none.     *)
(***************************************************************************)
EXTENDS PeLink

AllNames ==
    <<".bss", ".data", ".data$1", ".didat", ".didat.d", ".edata", ".idata", ".idata.a", ".idata.d", ".idata.t",
      ".loadcfg", ".pdata", ".rdata", ".reloc", ".sxdata", ".text", ".text$mn", "___ImageBase", "__imp_datum", "__imp_late",
      "__imp_ord", "__imp_puts", "a.dll", "a_long_name", "alpha", "b.dll", "beta", "datum", "ext", "helper",
      "late", "main", "ord", "puts", "this.dll", "zeta">>
NameOf == [n \in {AllNames[i] : i \in DOMAIN AllNames} |->
             CASE n = ".text$mn" -> ".text" [] n = ".data$1" -> ".data" [] OTHER -> n]
LengthOf == [n \in {AllNames[i] : i \in DOMAIN AllNames} |-> IF n = "a_long_name" THEN 11 ELSE 8]
UndecoratedNames == [n \in {"ext"} |-> "alpha"]

Sec(name, type, align, size, words, relocs) ==
    [name |-> name, type |-> type, align |-> align, size |-> size, drop |-> FALSE, words |-> words, relocs |-> relocs]
Sym(name, sect, value, global) == [name |-> name, sect |-> sect, value |-> value, global |-> global, weak |-> 0]
Rel(kind, off, sym) == [kind |-> kind, off |-> off, sym |-> sym]
Helper(mach) == IF mach = "x64" THEN "__delayLoadHelper2" ELSE "___delayLoadHelper2@8"
ImageBaseName(mach) == IF mach = "x86" THEN "___ImageBase" ELSE "__ImageBase"

(* The symbols of the first object, by what they are.                      *)
FirstSymbols(mach, used) ==
    LET all == <<Sym(".text$mn", 1, 0, FALSE), Sym("main", 1, 0, TRUE), Sym("helper", 1, 14, FALSE),
                 Sym("var", 2, 4, TRUE), Sym("zero", 3, 4, TRUE), Sym("ext", 0, 0, TRUE), Sym("datum", 0, 0, TRUE),
                 Sym("puts", 0, 0, TRUE), Sym("__imp_puts", 0, 0, TRUE), Sym("com", 0, 6, TRUE),
                 Sym(ImageBaseName(mach), 0, 0, TRUE), [Sym("perhaps", 0, 0, TRUE) EXCEPT !.weak = 13],
                 Sym("deflt", 0, 0, TRUE), Sym("number", -1, 4660, TRUE), Sym("__imp_datum", 0, 0, TRUE),
                 Sym("__imp_ord", 0, 0, TRUE), Sym("__imp_late", 0, 0, TRUE), Sym("late", 0, 0, TRUE)>>
        Needed(i) == all[i].sect # 0 \/ all[i].value > 0 \/ i \in used
    (* A name that is not asked for is not there to be resolved.             *)
    IN [i \in DOMAIN all |-> IF Needed(i) THEN all[i] ELSE [all[i] EXCEPT !.name = "main"]]

First(mach, inCode, inData, addend) ==
    LET used == {inCode[i].sym : i \in DOMAIN inCode} \cup {inData[i].sym : i \in DOMAIN inData} IN
    [sections |-> <<Sec(".text$mn", "code", 16, 26, [o \in {inCode[1].off} |-> addend], inCode),
                    Sec(".data", "data", 8, 4112, [o \in {inData[1].off} |-> addend], inData),
                    Sec(".bss", "bss", 4, 12, <<>>, <<>>)>>,
     symbols |-> FirstSymbols(mach, used \cup (IF 12 \in used THEN {13} ELSE {})), sxdata |-> <<>>, seh |-> FALSE]

(* com is common in the first object; it may be defined in the second.     *)
Second(mach, com, inData) ==
    [sections |-> <<Sec(".text$mn", "code", 16, 16, <<>>, <<>>), Sec(".data$1", "data", 4, 8, <<>>, inData)>>,
     symbols |-> <<Sym("ext", 1, 4, TRUE), Sym("deflt", 1, 8, TRUE), Sym(Helper(mach), 1, 12, TRUE),
                   Sym("datum", 2, 0, TRUE), Sym(IF com THEN "com" ELSE "own", 2, 4, com)>>,
     sxdata |-> <<>>, seh |-> FALSE]

Import(name, import, hint, dll, code) == [name |-> name, import |-> import, hint |-> hint, dll |-> dll, code |-> code]
Puts == Import("puts", "puts", 7, "a.dll", TRUE)
ByNumber == Import("ord", "", 3, "a.dll", FALSE)
Late == Import("late", "late", 1, "b.dll", TRUE)

Export(name, external, ordinal, noname) ==
    [name |-> name, mangled |-> "", external |-> external, ordinal |-> ordinal, noname |-> noname]

Link(mach, objs, imports) ==
    [machine |-> mach, objs |-> objs, imports |-> imports, exports |-> <<>>, alternate |-> <<>>, renamed |-> <<>>,
     delayed |-> {}, entry |-> "main"]

(* Which symbols a kind of relocation can be for.                          *)
Places == {1, 2, 3, 4, 5, 6, 7, 10, 12}
CodeKinds(mach) ==
    CASE mach = "x86" -> ({"dir32"} \X (Places \cup {8, 9, 11, 14, 15, 16, 17, 18})) \cup ({"rel32"} \X {1, 3, 6, 8, 12, 18})
      [] mach = "x64" -> ({"dir64"} \X (Places \cup {8, 9, 11, 16, 17, 18})) \cup ({"rel32", "rel32_4"} \X {3, 6, 7, 8, 9, 10, 18})
      [] OTHER -> ({"mov32t"} \X (Places \cup {8, 9})) \cup ({"branch24t"} \X {1, 3, 6, 8, 12})
DataKinds(mach) ==
    CASE mach = "x86" -> {<<"dir32nb", 6>>, <<"secrel", 7>>, <<"dir32", 6>>}
      [] mach = "x64" -> {<<"dir32nb", 3>>, <<"section", 6>>, <<"section", 7>>, <<"secrel", 6>>, <<"dir64", 4>>}
      [] OTHER -> {<<"dir32nb", 6>>, <<"dir32", 3>>, <<"dir32", 7>>}

Importing(mach) == IF mach = "arm" THEN <<Puts>> ELSE <<Puts, ByNumber, Late>>
(* Every reference from code with one from data and the other way round;   *)
(* the rest varies together.                                               *)
Linking(mach, c, d, far) ==
    [Link(mach, <<First(mach, <<Rel(c[1], 6, c[2]), Rel(c[1], 18, c[2])>>, <<Rel(d[1], far, d[2])>>,
                        IF far = 8 \/ mach = "arm" THEN 0 ELSE 4),
                  Second(mach, far = 8, <<>>)>>, Importing(mach)) EXCEPT
       !.delayed = IF mach = "arm" \/ far = 8 THEN {} ELSE {"b.dll"}]
References ==
    UNION {{Linking(mach, c, <<"dir32nb", 3>>, far) : c \in CodeKinds(mach), far \in {8, 4104}}
           \cup {Linking(mach, c, d, far) : c \in {<<"rel32", 18>>, <<"mov32t", 3>>} \cap CodeKinds(mach),
                                            d \in DataKinds(mach), far \in {8, 4104}} :
           mach \in {"x86", "x64", "arm"}}

Plain(mach) == <<First(mach, <<Rel("rel32", 6, 3)>>, <<Rel(IF mach = "x64" THEN "dir64" ELSE "dir32", 8, 2)>>, 0), Second(mach, FALSE, <<>>)>>
ExportLists ==
    {<<Export("main", "", -1, FALSE), Export("ext", "beta", 3, FALSE)>>,
     <<Export("ext", "", -1, FALSE), Export("main", "beta", -1, FALSE), Export("datum", "a_long_name", -1, FALSE)>>,
     <<Export("main", "zeta", 5, TRUE), Export("ext", "", 2, FALSE), Export("datum", "", -1, FALSE)>>,
     <<Export("main", "", -1, FALSE), Export("main", "alpha", -1, FALSE), Export("main", "", 4, FALSE)>>,
     <<Export("datum", "", 9, TRUE)>>}
Exporting == {[Link(mach, Plain(mach), <<Puts>>) EXCEPT !.exports = e] : mach \in {"x86", "x64"}, e \in ExportLists}

(* Sections merged, symbols with another name, handlers, a symbol missing. *)
Merging ==
    {[Link("x86", Plain("x86"), imports) EXCEPT !.renamed = r, !.alternate = a] :
       imports \in {<<>>, <<Puts, ByNumber>>, <<Late, Puts>>},
       r \in {<<>>, [n \in {".data"} |-> "a_long_name"], [n \in {".bss", ".data"} |-> IF n = ".bss" THEN ".data" ELSE ".rdata"]},
       a \in {<<>>, [n \in {"helper", "ext"} |-> IF n = "ext" THEN <<"alpha", "puts">> ELSE <<"beta">>]}}
Handling == {[Link("x86", [Plain("x86") EXCEPT ![1].sxdata = t, ![2].sxdata = u], <<>>) EXCEPT !.entry = "ext"] :
               t \in {<<2, 3>>, <<3, 2>>, <<3>>}, u \in {<<>>, <<2, 1>>}}

(* Functions with their end, and unwind information in the data: "entries" *)
(* are pairs of a symbol and the size of its function.                     *)
WithFunctions(obj, entries, unwind) ==
    LET words == (DOMAIN entries) \X (0..2)
        At(p) == 12 * (p[1] - 1) + 4 * p[2]
        Piece(p) == Rel("dir32nb", At(p), IF p[2] = 2 THEN unwind ELSE entries[p[1]][1])
        Plus(o) == LET k == o \div 12 + 1 IN
                   CASE o % 12 = 0 -> 0 [] o % 12 = 4 -> entries[k][2] [] OTHER -> 4 * k
    IN [obj EXCEPT !.sections = Append(@, Sec(".pdata", "rdata", 4, 12 * Len(entries), [o \in {At(p) : p \in words} |-> Plus(o)],
                                              SetToSeq({Piece(p) : p \in words}))),
                   !.symbols = Append(@, Sym(".pdata", Len(obj.sections) + 1, 0, FALSE))]
Unwinding ==
    {[Link("x64", <<WithFunctions(Plain("x64")[1], e, 4), IF both THEN WithFunctions(Plain("x64")[2], <<<<2, 4>>, <<1, 4>>>>, 4) ELSE Plain("x64")[2]>>, imports)
        EXCEPT !.renamed = r] :
       e \in {<<<<2, 14>>, <<3, 12>>>>, <<<<3, 12>>, <<2, 14>>>>}, both \in BOOLEAN, imports \in {<<>>, <<Puts>>},
       r \in {<<>>, [n \in {".data"} |-> ".rdata"]}}
Lacking == {[Link("x86", <<First("x86", <<Rel("rel32", 6, 6)>>, <<Rel("dir32", 8, 8)>>, 0)>>, i) EXCEPT !.delayed = {"b.dll"}] :
              i \in {<<Puts>>, <<Late>>}}
NoHelper == {[Link("x86", <<First("x86", <<Rel("rel32", 6, 3)>>, <<Rel("dir32", 8, 3)>>, 0)>>, <<Late>>) EXCEPT !.delayed = {"b.dll"}]}

AllScenarios == References \cup Exporting \cup Merging \cup Handling \cup Unwinding \cup Lacking \cup NoHelper
AliasScenarios == {[Link("x86", Plain("x86"), <<>>) EXCEPT !.alternate = [n \in {"deflt"} |-> <<"beta">>]],
                   [Link("x86", [Plain("x86") EXCEPT ![2].symbols[1].value = 0], <<>>) EXCEPT !.alternate = [n \in {"ext"} |-> <<"beta">>]]}
=============================================================================
