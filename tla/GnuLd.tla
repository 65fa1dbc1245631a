-------------------------------- MODULE GnuLd --------------------------------
(***************************************************************************)
(* The GNU flavour of the linker from its command line to the addresses    *)
(* its linker scripts ask for: GnuLdDriver.cpp, the file search of         *)
(* ELFLinkingContext.cpp, script::Sema, and the part of TargetLayout.h and *)
(* SegmentChunks.h that asks Sema.                                         *)
(*                                                                         *)
(* A link has args (records of an option and its value), a disk (paths to  *)
(* contents), the target's page size, the order of the names it sorts, and *)
(* whether the hash table of Sema gives the newest of equal entries first. *)
(***************************************************************************)
EXTENDS LinkerScript

VARIABLES link, phase, argi, ctx, groupStack, numfiles, asNeeded, wholeArchive,
          sema, scripts, sections, segments
vars == <<link, phase, argi, ctx, groupStack, numfiles, asNeeded, wholeArchive,
          sema, scripts, sections, segments>>

-----------------------------------------------------------------------------
(* Options: all but the input files are looked at before any input file. *)

Args(opt) == SelectSeq(link.args, LAMBDA a : a.opt = opt)
HasArg(opt) == Args(opt) # <<>>
Values(opt) == [i \in DOMAIN Args(opt) |-> Args(opt)[i].v]
(* getLastArg of several options: the option that wins. *)
LastOf(opts) == LET s == SelectSeq(link.args, LAMBDA a : a.opt \in opts)
                IN  IF s = <<>> THEN "" ELSE Last(s).opt
LastValue(opt, default) == IF HasArg(opt) THEN Last(Values(opt)) ELSE default

Emulations == [x86 |-> [elf_i386 |-> "x86", elf_x86_64 |-> "x86_64"],
               x86_64 |-> [elf_i386 |-> "x86", elf_x86_64 |-> "x86_64"],
               mipsel |-> [elf32ltsmip |-> "mipsel", elf64ltsmip |-> "mips64el"],
               mips64el |-> [elf32ltsmip |-> "mipsel", elf64ltsmip |-> "mips64el"],
               aarch64 |-> [aarch64linux |-> "aarch64"],
               arm |-> [armelf_linux_eabi |-> "arm"],
               or1k |-> [or1k |-> "or1k", or1kle |-> "or1kle"],
               or1kle |-> [or1k |-> "or1k", or1kle |-> "or1kle"]]
(* applyEmulation: -m may only choose among the sisters of the target. *)
Emulation ==
    LET base == LastValue("target", "or1k")
        m == LastValue("m", "")
    IN  IF m = "" THEN base
        ELSE IF base \in DOMAIN Emulations /\ m \in DOMAIN Emulations[base]
             THEN Emulations[base][m] ELSE "unknown"

ValidPageSize(v) == v # 0 /\ v >= link.page /\ v % link.page = 0
ValidOptions ==
    /\ Emulation # "unknown"
    /\ HasArg("image_base") => LastValue("image_base", 0) # 0
    /\ Emulation = "arm" => ~(HasArg("arm_target1_rel") /\ HasArg("arm_target1_abs"))
    /\ \A v \in Range(Values("max_page_size")) : ValidPageSize(v)
    /\ \A d \in Range(Values("defsym")) : d.sym # <<>> /\ d.rhs # <<>>

Relocatable == HasArg("relocatable")
Shared == HasArg("shared")
Magic == LastOf({"nmagic", "omagic", "no_omagic"})
Context == [
    arch |-> Emulation,
    outputType |-> IF Shared THEN "ET_DYN" ELSE IF HasArg("static") THEN "ET_EXEC"
                   ELSE IF Relocatable THEN "ET_REL" ELSE "ET_EXEC",
    isStatic |-> HasArg("static") \/ Magic \in {"nmagic", "omagic"},
    magic |-> IF Magic = "nmagic" THEN "NMAGIC" ELSE IF Magic = "omagic" THEN "OMAGIC"
              ELSE "DEFAULT",
    dynamicLibraries |-> Magic # "no_omagic",
    allowUndefines |-> Relocatable \/ Shared \/ HasArg("noinhibit_exec"),
    shlibUndefines |-> CASE LastOf({"allow_shlib", "no_allow_shlib"}) = "allow_shlib" -> TRUE
                         [] LastOf({"allow_shlib", "no_allow_shlib"}) = "no_allow_shlib" -> FALSE
                         [] OTHER -> Shared,
    allowDuplicates |-> HasArg("allow_multiple_definition") \/ HasArg("muldefs"),
    sysroot |-> LastValue("sysroot", <<>>),
    entry |-> LastValue("e", <<>>), output |-> LastValue("o", <<>>),
    base |-> LastValue("image_base", link.base),
    pageSize |-> LastValue("max_page_size", link.page),
    searchPaths |-> Values("L") \o (IF HasArg("nostdlib") THEN <<>>
                                    ELSE <<<<"=", "/usr/lib">>>>),
    undefines |-> Values("u"), defsyms |-> Values("defsym"), nodes |-> <<>>]

ParseOptions ==
    /\ phase = "options"
    /\ IF ValidOptions THEN ctx' = Context /\ phase' = "files"
       ELSE UNCHANGED ctx /\ phase' = "failed"
    /\ UNCHANGED <<link, argi, groupStack, numfiles, asNeeded, wholeArchive, sema,
                   scripts, sections, segments>>

-----------------------------------------------------------------------------
(* Searching and loading *)

Exists(path) == path \in DOMAIN link.disk
IsAbsolute(path) == path # <<>> /\ path[1] \in link.absolute
BuildSearchPath(dir, c) == IF IsPrefix(<<"=">>, dir) THEN c.sysroot \o Tail(dir) ELSE dir
InDir(dir, file) == dir \o <<"/">> \o file
NotFound == <<>>
FirstExisting(paths) ==
    LET found == SelectSeq(paths, Exists) IN IF found = <<>> THEN NotFound ELSE found[1]

(* -lm is libm.so, unless static, or libm.a in the first directory that has *)
(* either; -l:m is the file m.                                              *)
SearchLibrary(c, lib) ==
    LET colon == lib[1] = ":"
        names == IF colon THEN <<Tail(lib)>>
                 ELSE (IF c.isStatic THEN <<>> ELSE <<<<"lib">> \o lib \o <<".so">>>>)
                      \o <<<<"lib">> \o lib \o <<".a">>>>
        candidates == FlattenSeq([d \in DOMAIN c.searchPaths |->
            [n \in DOMAIN names |-> InDir(BuildSearchPath(c.searchPaths[d], c), names[n])]])
    IN  FirstExisting(candidates \o (IF colon THEN <<Tail(lib)>> ELSE <<>>))
SearchFile(c, file, sysrooted) ==
    LET here == IF IsAbsolute(file) /\ sysrooted THEN c.sysroot \o file ELSE file
        inDirs == [d \in DOMAIN c.searchPaths |-> InDir(BuildSearchPath(c.searchPaths[d], c), file)]
    IN  FirstExisting(<<here>> \o (IF IsAbsolute(file) THEN <<>> ELSE inDirs))

FileOf(path, member, archive) == [kind |-> "file", path |-> path, member |-> member,
                                  archive |-> archive, asNeeded |-> FALSE, arg |-> argi]
ErrorFileNode(path) == [kind |-> "error", path |-> path, asNeeded |-> FALSE, arg |-> argi]
(* loadFile: with wholeArchive an archive is replaced by its members. *)
LoadFile(path, whole) ==
    LET content == link.disk[path]
    IN  IF whole /\ content.kind = "archive"
        THEN [m \in DOMAIN content.members |-> FileOf(path, content.members[m], path)]
        ELSE <<FileOf(path, path, <<>>)>>

-----------------------------------------------------------------------------
(* evalLinkerScript *)

AddFile(c, path, sysrooted) ==
    LET found == IF path.dashL THEN SearchLibrary(c, path.path)
                 ELSE SearchFile(c, path.path, sysrooted)
    IN  [c EXCEPT !.nodes = @ \o (IF found = NotFound THEN <<ErrorFileNode(path.path)>>
                                  ELSE LoadFile(found, FALSE))]
AddFilesFromLinkerScript(c, script, paths) ==
    LET sysrooted == c.sysroot # <<>> /\ IsPrefix(c.sysroot, script)
    IN  FoldLeft(LAMBDA d, p : AddFile(d, p, sysrooted), c, paths)
GroupEnd(size) == [kind |-> "group", size |-> size, arg |-> argi]
EvalCommand(c, cmd, script) ==
    CASE cmd.kind = "Input" -> AddFilesFromLinkerScript(c, script, cmd.paths)
      [] cmd.kind = "Group" ->
            LET d == AddFilesFromLinkerScript(c, script, cmd.paths)
            IN  [d EXCEPT !.nodes = Append(@, GroupEnd(Len(d.nodes) - Len(c.nodes)))]
      [] cmd.kind = "SearchDir" ->
            IF HasArg("nostdlib") THEN c ELSE [c EXCEPT !.searchPaths = Append(@, cmd.name)]
      [] cmd.kind = "Entry" -> [c EXCEPT !.entry = cmd.name]
      [] cmd.kind = "Output" -> [c EXCEPT !.output = cmd.name]
      [] cmd.kind = "Extern" -> [c EXCEPT !.undefines = @ \o cmd.names]
      [] OTHER -> c
EvalLinkerScript(c, script, cmds) ==
    FoldLeft(LAMBDA d, cmd : EvalCommand(d, cmd, script), c, cmds)

-----------------------------------------------------------------------------
(* The arguments in their order *)

Arg == link.args[argi]
NextArg == argi' = argi + 1 /\ UNCHANGED <<link, sections, segments>>

StartGroup ==
    /\ groupStack' = Append(groupStack, numfiles)
    /\ NextArg /\ UNCHANGED <<phase, ctx, numfiles, asNeeded, wholeArchive, sema, scripts>>
(* The size of the group is the number of files loaded since its start. *)
EndGroupStartStays ==
    /\ IF groupStack = <<>> THEN phase' = "failed" /\ UNCHANGED ctx
       ELSE /\ ctx' = [ctx EXCEPT !.nodes = Append(@, GroupEnd(numfiles - Last(groupStack)))]
            /\ UNCHANGED phase
    /\ NextArg /\ UNCHANGED <<groupStack, numfiles, asNeeded, wholeArchive, sema, scripts>>
EndGroup ==
    /\ IF groupStack = <<>> THEN phase' = "failed" /\ UNCHANGED <<ctx, groupStack>>
       ELSE /\ ctx' = [ctx EXCEPT !.nodes = Append(@, GroupEnd(numfiles - Last(groupStack)))]
            /\ groupStack' = Front(groupStack)
            /\ UNCHANGED phase
    /\ NextArg /\ UNCHANGED <<numfiles, asNeeded, wholeArchive, sema, scripts>>

(* A file that is not found is a node of its own that does not count. *)
MissingFile ==
    /\ ctx' = [ctx EXCEPT !.nodes = Append(@, [ErrorFileNode(Arg.v) EXCEPT !.asNeeded = asNeeded])]
    /\ NextArg
    /\ UNCHANGED <<phase, groupStack, numfiles, asNeeded, wholeArchive, sema, scripts>>
ScriptFile(path) ==
    \E p \in {Parse(link.disk[path].text)} :
        /\ IF p.ok THEN /\ ctx' = EvalLinkerScript(ctx, path, p.cmds)
                        /\ scripts' = Append(scripts, p.cmds)
                        /\ UNCHANGED phase
           ELSE phase' = "failed" /\ UNCHANGED <<ctx, scripts>>
        /\ NextArg /\ UNCHANGED <<groupStack, numfiles, asNeeded, wholeArchive, sema>>
ObjectFileCountedOnce(path) ==
    LET files == LoadFile(path, wholeArchive)
        nodes == [i \in DOMAIN files |-> [files[i] EXCEPT !.asNeeded = asNeeded]]
    IN  /\ ctx' = [ctx EXCEPT !.nodes = @ \o nodes]
        /\ numfiles' = numfiles + 1
        /\ NextArg /\ UNCHANGED <<phase, groupStack, asNeeded, wholeArchive, sema, scripts>>
ObjectFile(path) ==
    LET files == LoadFile(path, wholeArchive)
        nodes == [i \in DOMAIN files |-> [files[i] EXCEPT !.asNeeded = asNeeded]]
    IN  /\ ctx' = [ctx EXCEPT !.nodes = @ \o nodes]
        /\ numfiles' = numfiles + Len(nodes)
        /\ NextArg /\ UNCHANGED <<phase, groupStack, asNeeded, wholeArchive, sema, scripts>>
InputFile ==
    LET found == IF Arg.opt = "l" THEN SearchLibrary(ctx, Arg.v) ELSE Arg.v
    IN  IF found = NotFound \/ ~Exists(found) THEN MissingFile
        ELSE IF link.disk[found].kind = "script" THEN ScriptFile(found)
        ELSE ObjectFile(found)

Switch ==
    /\ wholeArchive' = CASE Arg.opt = "whole_archive" -> TRUE
                         [] Arg.opt = "no_whole_archive" -> FALSE
                         [] OTHER -> wholeArchive
    /\ asNeeded' = CASE Arg.opt = "as_needed" -> TRUE
                     [] Arg.opt = "no_as_needed" -> FALSE
                     [] OTHER -> asNeeded
    /\ NextArg /\ UNCHANGED <<phase, ctx, groupStack, numfiles, sema, scripts>>

ProcessArg ==
    /\ phase = "files" /\ argi <= Len(link.args)
    /\ CASE Arg.opt = "start_group" -> StartGroup
         [] Arg.opt = "end_group" -> EndGroup
         [] Arg.opt \in {"input", "l", "T"} -> InputFile
         [] OTHER -> Switch

(* The end of parse, then Driver::link up to the resolver: the internal     *)
(* files go in front of the nodes.                                          *)
InternalFiles(c) ==
    [i \in 1..(1 + (IF c.entry # <<>> \/ c.outputType = "ET_EXEC" THEN 1 ELSE 0)
                 + (IF c.undefines # <<>> THEN 1 ELSE 0)) |->
        [kind |-> "internal", path |-> <<>>, asNeeded |-> FALSE, arg |-> 0]]
FinishParse ==
    /\ phase = "files" /\ argi > Len(link.args)
    /\ IF ctx.nodes = <<>> THEN phase' = "failed" /\ UNCHANGED <<ctx, sema>>
       ELSE /\ phase' = "layout"
            /\ sema' = Perform(sema, scripts)
            /\ ctx' = [ctx EXCEPT !.nodes = InternalFiles(ctx) \o @,
                                  !.output = IF @ = <<>> THEN <<"a.out">> ELSE @]
    /\ UNCHANGED <<link, argi, groupStack, numfiles, asNeeded, wholeArchive, scripts,
                   sections, segments>>

-----------------------------------------------------------------------------
(* The writer. Of an archive that is not taken whole, the members in needed *)
(* were loaded.                                                             *)

InputSections(node) ==
    LET content == link.disk[node.path]
        Of(archive, member, secs) ==
            [i \in DOMAIN secs |->
                [key |-> [archive |-> archive, member |-> member, name |-> secs[i].name],
                 type |-> secs[i].type, flags |-> secs[i].flags, size |-> secs[i].size,
                 align |-> secs[i].align, out |-> <<>>]]
    IN  IF node.kind # "file" THEN <<>>
        ELSE IF content.kind = "object" THEN Of(<<>>, node.path, content.sections)
        ELSE FlattenSeq([m \in DOMAIN content.members |->
                LET name == content.members[m]
                IN  IF IF node.archive = <<>> THEN name \in content.needed ELSE name = node.member
                    THEN Of(node.path, name, content.sections[m]) ELSE <<>>])
Named2Output(secs) ==
    [i \in DOMAIN secs |->
        [secs[i] EXCEPT !.out = GetOutputSectionName(sema, secs[i].key, link.newest)]]
Missing == \E n \in Range(ctx.nodes) : n.kind = "error"

(* Nodes that are error files end the link when the resolver meets them. *)
BuildChunks ==
    /\ phase = "layout"
    /\ IF Missing THEN phase' = "failed" /\ UNCHANGED sections
       ELSE /\ phase' = "segments"
            /\ sections' = SortInputSections(sema,
                   Named2Output(FlattenSeq([i \in DOMAIN ctx.nodes |-> InputSections(ctx.nodes[i])])),
                   link.newest, link.rank)
    /\ UNCHANGED <<link, argi, ctx, groupStack, numfiles, asNeeded, wholeArchive, sema,
                   scripts, segments>>
AssignSections ==
    /\ phase = "segments"
    /\ \E l \in {AssignSectionsToSegments(sema, sections, link.newest, ctx.magic)} :
           /\ sema' = l.S
           /\ segments' = SegmentsInOrder(l.segments)
    /\ phase' = "addresses"
    /\ UNCHANGED <<link, argi, ctx, groupStack, numfiles, asNeeded, wholeArchive,
                   scripts, sections>>
AssignAddresses ==
    /\ phase = "addresses"
    /\ \E l \in {AssignVirtualAddress(sema, segments,
                   [pageSize |-> ctx.pageSize, base |-> ctx.base, magic |-> ctx.magic,
                    elfHeader |-> link.elfHeader, headers |-> link.headers])} :
           sema' = l.S /\ segments' = l.segments
    /\ phase' = "values"
    /\ UNCHANGED <<link, argi, ctx, groupStack, numfiles, asNeeded, wholeArchive,
                   scripts, sections>>
(* finalizeDefaultAtomValues: every symbol of the scripts has a value, or   *)
(* an assertion fails.                                                      *)
FinalizeDefaultAtomValues ==
    /\ phase = "values"
    /\ phase' = IF GetScriptDefinedSymbols(sema) \subseteq DOMAIN sema.symbols THEN "done"
                ELSE "asserted"
    /\ UNCHANGED <<link, argi, ctx, groupStack, numfiles, asNeeded, wholeArchive, sema,
                   scripts, sections, segments>>

Start(l) ==
    /\ link = l /\ phase = "options" /\ argi = 1 /\ ctx = [nodes |-> <<>>]
    /\ groupStack = <<>> /\ numfiles = 0 /\ asNeeded = FALSE /\ wholeArchive = FALSE
    /\ sema = NewSema /\ scripts = <<>> /\ sections = <<>> /\ segments = <<>>
Next == \/ ParseOptions \/ ProcessArg \/ FinishParse
        \/ BuildChunks \/ AssignSections \/ AssignAddresses \/ FinalizeDefaultAtomValues
=============================================================================
