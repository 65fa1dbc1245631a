# A TLA+ model of lld

lld reads object files, archives and shared libraries as graphs of *atoms* (functions, data)
and *references*, resolves names between them, runs passes over the merged graph and writes
an executable. The core that all flavours share is small: `lib/Core/Resolver.cpp`,
`lib/Core/SymbolTable.cpp`, and the thread pool of `include/lld/Core/Parallel.h` on which inputs
are parsed and archive members loaded ahead. Around it stand the flavours: ELF with its targets
and linker scripts, Mach-O, and PE/COFF, each with readers, passes and a writer.

This project models the core with its concurrency, and proves what it can of it; and it
models the flavours as the transformations they are, from the records of an object to the bytes of an
image, and checks that what the object said is still true of the image. `PROJECT.json` maps each
definition to the lines it stands for and lists the hazards that the properties were written for.

## The system

| Component | State | Operations | Talks to |
|---|---|---|---|
| Symbol table (`SymbolTable.cpp`) | name, group and content tables, `_replacedAtoms` | `add`, `addGroup`, `addReplacement`, queries | called by the resolver for every atom |
| Resolver (`Resolver.cpp`) | `_undefines`, `_undefineIndex`, `_atoms`, `_newUndefinesAdded`, live and dead atoms | walk of the nodes with groups, search of libraries, `doXAtom`, the steps of `resolve()` | table, context, archives, readers (`beforeLink`) |
| Linking context (`LinkingContext.cpp`) | nodes, options, task group | setters, end of life | changed by readers while the resolver runs |
| Thread pool (`Parallel.h`) | work stack, `_stop`, latches | `add`, `work`, `spawn`, `sync`, destructors | runs closures of everybody |
| Archives (`FileArchive.cpp`) | `_symbolMemberMap`, `_membersInstantiated`, `_preloaded` | `find`, `preload`, `parse` | resolver's thread and workers |
| Driver (`Driver.cpp`) | none of its own | spawns the parsing, resolves, runs passes, writes | context, task group |
| Command line drivers (`GnuLdDriver.cpp`, ...) | position in the arguments, stack of groups | build the list of nodes | context |
| Linker scripts (`LinkerScript.cpp`) | tokens, commands; the list of rules and what was delivered | parse, dump, match sections, evaluate | GNU driver, ELF layout |
| ELF reader (`ELFFile.h`, `Atoms.h`) | the vector of references that all atoms of a file share | sections and symbols to atoms | context (flags) |
| ELF targets (`ELF/OR1K`, `X86`, `X86_64`, `AArch64`, `ARM`, `Mips`, `Hexagon`) | maps of the GOT, PLT and veneer entries made | relocation passes; relocation handlers | merged file; the section writer's workers |
| ELF layout and writers (`TargetLayout.h`, `SegmentChunks.h`, `SectionChunks.h`, `OutputELFWriter.cpp`) | sections, segments, slices, tables | assign addresses and offsets, build tables, write in parallel | linker scripts, targets |
| Mach-O (`lib/ReaderWriter/MachO`) | references, stubs and GOT entries, segments, trie | relocations to references and back, passes, image | |
| Layout pass (`LayoutPass.cpp`) | chains, roots, ordinals | build the tables, sort | the merged Mach-O file |
| PE/COFF (`lib/ReaderWriter/PECOFF`) | atoms per section, import and export tables, `atomRva` | read, make tables, lay out, relocate in parallel | resolver (`beforeLink`, `addLibraryFile`) |

What is hard in it, and what makes each part correct:

* **Symbol table.** Files come in any order and each pair of atoms is merged by a table
  lookup. The result must not depend on more than the documents say: a name keeps its
  strongest definition and its strictest use, and all losers must lead to one winner by a chain
  that ends, because every reference of the output is redirected along it.
* **Resolver.** It searches incrementally: a library is asked only for the names added since
  its last visit, a resolved name is struck off for good, a group is repeated only if flags of
  the last round say so, and `.drectve` sections insert libraries into the list under the
  walk. Each is an optimisation that is wrong if it forgets a name. Afterwards references
  are redirected, dead atoms stripped, undefined symbols reported and losers dropped, in an
  order that must leave a closed graph.
* **Pool.** `sync()` must mean that every closure has returned, those spawned by
  closures included. Sleeping and waking must lose nobody, and the destructor must not leave a worker
  inside a destroyed object.
* **Archives.** Loading ahead must not change what `find()` answers, load twice, wait for
  ever, or outlive the archive.
* **Layout pass.** Chains are joined and atoms inserted while the tables are built; an atom with an
  old root is sorted elsewhere.
* **GOT and PLT.** What a pass does with a reference depends on the references before it: entries are
  shared through maps, and a symbol used as a call, through the GOT and by address must get entries
  that agree. For MIPS, the loader reads the GOT through a convention on the order of `.dynsym`.
* **Relocations.** The bytes of an instruction hold a piece of a value, at a width; HI and LO halves
  must carry into one another; and all of it is written by tasks into one buffer.
* **Layout and tables.** The size of a table depends on the symbols, the addresses on the sizes, the tables'
  contents on the addresses, and the number of headers on the result. A step out of order leaves a
  stale number.
* **Mach-O and PE.** Relocations are read by one piece of code and written by another, with
  addends that are in the record, in the instruction or in both; images must work at whatever
  address they are loaded.
* **Scripts and groups.** A file of rules is put into one list and asked from many sides in an order that the
  rules do not know.

## Modules

| Module | Models | Composed with |
|---|---|---|
| `SymbolTable` | the symbol table; one action per way an `add` can go | |
| `Iteration` | induction on natural numbers, iterated functions, unions of finitely many finite sets | used by all proofs but those of the pool and the archives |
| `SymbolTableProofs` | invariants and theorems about it | extends `SymbolTable`, `Iteration` |
| `Resolver` | resolver, `beforeLink` and `addLibraryFile` of PECOFF, what `find` and `exports` answer | `ST == INSTANCE SymbolTable`; refines it |
| `ResolverProofs` | that refinement, that no name is forgotten, that dead stripping is exact and finds its roots, that the merged file is whole | extends `Resolver`, `Iteration`, `T == INSTANCE SymbolTableProofs` |
| `TaskGroup` | what a task group promises | |
| `ThreadPool` | `Latch`, `ThreadPoolExecutor`, `TaskGroup` | `Group == INSTANCE TaskGroup`; refines it |
| `ThreadPoolProofs` | inductive invariant and theorems | extends `ThreadPool` |
| `Archive` | what `ArchiveLibraryFile::find` promises | |
| `ArchivePreload` | `FileArchive` with resolver, workers, `Future`, `File::parse`, end of the link | `A == INSTANCE Archive`; refines it |
| `ArchivePreloadProofs` | inductive invariant and theorems | extends `ArchivePreload` |
| `LayoutPass` | the layout pass, one turn of a loop at a time | |
| `LayoutPassProofs` | that it is right for all references without a cycle | extends `LayoutPass`, `Iteration` |
| `Words` | 64-bit words as sets of bit positions | |
| `OR1KRelocations`, `X86Relocations` (i386 and x86_64), `AArch64Relocations`, `ARMRelocations`, `HexagonRelocations`, `MipsRelocations` | the relocation handlers | the cases of `Handler` in `SectionWriter` |
| `SectionWriter` | `OutputELFWriter::writeOutput` and `AtomSection::write` as tasks over one buffer | extends `Words` |
| `SectionWriterProofs` | that the order of the tasks makes no difference | extends `SectionWriter`, `Iteration` |
| `GotPlt`, `MipsGotPlt` | the relocation passes of OR1K, x86_64, AArch64, ARM and MIPS | `Mips == INSTANCE MipsGotPlt` |
| `GotPltProofs` | that stubs bind in every link, and what the merged MIPS flags say of the files | extends `GotPlt`, `Iteration` |
| `ElfReader` | `ELFFile::doParse`: objects to atoms | its files are inputs of `MCElfWriter` |
| `ElfWriter` | sections, segments, slices, addresses and offsets; `OutputELFWriter::buildOutput` step by step | |
| `MachOFile` | what the architecture handlers work on | |
| `X86_64Handler`, `X86Handler`, `Arm64Handler`, `ArmHandler` | the `ArchHandler`s | extend `MachOFile` |
| `MachOLink` | an object through reader, passes and writer: layout, addresses, export trie | the four handlers |
| `PeLink` | reader, table-making passes and writer of PE/COFF as operators, and a link that runs them, with the workers that relocate atoms | |
| `LinkerScript` | lexer, parser, expressions and dump of linker scripts; `script::Sema` | |
| `GnuLd` | the GNU driver's list of nodes, and the part of the layout that asks `Sema` | extends `LinkerScript` |
| `MC...` | instances for TLC | |

In each module the operators named "Mutant" in their comment are wrong variants of the
definition that follows them. They are in no behaviour; each is a bug that a property of the
module finds when it takes the place of the right definition.

A property of a run is often a conjunction of named parts, each with a comment and, as a rule, a mutant of
its own.

The modules of the core have a step per access to shared state, since there the order of steps is the question.
Those of the flavours have a step per pass or per reference; what is asked there is whether the passes agree
with each other. The independent side of these questions is written down in the modules as well: a
decoder of instructions, a dynamic loader, an importer, a search in a trie, a printer of scripts. It is
taken from what the formats mean, not from the code, and is mapped as external or not at all.

### SymbolTable

An atom is a record of what the table can tell apart. The tables `cases` and `mergeCases` are
data (`Collide`, `MergeCases`), the switch of `addByName` is `UseNew` and `Conflict`, and
`AddNewName` ... `AddLoser` are its five outcomes; `report_fatal_error` sets `fatal`. `added`
is a history variable. `AtomAssumption` is what the code asserts or the readers make of atoms. `AddReplacement` is
enabled when `Resolver::doUndefinedAtom` would call it.

*Checked* (`symbol_table`): a chain of replacements always ends and all
atoms of one key lead to the current one (`LosersLeadToTheWinner`), the strongest definition
wins whatever the order (`StrongestWins`), strong duplicates are never merged silently
(`NoDuplicateDefinition`), a strict use is never hidden by a weak one
(`UndefinedIsStrictest`), and a resolved name stays resolved (`ResolvedForever`), which
`forEachUndefines` relies on. Names with COMDAT selection by size are left out of two of these
because the code compares with the current winner only and the order decides.

*Bounds*: pools of 18, 11 and 16 atoms, of which a behaviour adds any 4 (3 where duplicates are
allowed), 10 and 5, in any order. The merge tables are pairwise, so three
atoms of one name show every dependence on order and a fourth every chain of winners; two
files and a chain of three names show every interaction of fallbacks without a cycle.

*Outside the inputs*: two files whose weak externals name each other make the chain
cyclic, and `replacement()` never returns. The pools of the run have no such cycle, and the proof of
`LosersLeadToTheWinner` asks for none.

### Resolver

`todo` holds the calls that the C++ stack still has to make for the file at hand, so that one
step is one atom given to the table. `GroupAgain`, `GroupLeave` and `LastFile` are `getFile`,
`ParseFails`, `VisitObject`, `VisitLibrary` and `LeaveFile` the body of `resolveUndefines`,
`Search...` and `SkipUndefine` are `forEachUndefines`, and the last four actions `resolve()` after it.
`newUndefinesAdded`, `undefines`, `undefineIndex`, `seen` and `atoms` are the variables of
these names. The preload map is left out, since it changes only what is loaded ahead (`ArchivePreload`
shows that this changes no answer).

*Checked* (`resolver`): the names before a library's index cannot be resolved by it
(the comment "Searching them again would never succeed" of `Resolver.h`) and
no unresolved name is missing from the list (both in `NoNameIsForgotten`); a group is left only when
none of its libraries offers anything, and archives are searched for
definitions to override tentative ones (both in `SearchesAreExhaustive`); the merged file has no definition
twice, no dangling reference, and groups and associates whole (`ResultIsWhole`);
dead stripping finds an atom for each of its roots, whatever libraries are added under the walk (the assertion of
`Resolver.cpp:418`), keeps exactly what is used and fails only for symbols in use (`StripIsExact`); every link ends
(`Termination`). `TableSpec` says that the resolver is a behaviour of
`SymbolTable`, so that what is checked or proved of the table there holds of the table here.

*Bounds*: link lines of up to three nodes besides the group end, two archives and four members, with every small choice of who
defines and uses which of two or three names, in the order and grouping given in
`MCResolver`. Two archives that need each other in a group, and a library that appears when the group is
searched, are the smallest inputs with more than one round; three atoms with one reference each
give every chain and cycle that dead stripping can meet.

*Assumed of the input*, checked on every link of the run and used by the proofs:

* `ReadersAssumption`. A reference leads to an atom of the same file: the readers resolve indices of one file's symbol
  table, and a symbol of another file is an undefined atom of this one. A section group has its children to itself, and they
  are not among the atoms of the file: `ELFFile.h` collects them apart, and users outside of the group are led to
  them through an undefined atom. Associates come from the COFF reader only, which makes no groups. Groups are no roots
  of dead stripping: ELF atoms are `deadStripNormal`. An atom comes from one place: a list of its file, where it is once, or
  the parent of its group (`AtomsAreOwned`); the fallback of a weak external is made for it alone (`FallbacksAreOwned`).
* `DriversAssumption`. A group end stands behind the files of its group, and there is one where object files may
  name libraries (`WinLinkDriver.cpp:1353` adds it to every link). Each root of dead stripping has an atom in
  some object file: the contexts make an internal file with an undefined atom for the entry point, `-u` and
  the exported symbols, and the COFF reader adds one for `/include`. The file of an archive member is made by the archive, so no
  node and no directive has it (`MembersAreInside`).
* `AssociatesAssumption` (in `MCResolver`, a hypothesis of one theorem): `AssociatesStayApart`. An associated section of COFF has no
  name outside of its file, only its unit refers to it, and it has no associates itself. The reader does not enforce it; where it does
  not hold, a reference from elsewhere to an associate of an atom that lost its name is left dangling in the merged file.

*Seen while modelling*, each the consequence of a condition of the code, and outside the run's inputs or the
property's claim:

* the undefined symbols of a shared library do not repeat a group (`Resolver.cpp:100`, unlike `:247`);
* a tentative definition that an overriding member brings is not overridden itself (`Resolver.cpp:67`,
  `LinkingContext.h:84`);
* the fallback of a weak external is required even if a later file defines the symbol
  (`Resolver.cpp:128`, `ReaderCOFF.cpp:450`);
* `canBeNullAtRuntime` symbols pass `checkUndefines` (`Resolver.cpp:452`) although
  `UndefinedAtom.h:29` wants them found at link time;
* a tentative definition beats a shared library atom in the table (`SymbolTable.cpp:90`) whatever
  `searchSharedLibrariesToOverrideTentativeDefinitions` (`LinkingContext.h:95`) says;
* what `doUndefinedAtom` returns for a fallback is dropped (`Resolver.cpp:128-133`): a fallback that is new while the weak
  external's own name is not does not repeat the group;
* an associate of an associate is kept (`Resolver.cpp:352`).

### ThreadPool

A step is what a thread does under one mutex, or one notification. `Take` and `Sleep` are the
wait of `work()`, `Return` the end of a closure, `Dec` the latch, `Inc`, `Push` and
`NotifyOne` are `spawn()`, and the owner's actions are `sync()`, `~ThreadPoolExecutor` and
the wait of `~Latch`. Threads may wake for no reason. What a closure does is open, but it may spawn.

*Checked* (`thread_pool`) and, but for liveness, *proved*: `sync()` returns only when every closure has
(`SyncMeansDone`); each task runs once, none is left in the stack and nothing is used after its
destruction (`NothingIsLost`); `Implements` is the refinement of `TaskGroup` with its fairness;
`Termination`.

*Bounds*: three workers, so that one starts the two others and two can race for a
notification; three tasks, so that a task spawns while another is on the stack.

*Fairness*: weak fairness of each thread's steps. The operating system runs every thread that
is not blocked, mutexes are held for finitely many instructions, and closures return. A thread
at a condition variable is not enabled until it is notified or its predicate is true, so a lost
wake-up would show as a behaviour that stops.

The model has at least one worker. With `hardware_concurrency()` of 0 the constructor would start one
thread on a latch of 0, which `Parallel.h:43` calls undefined.

### ArchivePreload

One archive, the resolver's thread and the workers. `Preload`, `FindNothing`, `FindMember`,
`FindLoads`, `Get` and `GetWaits` are the resolver's calls, `TaskLoads`, `TaskSets`,
`TaskNotifies` and `TaskDone` the closure of `preload()`; `LockParse` and `DoParse` are `File::parse`
by either side; the rest is the end of `Driver::link` and of the context. Loading merges the
header flags (`merged`), loads and parses the member, and each can fail.

*Checked* (`archive_preload`): a member is loaded once, and to the end before it is returned, and no task
outlives the archive (`PreloadIsHarmless`); the answers are those of `Archive`, which knows nothing of
threads, and every `find()` comes back (`SameAnswers`); the link ends (`Ends`).

*Bounds*: two names in one or two members, two workers, four calls of the resolver (`MaxCalls`), which lets it
preload and find both names or ask twice for one. That the resolver makes finitely many calls
is `Termination` of `Resolver`.

*Fairness*: as for the pool, for each worker and for the resolver's thread.

*Found* (`archive_side_effect`): a member that was only preloaded has had its ELF header flags merged into the
context of a link that succeeds.

The model also shows that the derived context may be destroyed while tasks run: only a failing link
waits (`Driver.cpp:107`), and `_taskGroup` belongs to the base class. What the readers then
touch is outside the model.

### LayoutPass

`nexts`, `roots` and `override` are `_followOnNexts`, `_followOnRoots` and
`_ordinalOverrideMap`. A step is one reference or one turn of an inner loop. Permissions,
content type, custom sorter, file and ordinal are one number, `rank`, different for different
atoms: equal ordinals are `llvm_unreachable` in the code. The sorted vector is given by the place of each atom in it, the
number of atoms that compare before it. `InputsAssumption` says of the input that the references do not go round, which
`checkNoCycleInFollowonChain` asserts of it in debug builds, and that ranks differ.

*Checked* (`layout_pass`): `LayoutIsRight` says that the searches of a chain meet their target (two
assertions of the code), that a root is its own root when the tables are built,
that the comparison is a strict total order and the result agrees with it, and that
references that do not conflict are kept; the pass ends (`Termination`).

*Bounds*: four atoms, every acyclic choice of references, all sizes, two orders of rank: 4,000
inputs. Four atoms allow two chains of two to be joined, and an insertion into a chain whose
inserted atom has a chain of its own.

*Seen while modelling*: an atom of size zero that is inserted into a chain leaves the atoms
that were chained before it behind, and a reference that could be kept is not. On references that form a
cycle `setChainRoot` never ends, so that the check of cycles in debug builds is not reached. When a layout is
impossible the atom's entry in `_followOnNexts` stays, against `LayoutPass.h:60`.

### Relocations and the section writer

`SectionWriter` is `OutputELFWriter::writeOutput` with a task per section and, in it, a task per atom. The
buffer is the set of its bits that are one. `Copy` is the `memcpy` of an atom, `Apply` one reference: read
the place, compute, check, write; `ReportFatal` and `Commit` are what follows when all tasks are done. What a
relocation computes is `Handler`, the handler of the file's target, a module each: each relocation the
handler's switch knows, in 64-bit words, with its masks, shifts, range and alignment checks, and endianness.

*Checked* (`relocations`): however the tasks interleave, the committed file is the one a sequential writer writes,
and no file is committed after a refused relocation (`AsIfAlone` and `NoFileAfterAnError` in `CommittedAsIfAlone`); an independent reading of the bytes
finds the target, and HI and LO halves build one address (`TargetsAreReached`); a task changes no bit outside its
atom (`OwnBytesOnly`).

*Bounds*: two neighbouring atoms in sections of their own, the first with the references under test, the
second with data that would show a write that is too wide. Targets lie on both sides of each boundary: sign bits,
carries from the low half, the last reachable distance and the first that is not.

*Assumed*: `OutputsAssumption`, what the layout gives: atoms which are written do not overlap, have the content their size
says, and hold the field of each of their references. For `ElfWriter` the first is part of `ImageIsLoadable`.
`FieldOf` says how long the field of a kind is in the ABI (half words 2 bytes, words and instructions 4, ...), and 4
for a half word of little endian OR1K, since its handler needs so many.

*Seen while modelling* and left out of the inputs: `R_OR1K_16` and `R_OR1K_16_PCREL` of little endian OR1K store four bytes
(`OR1KRelocationUtils.h:42`), so that a half word at the end of an atom writes into the next one: the inputs have the relocation only
with four bytes of room, and the theorem `LittleHalfOverruns` shows what happens with two; AArch64 LDST16 loses bit 1 of the address, and
the comment at `AArch64RelocationHandler.cpp:27` is not what `:25` does; Hexagon ignores what its helpers
return; the ARM group relocations of negative values end in an assertion; x86_64's TLS size and the cached
address of the GOT symbol are written by several workers without a lock, with equal values.

### GOT and PLT

The passes of OR1K, x86_64, AArch64 and ARM share one machine in `GotPlt`; MIPS has its own record of maps in
`MipsGotPlt`. `MergeHeaderFlags` is the merge of MIPS header flags, one file after the other in the order in which the
workers happen to load them; `CollectReferenceInfo` the first walk of the MIPS pass; `HandleReference` one turn of
the walk over all references, and `Finish` the end of `perform()`, where entries are put in order and added to the
file. A target of a reference is a symbol or a made atom.

*Checked* (`got_plt`): `StubsBind`: a call that the linker cannot bind ends in a stub whose slot the loader binds to
the symbol; an unbound slot starts out at PLT0; a
symbol has one stub per instruction set; and no branch without a switch of instruction set meets code of the other.
`TablesAreLaidOut`: each made atom is in the file once, with all it refers to (`Closed`); the entries PLT0 works
with are the first of `.got.plt`; and the global half of a MIPS GOT is in the order of the end of
`.dynsym`, as `DT_MIPS_GOTSYM` promises the loader (`GotMatchesDynsym`). `PointersAgree`: a MIPS function has one address, however it is
taken. `FlagsCover`: the merged header runs on what each file needs.

*Bounds*: every sequence of up to three references on every target, static and dynamic: the maps are looked up by
symbol, so two references to one symbol show every sharing, and a third stands between them.

*Seen while modelling* and left out of the inputs (some as definitions in `MCGotPlt`):

* MIPS: weak symbols are sorted into another order by the GOT than by `.dynsym`
  (`MipsTargetHandler.h:188-190`, inputs `WeakLinks`); a shared function gets two addresses when only `R_MIPS_26`
  or a HI16 asks for it, or from microMIPS (inputs `TwoAddresses`); whether two ISAs are
  accepted depends on the order of the files; `GOT_DISP` drops its addend; an LA25 stub takes the caller's ISA;
  `R_MIPS_32` to a local symbol in a shared library gets no `REL32`; `STO_PLT` of a defined atom in a
  shared library fails an assertion; `_posMap[x] = _posMap.size()` has no defined order in the language of the time.
* ARM: a GOT entry and then a call of an IFUNC fails the assertion of `ARMRelocationPass.cpp:420`.
* OR1K: PLT slots carry no symbol; `R_OR1K_RELATIVE` for an IFUNC does not call the resolver; a static undefined
  symbol gets a GOT entry that points to the null entry.
* All: the GOT entry of an IFUNC used before its call holds the resolver's address; GOTTPOFF shares a map with the
  plain GOT on x86_64; AArch64 makes no stub for an undefined symbol.

### ElfReader and ElfWriter

`ElfReader` is `ELFFile::doParse` as an operator from objects to files: sections, symbols, groups, merged strings,
common symbols, and the one vector of references of which each atom owns a range. `ElfWriter` has first the
operations of the layout as functions on layouts, and then `buildOutput`: an action per step, from
`BuildChunks` over the rounds of addresses to `UpdateDynamicTable`, in the order of the code, since each step uses what the
ones before it left in the tables.

*Checked* (`elf_writer`): segments, headers, tables and atoms do not overlap, and the program headers load
each atom where it was laid out, with offsets congruent to addresses (`ImageIsLoadable`); a symbol is found
under its name by the hash table, in the section that holds it, with locals before `sh_info` (`SymbolTablesAgree`); what
was one section of the object is still in order and at its distances (`SectionsStayWhole`); relocations
of the object arrive at the place and the symbol they were for, through groups and merged strings
(`RelocationsArrive`; the dynamic tables are checked for their shape only).

*Bounds*: a page has 16 bytes, headers two to four, a name costs two bytes, and the hash function is a constant, so that
sections of a few bytes fill a page, outgrow it, and a program header that is added moves everything behind it. Links have
up to a handful of sections of each kind, two files, defined, undefined, weak, shared, copied, local and absolute symbols.

*Seen while modelling* and left out of the inputs: `--merge-strings` keeps the addend of a later string or sets the
offset in its place (`ELFFile.h:1000-1026`); relocations and members of groups are found by section NAME, so that
two sections of one name mix; an alignment of 64 KiB becomes 0 in 16 bits, and `sh_addralign` 0 gives another modulus;
bytes before the first symbol are in no atom; `NOBITS` and notes without symbols are dropped; a relocation of symbol 0
dereferences null; a slice keeps old addresses when it becomes another (`SegmentChunks.h:574`); a script
expression as first chunk of a segment breaks the congruence of offset and address (`SegmentChunks.h:126-129`);
thread-local atoms count from 0 in each segment; OR1K's base is 0, so `.vectors` and the headers meet.

### Mach-O

`MachOLink` takes one object through the linker. `ConvertRelocs` makes references of its relocation records;
`WriteRelocatable` (`-r`) makes records of the references again and reads them; or `StubsPass`, `GOTPass`,
`ShimPass` and `WriteImage` make an image, which lays out segments and
builds the export trie. The four handler modules hold, for each architecture, how records become references, what a
reference stores in an instruction, and which records are written for it.

*Checked* (`macho`): `RoundTrip`: what `-r` writes reads as what was read. `UsesReachTheirAtoms`: in
the image a decoder of the instructions, and for calls through stubs and shims too, arrives at the atom, in the
right instruction set. `ImageLoadsAnywhere`: a loader that slides the image, rebases and binds what the tables list gets the
same pointers, segments lie apart, and the trie finds exactly the exported names.

*Bounds*: words of 2^12 values in half words of 2^6 (where the code has 2^32 and 2^16), pages of 2^6 and 2^7, ULEBs of one
byte up to 16. Two or three references from code and data to code, data, library symbols and interposable
functions: every pair of kinds on one atom. Halves and carries occur at these widths, and two-byte trie nodes.

*Seen while modelling* and left out of the inputs: x86_64's `delta64Anon` is not what it reads
(`ArchHandler_x86_64.cpp:588`); arm64 does not count pointers to the GOT as GOT accesses (inputs
`GOTPointers`); a Thumb-to-ARM shim's bytes are wrong (inputs `ShimObjects`); records lose negative
arm64 addends, x86 negative deltas with addends, pointers to weak globals with addends, non-scattered ARM movw/movt with offsets,
and branches without switch to the other instruction set; absolute addresses of library symbols in instructions have no
fixup; a record at the very end of a section passes the check; trie nodes of 128 to 255 bytes are counted
with two bytes and written with one.

### PE/COFF

`PeLink` has the parts as operators: the reader of objects and import headers, the passes that make the import,
delay-import, export and load configuration tables, ordering and merging of sections, layout, what each relocation
stores, base relocations. A link runs them: `Load` per file with a small symbol resolution (`Resolve`; the
full one is `Resolver`), the passes, `BuildImage`, and then `NextChunk` and `RelocateAtom`, one worker's turn in any order,
since `applyRelocationsX86` and its sisters run in parallel; `Finish` sorts the tables of handlers and functions.

*Checked* (`pecoff`): wherever the image is mapped, each word the object asked to relocate designates its symbol
(`ReferencesArrive`); the importer fills each import slot with what it is for, and each export is found
under its name and ordinal (`LoaderBinds`); sections and header numbers are as a loader needs them, the x64 table of
functions (`.pdata`) lists each function of the objects once, whole, by ascending begin, and the x86 handler table, sorted after it
was relocated, still has every word that was relocated, with a base relocation each (`Loadable`). What the words of the handler table
hold is *not* what the runtime needs, see below.

*Bounds*: two objects, two libraries with plain, ordinal and delayed imports; a reference from code and one from data to
every kind of symbol, on x86, x64 and ARM; handlers and `.pdata` entries in one object or both, in either order. Handlers are places of the
image, none is an absolute symbol. The image base is as in the code; `Delta` is the distance by which a loader moves it.

*Seen while modelling*: the x86 handler table holds, for each handler, its address plus the number of its symbol in the object.
`ReaderCOFF.cpp:958` says "What we want to emit from the linker is a vector of SEH handler VAs", but `:968-971` keep the
symbol numbers as the atom's content and the relocation adds to what is there (`WriterPECOFF.cpp:676`), so the runtime finds no
handler in it. The inputs have it, the model does the same, and the promise is written down as `HandlersAreListed`, which fails
at the first image with a handler (it is in no run; `Loadable` compares with the sums instead).

Left out of the inputs, or of what the properties look at: `/alternatename` aliases fall on another atom when the target is not in the file
with the alias (`Alias.h:24-27`, definition `AliasesAreThere`); a symbol of `.sxdata` that is not in a text section is
lost from the handlers (`ReaderCOFF.cpp:981`); x86's SECTION relocation is one too large
(`WriterPECOFF.cpp:692`, compare `:757`); an x64 `__imp_` pointer is relocated with four bytes; x64 and ARM do not look at the
value of absolute symbols; the handler count of the load configuration is the size of the first table times the
number of tables (`LoadConfigPass.cpp:63`); `/align` changes the header
but not the sections; the entry point is the first atom of that name, local ones included, and an export the last;
`atomRva[target]` inserts into a map shared by workers.

### Linker scripts and the GNU driver

`LinkerScript` is the lexer on sequences of pieces, the recursive descent parser and the printer, and `Sema`:
the linear list of rules and the questions of the layout: which of two sections comes first, which output
section, which assignments come now. `GnuLd` begins with the arguments (`ParseOptions`, one `ProcessArg`
each, `FinishParse`), where scripts among the inputs are parsed and add inputs of their own, and goes on with
`BuildChunks`, `AssignSections`, `AssignAddresses` and `FinalizeDefaultAtomValues`, where the layout asks.

*Checked* (`gnu_ld`): scripts written as trees and spelled by an independent writer are parsed to the same tree, and what
`dump` prints parses to it again (`ScriptIsRead`); each section lands where the first rule that matches it says,
in the order of the rules, and assignments see the values of those before them (`ScriptIsFollowed`); a
group's marker counts the files the command line gives between its own brackets, with groups, missing files, whole archives and scripts
inside, so the resolver never goes back over a file given before the group, and goes back over the whole group if there is nothing but files
in it (`GroupsHoldTheirFiles`).

*Bounds*: numbers have 20 bits instead of 64; trees of each operator in each operand of another; two or three rules and
sections; groups of up to three inputs, one behind the other, in one another and unclosed, with missing files, empty groups and scripts with a
`GROUP` of their own inside; libraries on the search path, and scripts.

*Seen while modelling*: the marker counts files and the resolver goes back over nodes (`GnuLdDriver.cpp:682`, `Resolver.cpp:262-266`), so of a
group with a group or a script inside the first files are left out when it is searched again: in `--start-group a.o --start-group b.o
--end-group c.o --end-group` the outer group is `b.o`, the inner marker and `c.o`, and a `libc.so` that is a script moves the start by
as many nodes as it adds. The inputs have both; that all of a group is searched again is written down as `GroupsHoldAll`, which fails for them (it
is in no run). A missing file moves the start as well, but ends the link when the resolver meets it. That
`getSize()` "returns the number of files between the corresponding --start-group and this marker" (`Node.h:40-41`) is true with groups inside
and not with scripts.

Left out of the inputs: the rest of a script behind its last command is dropped
(`LinkerScript.cpp:2253`); `+=` and its kin parse as `=`; `PROVIDE` and `HIDDEN` do not change the evaluation; a
ternary inside an operator prints without parentheses; `member:archive` is one name for the lexer, and the examples in
the header's comments do not parse; a hexadecimal number that ends in `b` or `d` is misread; `*` needs a
character; `[..]` tests a substring; the order of sections is no strict weak order across files and
sorted groups invert it (`:2475-2479`). `AS_NEEDED` of a script is not
looked at; an unclosed `--start-group` is accepted.

## Runs

| Run | Module | Properties | Distinct states |
|---|---|---|---|
| `symbol_table` | `MCSymbolTable` | `LosersLeadToTheWinner`, `StrongestWins`, `NoDuplicateDefinition`, `UndefinedIsStrictest`, `ResolvedForever` | 53 thousand |
| `resolver` | `MCResolver` | `NoNameIsForgotten`, `ResultIsWhole`, `StripIsExact`, `SearchesAreExhaustive`, `TableSpec`, `Termination` | 84 thousand |
| `thread_pool` | `ThreadPool` | `SyncMeansDone`, `NothingIsLost`, `Implements`, `Termination` | 17 thousand |
| `archive_preload` | `MCArchivePreload` | `PreloadIsHarmless`, `SameAnswers`, `Ends` | 298 thousand |
| `layout_pass` | `MCLayoutPass` | `LayoutIsRight`, `Termination` | 66 thousand |
| `relocations` | `MCSectionWriter` | `CommittedAsIfAlone`, `TargetsAreReached`, `OwnBytesOnly` | 3 thousand |
| `got_plt` | `MCGotPlt` | `StubsBind`, `TablesAreLaidOut`, `PointersAgree`, `FlagsCover` | 188 thousand |
| `elf_writer` | `MCElfWriter` | `ImageIsLoadable`, `SymbolTablesAgree`, `SectionsStayWhole`, `RelocationsArrive` | 14 thousand |
| `macho` | `MCMachOLink` | `RoundTrip`, `UsesReachTheirAtoms`, `ImageLoadsAnywhere` | 15 thousand |
| `pecoff` | `MCPeLink` | `ReferencesArrive`, `LoaderBinds`, `Loadable` | 9 thousand |
| `gnu_ld` | `MCGnuLd` | `ScriptIsRead`, `ScriptIsFollowed`, `GroupsHoldTheirFiles` | 2 thousand |
| `archive_side_effect` | `MCArchivePreload` | `NoSideEffect` is violated | |

All but the last hold. `CHECK_DEADLOCK FALSE` is set where a behaviour just stops when its work is done: the symbol table
(also after `report_fatal_error`), `SectionWriter`, `GotPlt`, `ElfWriter`, `MachOLink` and `GnuLd`. The other
modules have a last state that repeats, so that stopping anywhere else is an error. The resolver and the layout pass
are each one sequential thread: weak fairness of `Next` says that it goes on until it returns. The runs of the flavours claim no
liveness: each is a fixed number of steps.

The inputs of a run are the small links of its MC module, not everything the code accepts. Where an input is left out because
the code does something else with it than a document or another part of the code expects, it is listed above
under "seen while modelling". One disagreement is kept as a run with its counterexample, `archive_side_effect`, since a
comment of the code promises the contrary (`ArchiveLibraryFile.h:42`).

One hazard has no property: with mixed COMDAT selections (`SymbolTable.cpp:170`) the winner depends on the order of the files, and
no document says which one is right.

## Proofs

Eight modules hold what TLAPS checks for every value of the constants.

### Iteration

The library's induction theorems take a predicate as parameter, which no installed prover can instantiate. Sets can stand for
predicates: `LeastOfNat` says that a set of numbers with an element has a least one, by well-foundedness; from it follow
induction with a set (`SetInduction`, `UpToInduction`), that a function defined from its own earlier values exists
(`Iterates`), that a union of finitely many finite sets is finite (`FiniteUnion`), and that a walk without cycles in a
finite set comes to rest within as many steps as the set has elements (`WalkEnds`). This is what makes `Replacement`, `MarkLive` and `AloneAfter`, all
recursive functions, accessible to proof.

### SymbolTableProofs

It holds for every set of atoms that satisfies `SymbolTableAssumption`.
`TypeOK` is inductive as it stands, because it says that the tables hold only atoms that were
added. `NameInv` adds what the entry of a name says of all atoms added under it: there is an entry
when there is an atom (`EntryInv`), an undefined entry means that all of them are undefined and
none is stricter (`UndefinedInv`), and an entry is redirected only to its own fallback
(`FallbackInv`). The last one needs `WinnerIsNew`: the atoms of a shared library are added once per visit, and
one that came back and won again would be an entry with an old redirection. It cannot, because a
shared library atom wins only over an undefined one, and an undefined one only if it is stricter
than the entry; this uses the assumption that a shared library has neither defined nor absolute
atoms. From `NameInv` follow `StrictestIsKept` (`UndefinedIsStrictest`) and `ResolvedStays`
(`ResolvedForever`). For `StrongestIsKept` and `DuplicatesAreFound` (`StrongestWins`,
`NoDuplicateDefinition`) the two decision tables are first shown monotone, atom against atom
(`WinnerIsStronger`, `LoserIsWeaker`, `StrongConflict`); then the entry, being a strongest atom,
meets a new strong definition even when the first strong definition has lost the name since.

`LosersAreRedirected` (`LosersLeadToTheWinner`) rests on `ChainInv`. Each key of an added atom has an atom
(`RepresentativeInv`). A redirection of a named atom stays within the name or leads to the atom's fallback (`EdgeInv`). An atom for which its
key does not stand is redirected to another of the same key (`KeyInv`), and one for which it stands at most to its
fallback (`CurrentInv`). No set of atoms is closed under redirection (`NoReplacementCycle`), or `replacement()` would go on for
ever: a new redirection within a key leads to the new winner, which nothing redirects but to a fallback, and a fallback's name
has a higher rank. The hypothesis is therefore that names can be ranked so that fallbacks lead up (`FallbacksLeadUp(rank)`): the
input's weak externals do not fall back on each other in a circle. The code does not enforce it, and without it the
property is false.

### ResolverProofs

It assumes `ResolverAssumption` (what the symbol table assumes; that the atoms of a file are sequences, that the members of
archives are files; and that `exports` of a shared library answers with a shared library atom of the name asked for), and from the
walk on also `ReadersAssumption` and `DriversAssumption`.
The table's theorems are instantiated at the resolver's variables.

`TableRefined` (`TableSpec`) shows that each step of the resolver is a step of the table or leaves it alone. The
guard of each table action has to be found in the call that is pending: an atom is added only by a file that has it, and
a fallback only to an undefined entry. `TableInEveryLink` then transfers the table's theorems: in every link the
strongest definition wins, strong duplicates are found, and the strictest use is kept; and `LosersAreRedirectedInEveryLink`
transfers `LosersLeadToTheWinner` with its hypothesis.

`NothingIsForgotten` (`NoNameIsForgotten`) rests on four invariants. `NameInv` of the table. `ListInv`: the
pending calls are those of one file, and every remembered position lies within the list. `ListedInv`: an
unresolved name is on the list, or the call that will put it there, the redirection of its entry to the fallback, is
pending. `SearchInv`: for each name before a library's position the library was asked in vain, so it does not offer the
name, or the name is defined by now, or the atom that the library offered is the pending call. That
a name struck off may stay off is `ResolvedForever` of the table.

`RootsAreKnownInEveryLink` is about the walk over the nodes. `WalkInv` says of each root that its name has an entry, or that a
call for an atom of this name is pending, or that an object file with one is ahead: at the current node or behind
it, unread. `addLibraryFile` inserts nodes during the walk, and the index is not moved. The part "ahead" survives
because an insertion moves no node to the left, so that a file that is ahead does not come to stand
before the index; for this there must be a group to insert into, and its end must stay behind its files (`NodesAreTyped`).

`StripIsExactInEveryLink` (`StripIsExact`) goes through the phases of `resolve()`. While files are read, `GatherInv`: what was
brought in is closed under references, except that the children of a group come with its parent when the
parent is the first of its name and only then, and the atoms that are never stripped are among the roots. After `updateReferences()`,
`SettledInv`: references lead to atoms that are known and not of a group that lost its name, since replacements lead to the winner
(`ChainInv` of the table, and so the hypothesis on fallbacks), and an atom of a lost group is unknown. After
`deadStripOptimize()`, `KeptInv` and `UsedInv`: `MarkLive` is the least set with the roots that is closed under what an atom
keeps (`MarkLiveIsExact`), so every set of live atoms without a root is kept by another live atom, and every live
undefined atom is a root or is referred to. The steps after it remove atoms only when they are dead or
coalesced away.

The longest proof is that the merged file is whole. Its invariant follows an atom through the phases of `resolve()`.

While files are read (`HandOverInv`), no atom comes to the resolver twice, but for those of shared libraries, which are visited again
with their group. `OnceInv` says of the list of known atoms and of the pending calls together that no atom is in both or twice in one, and that
the file of each is one of those handled; a fallback comes only after its atom. `FilesInv` says that a file is either visited by a node
or instantiated by an archive, never both, since the two remember what they did in different sets (`seen`, `_membersInstantiated`). It is here
that `AtomsAreOwned` and `MembersAreInside` are used.

After `updateReferences()`, `RedirectedInv`: the references are the input's, each led to the winner of its target's name but for
associates; the dead atoms are the associates of the losers; and `KnownOnceInv`. From `deadStripOptimize()` on, `UnitsInv`: what is known is
closed under references, except that a parent which lost its name is still there without its children, and of a unit that lost or was
stripped nothing is left that another atom uses. That marking never splits a group needs the direction against the references: by
`_reverseRef` a child keeps its parent (`Keeps`). An associate is marked only through its unit. `RemovalIsWhole` is the last step: what remains
when losers and dead atoms are taken out refers to nothing that was taken out, for a redirected reference leads to a winner, and only
its unit leads to an associate.

`MergedFileIsUniqueInEveryLink` is the part that needs only the condition on fallbacks: types, each definition once, one global atom of a
name. `MergedFileIsWholeInEveryLink` (`ResultIsWhole`) adds units and closed references, for which it needs `AssociatesStayApart`.

### LayoutPassProofs

It holds for any finite set of atoms, in any order, under `InputsAssumption`. `LayoutIsRightInEveryLink` (`LayoutIsRight`) rests on what
the two tables are between the inner loops: a `Forest`, in which every atom is reached from its root, which is its own root, and
no link leads to a root. "Reached" is said with sets (every set that has the one atom and is closed under links has the other), for
which `ReachFirst`, `ReachLast` and `ReachFork` stand in for an induction on paths. In the loops the forest is broken in one place. During a search
(`SearchInv`) it is whole without the link of the atom at hand, which was entered before, and the target still is behind the cursor; this is
what makes the assertions of the searches hold. During `setChainRoot` (`RootInv`) the atoms with the old root are those behind the
cursor, and the new root is not among them because links and pending references together do not go round (`IsAcyclic(Pending)`); an insertion
keeps that because a set closed under the new links is closed under the old ones. `OrdinalInv` says that the ordinals are different numbers
below their count and that each atom of a chain gets one.

For `LayoutKept` a second invariant, `KeptInv`, is needed, under its condition on shared targets: the links form lines (`Line`: no two
lead to one atom, and each leads to the target or to an atom of size zero with the same target), a link joins atoms of one root but for the
one at the cursor of `setChainRoot`, and ordinals count along links (`CountInv`). So the case that needs
`checkAllPrevAtomsZeroSize` never comes up (`NeverChecked`). At the end `Adjacent` shows that linked atoms are neighbours in the sorted order, whatever the
ranks, and `TargetIsMet` that following the links from an atom one meets its target with only atoms of size zero
between, since the places grow and are bounded. Both invariants were first checked by TLC on the inputs of the run.

### GotPltProofs

Both theorems are for any links that satisfy `InputsAssumption`: references of the kinds that the passes know (others are left
alone), shared symbols in dynamic links only (and none for ARM, whose dynamic passes the code declares unreachable), no IFUNCs for MIPS, and flags that
`mergeHeaderFlags` does not refuse at once. How many references there are, to which symbols and in which order, is free.

`StubsBindInEveryLink` (`StubsBind`). The property speaks of the finished link and is not inductive: a call is right because of what the maps of the
pass hold, and a map is right because of the atoms that earlier references made. `StubsInv` says both. Of the atoms (`ElfStubs`): what `_pltMap`
has for a symbol is a PLT atom that stands behind its own slot, refers to that slot and to PLT0 at most, and the slot is bound to the symbol; what the veneer
maps have is a veneer of the right instruction set, and that of a stub leads to the stub in `_pltMap`; each slot that waits for the loader
is bound to PLT0, at once or through its stub (`IsBound`). Of the references handled so far (`ElfTargetIsRight`): the target of a call is
what the map has for its symbol *now*, not only when it was made. The proof is that every operation of the passes only grows what is there
(`ElfGrows`: atoms and map entries stay, the GOT map aside, whose entries a PLT entry replaces, which is why the invariant does not
go through it), and that each handler leaves the right entry behind (`ElfHandleIsRight`, led through one lemma per operation). That the
PLT entry of an IFUNC is right whatever GOT entry the symbol had is so because the slot is made anew.
MIPS is different (`MipsStubs`): regular and microMIPS stubs share a slot found in a map that only grows, its slots are not bound to PLT0 before
`createPLTHeader` rewrites all of them behind the last reference, and there the atoms do not just grow; so the invariant demands
`IsBound` only once PLT0 is there, and `HeaderIsGood` shows that the rewriting loses no role, no reference and no map entry. `StubsInv` was checked by TLC on the
links of the run before it was proved.

`FlagsCoverEveryFile` (`FlagsCover`): `FlagsInv` says that each file merged is covered by the flags. That the merged instruction set still runs the code of
all files merged before is led through `Runs`, which instruction sets a machine runs, a relation taken from the architecture and not from
the code: all that `matchMipsISA` accepts is in it (`MatchRuns`, along its climb of `isaTree`), and it is transitive (`RunsClimb`). The rest is that
nothing in the pass touches the flags any more, through all its maps (`CollectKeeps`, `HandleKeeps`, `PerformKeeps`).

### SectionWriterProofs

It assumes `OutputsAssumption`, a fact about the layout that says nothing of what the handlers do. The first part goes through the
handlers of the eight targets (`Or1kKeeps` to `MipsKeeps`, together `EveryTargetKeeps`): whatever the reference, the answer depends only on the words
that lie in the field of its kind, and each store lies in that field. What is computed stays folded: the addends, sums and masks are not
looked into, only which words they come from and how many bytes they go to. With the words of the file (`ReadInAtom`, `PutInPlace`)
`RelocationsAreLocal` follows: a relocation whose field lies in its atom looks at the bytes of the atom only, and stores
into them only. For little endian OR1K the field of a half word has to be four bytes for this; `LittleHalfOverruns` proves that with the two
bytes the relocation has, a half word at the end of an atom clears the first two bytes of what lies behind it, whatever stood there, and succeeds.

The second part is about the tasks. `Invariant` says that the bytes of each atom are those of
`AloneAfter`, the recursive function that writes the atom alone, up to the reference that comes next (`ContentInv`), and that a
section has failed when one of these references was refused (`RefusedInv`). A step of one task keeps the bytes of the
others because its stores stay in its atom, and makes of its own bytes what it would make alone because it looks at
nothing else. `CommittedIsSequential` (`CommittedAsIfAlone`) follows when all tasks are done, and `TasksStayInTheirAtoms`
(`OwnBytesOnly`) from the steps, for every layout, target, kind of relocation and value.

### ThreadPoolProofs

It proves the safety of the pool for any finite sets of tasks and workers
(`ThreadPoolAssumption`). `SyncMeansDone` is not inductive: that the latch is zero says nothing about tasks unless
the latch counts them. The invariant `IInv` therefore says where each task is: a task is *outstanding* from its
`inc()` to its `dec()`, and the latch is the number of outstanding tasks (`CountInv`). For an
increment or a decrement to keep that, no two threads may hold the same task
(`RunInv`, `PushInv`, `StackInv`), and none may get lost (`NoneLost`). A closure that spawns is
outstanding itself, so the owner is still before the end of its `sync()` (`OwnerInv`), and the new task
cannot be missed. The second latch counts the workers that have not left. There is a lemma per
action that moves a task or changes a count, and one, `CalmStep`, for all actions that only move a thread
between places where it has no task. From `IInv` follow `TypeCorrect` (and with it that no latch is decremented at
zero), `SyncIsComplete`, `DestroyedIsUnused`, `NothingIsLeftBehind`, `EachRunsOnce`, their sum
`NothingGetsLost` (`NothingIsLost`), and
`GroupRefined`: initial states and steps of the pool are those of `TaskGroup`.

### ArchivePreloadProofs

It holds for any sets of names, members and workers, any table of contents and any number of calls (`PreloadAssumption`).
That a member is loaded once is not inductive, because two threads may load. Who may is decided by the member's future: while
it has none, only the resolver, which is at one place at a time; once it has one, only the task spawned with
it, and there is one such task. `IInv` says so part by part: where each thread may be (`PlaceInv`), that the table of
contents is empty or whole (`ParseInv`), that a task is at one place (`JobInv`), what a future says about its task and its member
(`FutureInv`), what is loaded yet (`LoadInv`), what was asked and answered (`AskedInv`, `AnswerInv`), and that nothing is used after
its end (`DestroyedUnused`). From it follow `LoadingAheadIsHarmless` (`PreloadIsHarmless`) and `AnswersRefined`, the
safety part of `SameAnswers`: initial states and steps are those of `Archive`.

### Only model-checked

* Liveness and the fairness part of the refinements (`Implements`, `SameAnswers`, `Termination`, `Ends`): ENABLED and fairness are out of
  the prover's reach.
* `SearchesAreExhaustive`: it is not true of all inputs. A tentative definition that an overriding member brings is not overridden
  itself, and a group is not repeated for the undefined symbols of a shared library or for a fallback (see "seen while modelling" of
  the resolver); the links of the run have none of these.
* The other properties of the flavours (`TargetsAreReached`, `TablesAreLaidOut`, `PointersAgree`, `ImageIsLoadable`, `RoundTrip`, `LoaderBinds`, `ScriptIsRead` and the
  others): they compare the outcome of a whole link with an independent reader of the bytes. The passes fold over sequences of
  records throughout, and their inputs are the links of an MC module, with no characterisation in general.

## Not modelled

* YAML and native formats: serialisation of atoms, record by record, without state between records.
* The list of passes, error categories, the registry of readers, and the tables of names and constants.
* Option parsing of the WinLink, Darwin and Core drivers, and the options that set one field; `.drectve` options (their
  effect on the nodes is in `Resolver`); the import library, which another program writes.
* `parallel_quick_sort` and the ConcRT executor of Windows; `--whole-archive` reading of all members of an
  archive (to the resolver they are plain inputs).
* ELF: the symbols of shared objects (`DynamicFile.h`), addends of `Rel` sections, `.eh_frame_hdr`, Hexagon's GOT and PLT, the bytes of
  the stubs; of MIPS the pairing of addends, the offsets of `gp` and TLS, `.reginfo` and `.MIPS.options`.
* Mach-O: the compact unwind pass, the split of sections without relocatable symbols, the order of the symbol table and
  indirect symbols, the bytes of the load commands.
* Formatting of diagnostics, logging, and the reading of files from disk.

A component of which such a part is missing is "partly" modelled in `PROJECT.json`, with a note.
