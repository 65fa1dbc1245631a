--------------------------- MODULE ArchivePreload ---------------------------
(***************************************************************************)
(* FileArchive (lib/ReaderWriter/FileArchive.cpp) with the threads that    *)
(* use it: the resolver, which asks for members and has some of them       *)
(* loaded ahead, the workers, which load them into a Future                *)
(* (include/lld/Core/Parallel.h), File::parse (lib/Core/File.cpp), which   *)
(* both call on the archive, and the end of the link, which leaves tasks   *)
(* behind (lib/Driver/Driver.cpp) until the LinkingContext's group syncs.  *)
(*                                                                         *)
(* FileArchive::_mutex is taken by the resolver's thread alone, so it      *)
(* never blocks and is left out. A member's own parse() has one caller and *)
(* is part of loading it. Workers take the tasks in any order.             *)
(***************************************************************************)
EXTENDS Naturals, FiniteSets

CONSTANTS
  Names, Members, NoMember, Contents,  \* as in Archive
  Workers,
  Resolver,  \* the thread of the resolver
  NoThread,
  Parse,     \* the task in which the driver parses the archive
  MaxCalls   \* bound on the calls of the resolver, in a run

ASSUME PreloadAssumption ==
  /\ Resolver \notin Workers
  /\ NoThread \notin Workers \cup {Resolver}
  /\ Parse \notin Members \cup {NoMember}
  /\ MaxCalls \in Nat
  /\ NoMember \notin Members
  /\ \A c \in Contents :
       /\ c.toc \in [Names -> Members \cup {NoMember}]
       /\ c.bad \subseteq Members
       /\ c.data \subseteq Names
       /\ c.readable \in BOOLEAN

VARIABLES
  archive,       \* the archive's bytes (see Archive) and whether its table of
                 \* contents can be read to the end
  pc,            \* where a thread is
  pending,       \* tasks that were spawned and not taken
  job,           \* the task of a worker
  parseMutex,    \* who holds the archive's _parseMutex
  lastError,     \* _lastError of the archive: "none", "ok" or "error"
  toc,           \* _symbolMemberMap
  instantiated,  \* _membersInstantiated
  future,        \* _preloaded: "none", "empty", or "set" (_hasValue)
  value,         \* _val of a future
  asked,         \* the member that find() is after
  answer,        \* what the last find() returned
  loads,         \* history: how often a member was loaded
  merged,        \* the members whose header flags the context took in
  calls          \* bounds a run

vars == <<archive, pc, pending, job, parseMutex, lastError, toc, instantiated, future,
          value, asked, answer, loads, merged, calls>>

Threads == Workers \cup {Resolver}
Tasks == Members \cup {Parse}
EmptyToc == [name \in Names |-> NoMember]

A == INSTANCE Archive WITH tried <- instantiated

\* Mutant: the resolver leaves the parsing to the driver's task.
InitUnparsed ==
  /\ archive \in Contents
  /\ pc = [t \in Threads |-> IF t = Resolver THEN "ready" ELSE "idle"]
  /\ pending = {Parse}
  /\ job = [w \in Workers |-> NoMember]
  /\ parseMutex = NoThread
  /\ lastError = "none"
  /\ toc = EmptyToc
  /\ instantiated = {}
  /\ future = [m \in Members |-> "none"]
  /\ value = [m \in Members |-> NoMember]
  /\ asked = NoMember
  /\ answer = NoMember
  /\ loads = [m \in Members |-> 0]
  /\ merged = {}
  /\ calls = 0

\* The driver has spawned the task that parses the archive.
Init ==
  /\ archive \in Contents
  /\ pc = [t \in Threads |-> IF t = Resolver THEN "parse" ELSE "idle"]
  /\ pending = {Parse}
  /\ job = [w \in Workers |-> NoMember]
  /\ parseMutex = NoThread
  /\ lastError = "none"
  /\ toc = EmptyToc
  /\ instantiated = {}
  /\ future = [m \in Members |-> "none"]
  /\ value = [m \in Members |-> NoMember]
  /\ asked = NoMember
  /\ answer = NoMember
  /\ loads = [m \in Members |-> 0]
  /\ merged = {}
  /\ calls = 0

Goto(t, from, to) ==
  /\ pc[t] = from
  /\ pc' = [pc EXCEPT ![t] = to]

-----------------------------------------------------------------------------
(***************************************************************************)
(* File::parse() of the archive, by the resolver (getDefinedSymbols) and   *)
(* by a worker: doParse() runs under the mutex, at most once.              *)
(***************************************************************************)

LockParse(t) ==
  /\ parseMutex = NoThread
  /\ Goto(t, "parse", "parsing")
  /\ parseMutex' = t
  /\ UNCHANGED <<archive, pending, job, lastError, toc, instantiated, future, value, asked,
                 answer, loads, merged, calls>>

\* An archive that cannot be read to its end keeps the entries read so far.
DoParse(t) ==
  /\ pc[t] = "parsing"
  /\ IF lastError = "none"
       THEN /\ toc' = archive.toc
            /\ lastError' = IF archive.readable THEN "ok" ELSE "error"
       ELSE UNCHANGED <<toc, lastError>>
  /\ parseMutex' = NoThread
  /\ pc' = [pc EXCEPT ![t] = IF t = Resolver THEN "ready" ELSE "dec"]
  /\ UNCHANGED <<archive, pending, job, instantiated, future, value, asked, answer, loads,
                 merged, calls>>

-----------------------------------------------------------------------------
(***************************************************************************)
(* The resolver: preload() of a name the archive defines, and find() once  *)
(* the archive was parsed without an error.                                *)
(***************************************************************************)

Calling ==
  /\ pc[Resolver] = "ready"
  /\ calls < MaxCalls
  /\ calls' = calls + 1

\* Mutant: the members that were returned are not looked up.
PreloadTwice(name) ==
  LET m == toc[name]
  IN  /\ Calling
      /\ m # NoMember
      /\ IF future[m] # "none"
           THEN UNCHANGED <<future, pending>>
           ELSE /\ future' = [future EXCEPT ![m] = "empty"]
                /\ pending' = pending \cup {m}
      /\ UNCHANGED <<archive, pc, job, parseMutex, lastError, toc, instantiated, value, asked,
                     answer, loads, merged>>

Preload(name) ==
  LET m == toc[name]
  IN  /\ Calling
      /\ m # NoMember
      /\ IF m \in instantiated \/ future[m] # "none"
           THEN UNCHANGED <<future, pending>>
           ELSE /\ future' = [future EXCEPT ![m] = "empty"]
                /\ pending' = pending \cup {m}
      /\ UNCHANGED <<archive, pc, job, parseMutex, lastError, toc, instantiated, value, asked,
                     answer, loads, merged>>

FindNothing(name, dataSymbolOnly) ==
  /\ Calling
  /\ lastError = "ok"
  /\ A!Sought(toc, archive.data, instantiated, name, dataSymbolOnly) = NoMember
  /\ answer' = NoMember
  /\ UNCHANGED <<archive, pc, pending, job, parseMutex, lastError, toc, instantiated, future,
                 value, asked, loads, merged>>

\* Mutant: a name that the archive does not define is not told apart.
FindMissing(name, dataSymbolOnly) ==
  /\ Calling
  /\ lastError = "ok"
  /\ asked' = A!Sought(toc, archive.data, instantiated, name, dataSymbolOnly)
  /\ instantiated' = instantiated \cup {asked'}
  /\ pc' = [pc EXCEPT ![Resolver] = "load"]
  /\ answer' = NoMember
  /\ UNCHANGED <<archive, pending, job, parseMutex, lastError, toc, future, value, loads,
                 merged>>

\* The member is marked before it is known whether it can be loaded.
FindMember(name, dataSymbolOnly) ==
  /\ Calling
  /\ lastError = "ok"
  /\ asked' = A!Sought(toc, archive.data, instantiated, name, dataSymbolOnly)
  /\ asked' # NoMember
  /\ instantiated' = instantiated \cup {asked'}
  /\ pc' = [pc EXCEPT ![Resolver] = IF future[asked'] = "none" THEN "load" ELSE "get"]
  /\ answer' = NoMember
  /\ UNCHANGED <<archive, pending, job, parseMutex, lastError, toc, future, value, loads,
                 merged>>

\* instantiateMember(): the reader merges the header flags into the context
\* before it makes the file and parses it; each of the three can go wrong.
Loading(m) ==
  /\ loads' = [loads EXCEPT ![m] = @ + 1]
  /\ \/ merged' = merged \cup {m}
     \/ m \in archive.bad /\ UNCHANGED merged

Loaded(m) == IF m \in archive.bad THEN NoMember ELSE m

FindLoads ==
  /\ Goto(Resolver, "load", "ready")
  /\ Loading(asked)
  /\ answer' = Loaded(asked)
  /\ asked' = NoMember
  /\ UNCHANGED <<archive, pending, job, parseMutex, lastError, toc, instantiated, future,
                 value, calls>>

\* Mutant: get() does not look at _hasValue.
GetUnset ==
  /\ Goto(Resolver, "get", "ready")
  /\ answer' = value[asked]
  /\ asked' = NoMember
  /\ UNCHANGED <<archive, pending, job, parseMutex, lastError, toc, instantiated, future,
                 value, loads, merged, calls>>

\* Future::get().
Get ==
  /\ Goto(Resolver, "get", "ready")
  /\ future[asked] = "set"
  /\ answer' = value[asked]
  /\ asked' = NoMember
  /\ UNCHANGED <<archive, pending, job, parseMutex, lastError, toc, instantiated, future,
                 value, loads, merged, calls>>

GetWaits ==
  /\ Goto(Resolver, "get", "waiting")
  /\ future[asked] = "empty"
  /\ UNCHANGED <<archive, pending, job, parseMutex, lastError, toc, instantiated, future,
                 value, asked, answer, loads, merged, calls>>

\* A wake-up without a cause.
GetWakes ==
  /\ Goto(Resolver, "waiting", "get")
  /\ UNCHANGED <<archive, pending, job, parseMutex, lastError, toc, instantiated, future,
                 value, asked, answer, loads, merged, calls>>

-----------------------------------------------------------------------------
(***************************************************************************)
(* The workers.                                                            *)
(***************************************************************************)

\* Mutant: the future is set before the member is loaded, and then it is not.
TakeAndSet(w, task) ==
  /\ task \in pending
  /\ Goto(w, "idle", IF task = Parse THEN "parse" ELSE "set")
  /\ pending' = pending \ {task}
  /\ job' = [job EXCEPT ![w] = task]
  /\ UNCHANGED <<archive, parseMutex, lastError, toc, instantiated, future, value, asked,
                 answer, loads, merged, calls>>

TakeTask(w, task) ==
  /\ task \in pending
  /\ Goto(w, "idle", IF task = Parse THEN "parse" ELSE "load")
  /\ pending' = pending \ {task}
  /\ job' = [job EXCEPT ![w] = task]
  /\ UNCHANGED <<archive, parseMutex, lastError, toc, instantiated, future, value, asked,
                 answer, loads, merged, calls>>

TaskLoads(w) ==
  /\ Goto(w, "load", "set")
  /\ Loading(job[w])
  /\ UNCHANGED <<archive, pending, job, parseMutex, lastError, toc, instantiated, future,
                 value, asked, answer, calls>>

\* Future::set() stores the value under the lock ...
TaskSets(w) ==
  /\ Goto(w, "set", "notify")
  /\ value' = [value EXCEPT ![job[w]] = Loaded(job[w])]
  /\ future' = [future EXCEPT ![job[w]] = "set"]
  /\ UNCHANGED <<archive, pending, job, parseMutex, lastError, toc, instantiated, asked,
                 answer, loads, merged, calls>>

\* Mutant: a waiting get() is not woken.
TaskNotifiesNobody(w) ==
  /\ Goto(w, "notify", "dec")
  /\ UNCHANGED <<archive, pending, job, parseMutex, lastError, toc, instantiated, future,
                 value, asked, answer, loads, merged, calls>>

\* ... and notifies after it.
TaskNotifies(w) ==
  /\ pc[w] = "notify"
  /\ pc' = [pc EXCEPT ![w] = "dec",
                      ![Resolver] = IF @ = "waiting" /\ asked = job[w] THEN "get" ELSE @]
  /\ UNCHANGED <<archive, pending, job, parseMutex, lastError, toc, instantiated, future,
                 value, asked, answer, loads, merged, calls>>

\* The latch of the group is decremented last.
TaskDone(w) ==
  /\ Goto(w, "dec", "idle")
  /\ job' = [job EXCEPT ![w] = NoMember]
  /\ UNCHANGED <<archive, pending, parseMutex, lastError, toc, instantiated, future, value,
                 asked, answer, loads, merged, calls>>

-----------------------------------------------------------------------------
(***************************************************************************)
(* The end of the link. Driver::link waits for the tasks only when the     *)
(* resolver failed. Then the context is destroyed: what the derived class  *)
(* adds, its _taskGroup, which waits, and the nodes with the archives.     *)
(***************************************************************************)

Outstanding == pending # {} \/ \E w \in Workers : pc[w] # "idle"

Fail ==
  /\ Goto(Resolver, "ready", "failed")
  /\ UNCHANGED <<archive, pending, job, parseMutex, lastError, toc, instantiated, future,
                 value, asked, answer, loads, merged, calls>>

SyncAfterFailure ==
  /\ ~Outstanding
  /\ Goto(Resolver, "failed", "synced")
  /\ UNCHANGED <<archive, pending, job, parseMutex, lastError, toc, instantiated, future,
                 value, asked, answer, loads, merged, calls>>

Succeed ==
  /\ lastError = "ok"
  /\ Goto(Resolver, "ready", "linked")
  /\ UNCHANGED <<archive, pending, job, parseMutex, lastError, toc, instantiated, future,
                 value, asked, answer, loads, merged, calls>>

DestroyDerived ==
  /\ pc[Resolver] \in {"linked", "synced"}
  /\ pc' = [pc EXCEPT ![Resolver] = "derived gone"]
  /\ UNCHANGED <<archive, pending, job, parseMutex, lastError, toc, instantiated, future,
                 value, asked, answer, loads, merged, calls>>

\* Mutant: the group is declared before the nodes, and destroyed after them.
DestroyNodesFirst ==
  /\ Goto(Resolver, "derived gone", "gone")
  /\ UNCHANGED <<archive, pending, job, parseMutex, lastError, toc, instantiated, future,
                 value, asked, answer, loads, merged, calls>>

\* The latch's destructor syncs before the nodes are destroyed.
DestroyNodes ==
  /\ ~Outstanding
  /\ Goto(Resolver, "derived gone", "gone")
  /\ UNCHANGED <<archive, pending, job, parseMutex, lastError, toc, instantiated, future,
                 value, asked, answer, loads, merged, calls>>

Gone == pc[Resolver] = "gone" /\ ~Outstanding /\ UNCHANGED vars

ResolverStep ==
  \/ LockParse(Resolver) \/ DoParse(Resolver)
  \/ FindLoads \/ Get \/ GetWaits
  \/ Fail \/ SyncAfterFailure \/ Succeed
  \/ DestroyDerived \/ DestroyNodes
  \/ \E name \in Names :
       \/ Preload(name)
       \/ \E dataSymbolOnly \in BOOLEAN :
            FindNothing(name, dataSymbolOnly) \/ FindMember(name, dataSymbolOnly)

WorkerStep(w) ==
  \/ LockParse(w) \/ DoParse(w)
  \/ TaskLoads(w) \/ TaskSets(w) \/ TaskNotifies(w) \/ TaskDone(w)
  \/ \E task \in Tasks : TakeTask(w, task)

Next == ResolverStep \/ (\E w \in Workers : WorkerStep(w)) \/ GetWakes \/ Gone

\* No thread stops for ever where it can go on.
Fairness == WF_vars(ResolverStep) /\ \A w \in Workers : WF_vars(WorkerStep(w))

Spec == Init /\ [][Next]_vars /\ Fairness

-----------------------------------------------------------------------------
(***************************************************************************)
(* Properties.                                                             *)
(***************************************************************************)

TypeOK ==
  /\ archive \in Contents
  /\ pc \in [Threads -> {"parse", "parsing", "idle", "load", "set", "notify", "dec", "ready",
                         "get", "waiting", "failed", "synced", "linked", "derived gone", "gone"}]
  /\ pending \subseteq Tasks
  /\ job \in [Workers -> Tasks \cup {NoMember}]
  /\ parseMutex \in Threads \cup {NoThread}
  /\ lastError \in {"none", "ok", "error"}
  /\ toc \in {EmptyToc, archive.toc}
  /\ instantiated \subseteq Members
  /\ future \in [Members -> {"none", "empty", "set"}]
  /\ value \in [Members -> Members \cup {NoMember}]
  /\ asked \in Members \cup {NoMember}
  /\ answer \in Members \cup {NoMember}
  /\ loads \in [Members -> Nat]
  /\ merged \subseteq Members
  /\ calls \in 0 .. MaxCalls

\* With members loaded ahead on other threads, find() answers what it would
\* answer without, and always comes back.
SameAnswers == A!Spec

\* No member is loaded twice, by the resolver and by a worker or by two workers:
\* there would be two files with the same atoms.
LoadedOnce == \A m \in Members : loads[m] <= 1

\* The resolver reads the table of contents without a lock; nobody writes it any
\* more once the resolver has called parse().
TocIsStable == [][pc[Resolver] # "parse" /\ pc[Resolver] # "parsing" => UNCHANGED toc]_vars

\* A member that find() returns has been loaded to its end.
AnswerIsLoaded ==
  answer # NoMember =>
    /\ loads[answer] = 1
    /\ \A w \in Workers : job[w] = answer => pc[w] # "load"

\* No task uses the archive or a future of it after they are destroyed.
DestroyedUnused == pc[Resolver] = "gone" => ~Outstanding

\* Loading ahead is invisible but for its speed: a member that find() returns is
\* loaded once and to the end, and nothing outlives the archive.
PreloadIsHarmless == TypeOK /\ LoadedOnce /\ AnswerIsLoaded /\ DestroyedUnused

\* The link comes to its end.
Ends == <>(pc[Resolver] = "gone")

\* Loading a member ahead "has no side effect other than pre-instantiating a
\* file" (ArchiveLibraryFile.h:42): the context of a link that succeeds has seen
\* the members that the resolver asked for, and no others.
NoSideEffect == pc[Resolver] = "linked" => merged \subseteq instantiated
=============================================================================
