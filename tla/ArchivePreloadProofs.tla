------------------------ MODULE ArchivePreloadProofs ------------------------
(***************************************************************************)
(* Loading ahead for any number of names, members, workers and calls.      *)
(*                                                                         *)
(* The heart of the argument is who may load a member. Its future says so: *)
(* while there is none, only the resolver may, once, when it marks the     *)
(* member as returned; from the moment preload() makes one, only the one   *)
(* task that was spawned with it may, and the resolver waits for its       *)
(* value. So a member is loaded by a worker xor by the resolver, and the   *)
(* future cannot be set before the load is over.                           *)
(***************************************************************************)
EXTENDS ArchivePreload, TLAPS

ResolverPlaces ==
  {"parse", "parsing", "ready", "load", "get", "waiting", "failed", "synced", "linked",
   "derived gone", "gone"}

WorkerPlaces == {"idle", "parse", "parsing", "load", "set", "notify", "dec"}

PlaceInv ==
  /\ pc[Resolver] \in ResolverPlaces
  /\ \A w \in Workers : pc[w] \in WorkerPlaces

\* Nobody reads an entry of the table before all of them are there.
ParseInv == toc = IF lastError = "none" THEN EmptyToc ELSE archive.toc

\* A task is at one place.
JobInv ==
  /\ \A w \in Workers :
       /\ pc[w] = "idle" <=> job[w] = NoMember
       /\ pc[w] \in {"parse", "parsing"} => job[w] = Parse
       /\ pc[w] \in {"load", "set", "notify"} => job[w] \in Members
       /\ job[w] \notin pending
  /\ \A v, w \in Workers : job[v] = job[w] /\ job[v] # NoMember => v = w

\* A future exists from the spawn on, and is set by the task and with its member.
FutureInv ==
  \A m \in Members :
    /\ m \in pending => future[m] = "empty"
    /\ \A w \in Workers :
         job[w] = m => future[m] = IF pc[w] \in {"load", "set"} THEN "empty" ELSE "set"
    /\ future[m] = "set" => value[m] = Loaded(m)

\* What is not loaded yet, and what is.
LoadInv ==
  \A m \in Members :
    /\ loads[m] \in {0, 1}
    /\ m \in pending => loads[m] = 0
    /\ \A w \in Workers : job[w] = m => loads[m] = IF pc[w] = "load" THEN 0 ELSE 1
    /\ future[m] = "none" /\ m \notin instantiated => loads[m] = 0
    /\ future[m] = "set" => loads[m] = 1

\* The resolver loads a member itself only if it has no future.
AskedInv ==
  /\ asked # NoMember <=> pc[Resolver] \in {"load", "get", "waiting"}
  /\ asked # NoMember => asked \in instantiated
  /\ pc[Resolver] = "load" => future[asked] = "none" /\ loads[asked] = 0
  /\ pc[Resolver] \in {"get", "waiting"} => future[asked] # "none"

AnswerInv ==
  answer # NoMember =>
    answer \in instantiated /\ loads[answer] = 1 /\ future[answer] \in {"none", "set"}

IInv ==
  /\ TypeOK
  /\ PlaceInv
  /\ ParseInv
  /\ JobInv
  /\ FutureInv
  /\ LoadInv
  /\ AskedInv
  /\ AnswerInv
  /\ DestroyedUnused

-----------------------------------------------------------------------------
\* The entries of the table are members, as soon as there are any.
LEMMA TocOfMembers ==
  ASSUME TypeOK, NEW name \in Names
  PROVE  toc[name] \in Members \cup {NoMember}
BY PreloadAssumption DEF TypeOK, EmptyToc

LEMMA InitHolds == Init => IInv
<1> SUFFICES ASSUME Init PROVE IInv
  OBVIOUS
<1> USE PreloadAssumption DEF Init
<1>1. TypeOK
  BY DEF TypeOK, Threads, Tasks
<1>2. PlaceInv /\ ParseInv /\ AskedInv /\ AnswerInv /\ DestroyedUnused
  BY DEF PlaceInv, ParseInv, AskedInv, AnswerInv, DestroyedUnused, ResolverPlaces,
         WorkerPlaces, Threads
<1>3. JobInv
  BY DEF JobInv, Threads
<1>4. FutureInv /\ LoadInv
  BY DEF FutureInv, LoadInv
<1> QED BY <1>1, <1>2, <1>3, <1>4 DEF IInv

-----------------------------------------------------------------------------
(***************************************************************************)
(* Steps that move the resolver, and the parsing.                          *)
(***************************************************************************)

\* The resolver goes where it is after the same member as before.
LEMMA ResolverMoves ==
  ASSUME IInv, NEW to \in ResolverPlaces,
         pc' = [pc EXCEPT ![Resolver] = to],
         to \in {"load", "get", "waiting"} <=> pc[Resolver] \in {"load", "get", "waiting"},
         to = "load" <=> pc[Resolver] = "load",
         to = "gone" => ~Outstanding,
         UNCHANGED <<archive, pending, job, lastError, toc, instantiated, future, value, asked,
                     answer, loads, merged, calls>>,
         parseMutex' \in Threads \cup {NoThread}
  PROVE  IInv'
<1> USE PreloadAssumption DEF IInv
<1>1. /\ \A w \in Workers : pc'[w] = pc[w]
      /\ pc'[Resolver] = to
  BY DEF TypeOK, Threads
<1>2. TypeOK'
  BY DEF TypeOK, Threads, ResolverPlaces
<1>3. PlaceInv' /\ ParseInv' /\ AnswerInv'
  BY <1>1 DEF PlaceInv, ParseInv, AnswerInv
<1>4. JobInv'
  BY <1>1 DEF JobInv
<1>5. FutureInv' /\ LoadInv'
  BY <1>1 DEF FutureInv, LoadInv, Loaded
<1>6. AskedInv'
  BY <1>1 DEF AskedInv
<1>7. DestroyedUnused'
  BY <1>1 DEF DestroyedUnused, Outstanding
<1> QED BY <1>2, <1>3, <1>4, <1>5, <1>6, <1>7

\* A worker moves between places where its member is not concerned.
LEMMA WorkerMoves ==
  ASSUME IInv, NEW w \in Workers, NEW to \in WorkerPlaces \ {"idle", "load", "set"},
         pc' = [pc EXCEPT ![w] = to],
         pc[w] \notin {"idle", "load", "set"},
         to \in {"parse", "parsing"} => job[w] = Parse,
         to = "notify" => job[w] \in Members,
         UNCHANGED <<archive, pending, job, lastError, toc, instantiated, future, value, asked,
                     answer, loads, merged, calls>>,
         parseMutex' \in Threads \cup {NoThread}
  PROVE  IInv'
<1> USE PreloadAssumption DEF IInv
<1>1. /\ \A v \in Workers : pc'[v] = IF v = w THEN to ELSE pc[v]
      /\ pc'[Resolver] = pc[Resolver]
  BY DEF TypeOK, Threads
<1>2. TypeOK'
  BY DEF TypeOK, Threads, WorkerPlaces
<1>3. PlaceInv' /\ ParseInv' /\ AnswerInv' /\ AskedInv'
  BY <1>1 DEF PlaceInv, ParseInv, AnswerInv, AskedInv
<1>4. JobInv'
  BY <1>1 DEF JobInv
<1>5. FutureInv' /\ LoadInv'
  BY <1>1 DEF FutureInv, LoadInv, Loaded
<1>6. DestroyedUnused'
  BY <1>1 DEF DestroyedUnused, Outstanding
<1> QED BY <1>2, <1>3, <1>4, <1>5, <1>6

LEMMA LockParseKeeps == ASSUME IInv, NEW t \in Threads, LockParse(t) PROVE IInv'
<1> USE PreloadAssumption DEF LockParse, Goto
<1>1. CASE t = Resolver
  BY <1>1, ResolverMoves DEF ResolverPlaces
<1>2. CASE t \in Workers
  <2>1. job[t] = Parse
    BY <1>2 DEF IInv, JobInv
  <2> QED BY <1>2, <2>1, WorkerMoves DEF WorkerPlaces
<1> QED BY <1>1, <1>2 DEF Threads

\* The table is filled once, and no future exists before.
LEMMA DoParseKeeps == ASSUME IInv, NEW t \in Threads, DoParse(t) PROVE IInv'
<1> USE PreloadAssumption DEF IInv, DoParse
<1>1. /\ \A v \in Workers : pc'[v] = IF v = t THEN "dec" ELSE pc[v]
      /\ pc'[Resolver] = IF t = Resolver THEN "ready" ELSE pc[Resolver]
  BY DEF TypeOK, Threads
<1>2. TypeOK'
  BY DEF TypeOK, Threads
<1>3. PlaceInv' /\ AnswerInv' /\ AskedInv'
  <2>1. PlaceInv' /\ AnswerInv'
    BY <1>1 DEF PlaceInv, AnswerInv, ResolverPlaces, WorkerPlaces
  <2>2. t = Resolver => pc[Resolver] = "parsing" /\ pc'[Resolver] = "ready"
    BY <1>1
  <2>3. t # Resolver => pc'[Resolver] = pc[Resolver]
    BY <1>1
  <2>4. AskedInv'
    BY <2>2, <2>3 DEF AskedInv
  <2> QED BY <2>1, <2>4
<1>4. ParseInv'
  BY DEF ParseInv, EmptyToc
<1>5. JobInv'
  BY <1>1 DEF JobInv
<1>6. FutureInv' /\ LoadInv'
  <2>1. \A w \in Workers, m \in Members : job[w] = m => w # t
    BY DEF JobInv
  <2> QED BY <1>1, <2>1 DEF FutureInv, LoadInv, Loaded
<1>7. DestroyedUnused'
  <2>1. pc'[Resolver] = "gone" => t \in Workers /\ pc[Resolver] = "gone"
    BY <1>1 DEF Threads
  <2>2. t \in Workers => Outstanding
    BY DEF Outstanding
  <2> QED BY <2>1, <2>2 DEF DestroyedUnused
<1> QED BY <1>2, <1>3, <1>4, <1>5, <1>6, <1>7

-----------------------------------------------------------------------------
(***************************************************************************)
(* The calls of the resolver.                                              *)
(***************************************************************************)

LEMMA CallsBounded == ASSUME TypeOK, Calling PROVE calls' \in 0 .. MaxCalls
<1>1. calls \in 0 .. MaxCalls /\ MaxCalls \in Nat
  BY PreloadAssumption DEF TypeOK
<1>2. calls < MaxCalls /\ calls' = calls + 1
  BY DEF Calling
<1> QED BY <1>1, <1>2

\* A member that was not returned and has no future was not loaded: the new task
\* is the only one that will.
LEMMA PreloadKeeps == ASSUME IInv, NEW name \in Names, Preload(name) PROVE IInv'
<1> USE PreloadAssumption DEF IInv, Preload
<1> DEFINE m == toc[name]
<1>1. m \in Members
  BY TocOfMembers
<1>2. CASE m \in instantiated \/ future[m] # "none"
  <2>1. UNCHANGED <<archive, pc, pending, job, parseMutex, lastError, toc, instantiated,
                    future, value, asked, answer, loads, merged>>
    BY <1>2
  <2>2. TypeOK'
    BY <2>1, CallsBounded DEF TypeOK
  <2> QED BY <2>1, <2>2 DEF PlaceInv, ParseInv, JobInv, FutureInv, LoadInv, Loaded, AskedInv,
                            AnswerInv, DestroyedUnused, Outstanding
<1>3. CASE m \notin instantiated /\ future[m] = "none"
  <2>1. /\ pending' = pending \cup {m}
        /\ \A n \in Members : future'[n] = IF n = m THEN "empty" ELSE future[n]
    BY <1>1, <1>3 DEF TypeOK
  <2>2. loads[m] = 0 /\ m \notin pending /\ \A w \in Workers : job[w] # m
    BY <1>1, <1>3 DEF LoadInv, FutureInv
  <2>3. TypeOK'
    <3>1. pending' \subseteq Tasks
      <4>1. pending \subseteq Tasks
        BY DEF TypeOK
      <4> QED BY <1>1, <2>1, <4>1 DEF Tasks
    <3>2. future \in [Members -> {"none", "empty", "set"}]
      BY DEF TypeOK
    <3>3. future' = [future EXCEPT ![m] = "empty"]
      BY <1>3
    <3>4. future' \in [Members -> {"none", "empty", "set"}]
      BY <3>2, <3>3
    <3> QED BY <3>1, <3>4, CallsBounded DEF TypeOK
  <2>4. PlaceInv' /\ ParseInv' /\ DestroyedUnused'
    BY DEF PlaceInv, ParseInv, DestroyedUnused, Calling
  <2>5. JobInv'
    BY <2>1, <2>2 DEF JobInv
  <2>6. FutureInv'
    BY <2>1, <2>2 DEF FutureInv, Loaded
  <2>7. LoadInv'
    BY <2>1, <2>2 DEF LoadInv
  <2>8. AskedInv' /\ AnswerInv'
    BY <1>3, <2>1 DEF AskedInv, AnswerInv, TypeOK
  <2> QED BY <2>3, <2>4, <2>5, <2>6, <2>7, <2>8
<1> QED BY <1>2, <1>3

LEMMA FindNothingKeeps ==
  ASSUME IInv, NEW name \in Names, NEW dataSymbolOnly \in BOOLEAN,
         FindNothing(name, dataSymbolOnly)
  PROVE  IInv'
<1> USE PreloadAssumption DEF IInv, FindNothing
<1>1. TypeOK'
  BY CallsBounded DEF TypeOK
<1> QED BY <1>1 DEF PlaceInv, ParseInv, JobInv, FutureInv, LoadInv, Loaded, AskedInv,
                    AnswerInv, DestroyedUnused, Outstanding

\* The member that is sought is a new one.
LEMMA SoughtIsNew ==
  ASSUME TypeOK, NEW name \in Names, NEW dataSymbolOnly \in BOOLEAN,
         A!Sought(toc, archive.data, instantiated, name, dataSymbolOnly) # NoMember
  PROVE  A!Sought(toc, archive.data, instantiated, name, dataSymbolOnly)
           \in Members \ instantiated
BY TocOfMembers DEF A!Sought

\* The member is marked, and from now on nobody can make a future for it.
LEMMA FindMemberKeeps ==
  ASSUME IInv, NEW name \in Names, NEW dataSymbolOnly \in BOOLEAN,
         FindMember(name, dataSymbolOnly)
  PROVE  IInv'
<1> USE PreloadAssumption DEF IInv, FindMember
<1>1. asked' \in Members \ instantiated /\ pc[Resolver] = "ready"
  BY SoughtIsNew DEF Calling
<1>2. /\ \A w \in Workers : pc'[w] = pc[w]
      /\ pc'[Resolver] = IF future[asked'] = "none" THEN "load" ELSE "get"
  BY DEF TypeOK, Threads
<1>3. TypeOK'
  <2>1. pc' \in [Threads -> ResolverPlaces \cup WorkerPlaces]
    BY DEF TypeOK, Threads, ResolverPlaces, WorkerPlaces
  <2> QED BY <1>1, <2>1, CallsBounded DEF TypeOK, ResolverPlaces, WorkerPlaces
<1>4. PlaceInv' /\ ParseInv' /\ AnswerInv' /\ DestroyedUnused'
  <2>1. pc'[Resolver] \in {"load", "get"}
    BY <1>2
  <2> QED BY <1>2, <2>1 DEF PlaceInv, ParseInv, AnswerInv, DestroyedUnused, ResolverPlaces
<1>5. JobInv'
  BY <1>2 DEF JobInv
<1>6. FutureInv' /\ LoadInv'
  BY <1>2 DEF FutureInv, LoadInv, Loaded
<1>7. AskedInv'
  BY <1>1, <1>2 DEF AskedInv, LoadInv
<1> QED BY <1>3, <1>4, <1>5, <1>6, <1>7

\* What loading does to the history, whoever loads.
LEMMA LoadingCounts ==
  ASSUME TypeOK, NEW m \in Members, loads[m] = 0, Loading(m)
  PROVE  /\ \A n \in Members : loads'[n] = IF n = m THEN 1 ELSE loads[n]
         /\ loads' \in [Members -> Nat]
         /\ merged' \subseteq Members
<1>1. loads' = [loads EXCEPT ![m] = loads[m] + 1]
  BY DEF Loading
<1>2. merged' \subseteq Members
  BY DEF TypeOK, Loading
<1>3. loads \in [Members -> Nat]
  BY DEF TypeOK
<1>4. loads[m] + 1 = 1
  OBVIOUS
<1> QED BY <1>1, <1>2, <1>3, <1>4

\* The resolver loads a member without a future, which no worker knows of.
LEMMA FindLoadsKeeps == ASSUME IInv, FindLoads PROVE IInv'
<1> USE PreloadAssumption DEF IInv, FindLoads, Goto
<1>1. /\ asked \in Members /\ asked \in instantiated
      /\ future[asked] = "none" /\ loads[asked] = 0
  BY DEF AskedInv, TypeOK
<1>2. /\ \A n \in Members : loads'[n] = IF n = asked THEN 1 ELSE loads[n]
      /\ loads' \in [Members -> Nat]
      /\ merged' \subseteq Members
  BY <1>1, LoadingCounts
<1>3. /\ \A w \in Workers : pc'[w] = pc[w]
      /\ pc'[Resolver] = "ready"
  BY DEF TypeOK, Threads
<1>4. asked \notin pending /\ \A w \in Workers : job[w] # asked
  BY <1>1 DEF FutureInv
<1>5. TypeOK'
  BY <1>1, <1>2 DEF TypeOK, Threads, Loaded
<1>6. PlaceInv' /\ ParseInv' /\ DestroyedUnused'
  BY <1>3 DEF PlaceInv, ParseInv, DestroyedUnused, ResolverPlaces
<1>7. JobInv'
  BY <1>3 DEF JobInv
<1>8. FutureInv'
  BY <1>3 DEF FutureInv, Loaded
<1>9. LoadInv'
  BY <1>1, <1>2, <1>3, <1>4 DEF LoadInv
<1>10. AskedInv' /\ AnswerInv'
  BY <1>1, <1>2, <1>3 DEF AskedInv, AnswerInv, Loaded
<1> QED BY <1>5, <1>6, <1>7, <1>8, <1>9, <1>10

\* A future that is set holds a member that was loaded.
LEMMA GetKeeps == ASSUME IInv, Get PROVE IInv'
<1> USE PreloadAssumption DEF IInv, Get, Goto
<1>1. /\ asked \in Members /\ asked \in instantiated
      /\ future[asked] = "set" /\ loads[asked] = 1
      /\ answer' = Loaded(asked)
  BY DEF AskedInv, LoadInv, FutureInv, TypeOK
<1>2. /\ \A w \in Workers : pc'[w] = pc[w]
      /\ pc'[Resolver] = "ready"
  BY DEF TypeOK, Threads
<1>3. TypeOK'
  BY <1>1 DEF TypeOK, Threads
<1>4. PlaceInv' /\ ParseInv' /\ DestroyedUnused'
  BY <1>2 DEF PlaceInv, ParseInv, DestroyedUnused, ResolverPlaces
<1>5. JobInv'
  BY <1>2 DEF JobInv
<1>6. FutureInv' /\ LoadInv'
  BY <1>2 DEF FutureInv, LoadInv, Loaded
<1>7. AskedInv' /\ AnswerInv'
  BY <1>1, <1>2 DEF AskedInv, AnswerInv, Loaded
<1> QED BY <1>3, <1>4, <1>5, <1>6, <1>7

-----------------------------------------------------------------------------
(***************************************************************************)
(* The steps of a worker with its task.                                    *)
(***************************************************************************)

LEMMA TakeTaskKeeps ==
  ASSUME IInv, NEW w \in Workers, NEW task \in Tasks, TakeTask(w, task)
  PROVE  IInv'
<1> USE PreloadAssumption DEF IInv, TakeTask, Goto
<1>1. /\ \A v \in Workers :
           /\ pc'[v] = IF v # w THEN pc[v] ELSE IF task = Parse THEN "parse" ELSE "load"
           /\ job'[v] = IF v = w THEN task ELSE job[v]
      /\ pc'[Resolver] = pc[Resolver]
  BY DEF TypeOK, Threads
<1>2. task \in pending /\ task # NoMember /\ \A v \in Workers : job[v] # task
  BY DEF JobInv, Tasks
<1>3. TypeOK'
  BY DEF TypeOK, Threads
<1>4. PlaceInv' /\ ParseInv' /\ AnswerInv' /\ AskedInv'
  BY <1>1 DEF PlaceInv, ParseInv, AnswerInv, AskedInv, WorkerPlaces
<1>5. JobInv'
  <2>1. \A v \in Workers :
          /\ pc'[v] = "idle" <=> job'[v] = NoMember
          /\ pc'[v] \in {"parse", "parsing"} => job'[v] = Parse
          /\ pc'[v] \in {"load", "set", "notify"} => job'[v] \in Members
    <3> SUFFICES ASSUME NEW v \in Workers
                 PROVE  /\ pc'[v] = "idle" <=> job'[v] = NoMember
                        /\ pc'[v] \in {"parse", "parsing"} => job'[v] = Parse
                        /\ pc'[v] \in {"load", "set", "notify"} => job'[v] \in Members
      OBVIOUS
    <3>1. CASE v # w
      BY <1>1, <3>1 DEF JobInv
    <3>2. CASE v = w
      BY <1>1, <1>2, <3>2 DEF Tasks
    <3> QED BY <3>1, <3>2
  <2>2. \A v \in Workers : job'[v] \notin pending'
    BY <1>1 DEF JobInv
  <2>3. \A u, v \in Workers : job'[u] = job'[v] /\ job'[u] # NoMember => u = v
    BY <1>1, <1>2 DEF JobInv
  <2> QED BY <2>1, <2>2, <2>3 DEF JobInv
<1>6. FutureInv' /\ LoadInv'
  <2>1. \A m \in Members : job'[w] = m => m \in pending /\ pc'[w] = "load"
    BY <1>1, <1>2
  <2>2. \A m \in Members : m \in pending' => m \in pending
    OBVIOUS
  <2>3. FutureInv'
    BY <1>1, <2>1, <2>2 DEF FutureInv, Loaded
  <2>4. LoadInv'
    BY <1>1, <2>1, <2>2 DEF LoadInv
  <2> QED BY <2>3, <2>4
<1>7. DestroyedUnused'
  BY <1>1, <1>2 DEF DestroyedUnused, Outstanding
<1> QED BY <1>3, <1>4, <1>5, <1>6, <1>7

LEMMA TaskLoadsKeeps == ASSUME IInv, NEW w \in Workers, TaskLoads(w) PROVE IInv'
<1> USE PreloadAssumption DEF IInv, TaskLoads, Goto
<1>1. /\ job[w] \in Members /\ loads[job[w]] = 0 /\ future[job[w]] = "empty"
      /\ job[w] \notin pending
  BY DEF JobInv, LoadInv, FutureInv
<1>2. /\ \A n \in Members : loads'[n] = IF n = job[w] THEN 1 ELSE loads[n]
      /\ loads' \in [Members -> Nat]
      /\ merged' \subseteq Members
  BY <1>1, LoadingCounts
<1>3. /\ \A v \in Workers : pc'[v] = IF v = w THEN "set" ELSE pc[v]
      /\ pc'[Resolver] = pc[Resolver]
  BY DEF TypeOK, Threads
<1>4. \A v \in Workers : v # w => job[v] # job[w]
  BY <1>1 DEF JobInv
<1>5. TypeOK'
  BY <1>2 DEF TypeOK, Threads
<1>6. PlaceInv' /\ ParseInv'
  BY <1>3 DEF PlaceInv, ParseInv, WorkerPlaces
<1>7. JobInv'
  BY <1>1, <1>3 DEF JobInv
<1>8. FutureInv'
  BY <1>3 DEF FutureInv, Loaded
<1>9. LoadInv'
  BY <1>1, <1>2, <1>3, <1>4 DEF LoadInv
<1>10. AskedInv' /\ AnswerInv'
  BY <1>1, <1>2, <1>3 DEF AskedInv, AnswerInv, TypeOK
<1>11. DestroyedUnused'
  BY <1>3 DEF DestroyedUnused, Outstanding
<1> QED BY <1>5, <1>6, <1>7, <1>8, <1>9, <1>10, <1>11

LEMMA TaskSetsKeeps == ASSUME IInv, NEW w \in Workers, TaskSets(w) PROVE IInv'
<1> USE PreloadAssumption DEF IInv, TaskSets, Goto
<1>1. /\ job[w] \in Members /\ loads[job[w]] = 1 /\ future[job[w]] = "empty"
      /\ job[w] \notin pending
  BY DEF JobInv, LoadInv, FutureInv
<1>2. /\ \A n \in Members :
           /\ future'[n] = IF n = job[w] THEN "set" ELSE future[n]
           /\ value'[n] = IF n = job[w] THEN Loaded(n) ELSE value[n]
      /\ \A v \in Workers : pc'[v] = IF v = w THEN "notify" ELSE pc[v]
      /\ pc'[Resolver] = pc[Resolver]
  BY <1>1 DEF TypeOK, Threads
<1>3. \A v \in Workers : v # w => job[v] # job[w]
  BY <1>1 DEF JobInv
<1>4. TypeOK'
  BY <1>1 DEF TypeOK, Threads, Loaded
<1>5. PlaceInv' /\ ParseInv'
  BY <1>2 DEF PlaceInv, ParseInv, WorkerPlaces
<1>6. JobInv'
  BY <1>1, <1>2 DEF JobInv
<1>7. FutureInv'
  BY <1>1, <1>2, <1>3 DEF FutureInv, Loaded
<1>8. LoadInv'
  BY <1>1, <1>2, <1>3 DEF LoadInv
<1>9. AskedInv' /\ AnswerInv'
  BY <1>1, <1>2 DEF AskedInv, AnswerInv, TypeOK
<1>10. DestroyedUnused'
  BY <1>2 DEF DestroyedUnused, Outstanding
<1> QED BY <1>4, <1>5, <1>6, <1>7, <1>8, <1>9, <1>10

\* The resolver, if it is woken, looks at the same future again.
LEMMA TaskNotifiesKeeps == ASSUME IInv, NEW w \in Workers, TaskNotifies(w) PROVE IInv'
<1> USE PreloadAssumption DEF IInv, TaskNotifies
<1>1. /\ pc[w] = "notify" /\ pc'[w] = "dec"
      /\ \A v \in Workers : v # w => pc'[v] = pc[v]
      /\ \/ pc'[Resolver] = pc[Resolver]
         \/ pc[Resolver] = "waiting" /\ pc'[Resolver] = "get"
  BY DEF TypeOK, Threads
<1>2. TypeOK'
  BY DEF TypeOK, Threads
<1>3. PlaceInv' /\ ParseInv' /\ AskedInv' /\ AnswerInv'
  BY <1>1 DEF PlaceInv, ParseInv, AskedInv, AnswerInv, ResolverPlaces, WorkerPlaces
<1>4. JobInv'
  <2>1. \A v \in Workers : /\ pc'[v] = "idle" <=> pc[v] = "idle"
                           /\ pc'[v] \in {"parse", "parsing"} => pc'[v] = pc[v]
                           /\ pc'[v] \in {"load", "set", "notify"} => pc'[v] = pc[v]
    BY <1>1
  <2> QED BY <2>1 DEF JobInv
<1>5. FutureInv' /\ LoadInv'
  <2>1. \A v \in Workers :
          /\ pc'[v] = "load" <=> pc[v] = "load"
          /\ pc'[v] \in {"load", "set"} <=> pc[v] \in {"load", "set"}
    BY <1>1
  <2>2. FutureInv'
    <3>1. /\ pending' = pending /\ job' = job /\ future' = future /\ value' = value
          /\ \A m \in Members : Loaded(m)' = Loaded(m)
      BY DEF Loaded
    <3>2. \A m \in Members, v \in Workers : job'[v] = m =>
            future'[m] = IF pc'[v] \in {"load", "set"} THEN "empty" ELSE "set"
      <4> SUFFICES ASSUME NEW m \in Members, NEW v \in Workers, job[v] = m
                   PROVE  future[m] = IF pc'[v] \in {"load", "set"} THEN "empty" ELSE "set"
        BY <3>1
      <4>1. future[m] = IF pc[v] \in {"load", "set"} THEN "empty" ELSE "set"
        BY DEF FutureInv
      <4>2. CASE pc[v] \in {"load", "set"}
        BY <2>1, <4>1, <4>2
      <4>3. CASE pc[v] \notin {"load", "set"}
        BY <2>1, <4>1, <4>3
      <4> QED BY <4>2, <4>3
    <3>3. \A m \in Members :
            /\ m \in pending' => future'[m] = "empty"
            /\ future'[m] = "set" => value'[m] = Loaded(m)'
      BY <3>1 DEF FutureInv
    <3> QED BY <3>2, <3>3 DEF FutureInv
  <2>3. LoadInv'
    BY <2>1 DEF LoadInv
  <2> QED BY <2>2, <2>3
<1>6. DestroyedUnused'
  BY <1>1 DEF DestroyedUnused, Outstanding
<1> QED BY <1>2, <1>3, <1>4, <1>5, <1>6

LEMMA TaskDoneKeeps == ASSUME IInv, NEW w \in Workers, TaskDone(w) PROVE IInv'
<1> USE PreloadAssumption DEF IInv, TaskDone, Goto
<1>1. /\ \A v \in Workers :
           /\ pc'[v] = IF v = w THEN "idle" ELSE pc[v]
           /\ job'[v] = IF v = w THEN NoMember ELSE job[v]
      /\ pc'[Resolver] = pc[Resolver]
  BY DEF TypeOK, Threads
<1>2. TypeOK'
  BY DEF TypeOK, Threads
<1>3. PlaceInv' /\ ParseInv' /\ AskedInv' /\ AnswerInv'
  BY <1>1 DEF PlaceInv, ParseInv, AskedInv, AnswerInv, WorkerPlaces
<1>4. JobInv'
  <2>1. \A v \in Workers : v # w => pc'[v] = pc[v] /\ job'[v] = job[v]
    BY <1>1
  <2>2. pc'[w] = "idle" /\ job'[w] = NoMember /\ NoMember \notin pending
    BY <1>1 DEF TypeOK, Tasks
  <2> QED BY <2>1, <2>2 DEF JobInv
<1>5. FutureInv' /\ LoadInv'
  BY <1>1 DEF FutureInv, LoadInv, Loaded
<1>6. DestroyedUnused'
  BY <1>1 DEF DestroyedUnused, Outstanding
<1> QED BY <1>2, <1>3, <1>4, <1>5, <1>6

-----------------------------------------------------------------------------
(***************************************************************************)
(* The invariant, and what follows from it.                                *)
(***************************************************************************)

LEMMA ResolverKeeps == ASSUME IInv, ResolverStep PROVE IInv'
<1>1. CASE LockParse(Resolver)
  BY <1>1, LockParseKeeps DEF Threads
<1>2. CASE DoParse(Resolver)
  BY <1>2, DoParseKeeps DEF Threads
<1>3. CASE FindLoads
  BY <1>3, FindLoadsKeeps
<1>4. CASE Get
  BY <1>4, GetKeeps
<1>5. CASE GetWaits
  <2>1. parseMutex \in Threads \cup {NoThread}
    BY DEF IInv, TypeOK
  <2> QED BY <1>5, <2>1, ResolverMoves DEF GetWaits, Goto, ResolverPlaces
<1>6. CASE Fail \/ SyncAfterFailure \/ Succeed \/ DestroyDerived \/ DestroyNodes
  <2>1. parseMutex \in Threads \cup {NoThread}
    BY DEF IInv, TypeOK
  <2>2. CASE Fail
    BY <2>1, <2>2, ResolverMoves DEF Fail, Goto, ResolverPlaces
  <2>3. CASE SyncAfterFailure
    BY <2>1, <2>3, ResolverMoves DEF SyncAfterFailure, Goto, ResolverPlaces
  <2>4. CASE Succeed
    BY <2>1, <2>4, ResolverMoves DEF Succeed, Goto, ResolverPlaces
  <2>5. CASE DestroyDerived
    BY <2>1, <2>5, ResolverMoves DEF DestroyDerived, Goto, ResolverPlaces
  <2>6. CASE DestroyNodes
    BY <2>1, <2>6, ResolverMoves DEF DestroyNodes, Goto, ResolverPlaces
  <2> QED BY <1>6, <2>2, <2>3, <2>4, <2>5, <2>6
<1>7. ASSUME NEW name \in Names, Preload(name) PROVE IInv'
  BY <1>7, PreloadKeeps
<1>8. ASSUME NEW name \in Names, NEW dataSymbolOnly \in BOOLEAN,
             FindNothing(name, dataSymbolOnly) \/ FindMember(name, dataSymbolOnly)
      PROVE  IInv'
  BY <1>8, FindNothingKeeps, FindMemberKeeps
<1> QED BY <1>1, <1>2, <1>3, <1>4, <1>5, <1>6, <1>7, <1>8 DEF ResolverStep

LEMMA WorkerKeeps == ASSUME IInv, NEW w \in Workers, WorkerStep(w) PROVE IInv'
<1>1. w \in Threads
  BY DEF Threads
<1>2. CASE LockParse(w) \/ DoParse(w)
  BY <1>1, <1>2, LockParseKeeps, DoParseKeeps
<1>3. CASE TaskLoads(w) \/ TaskSets(w) \/ TaskNotifies(w) \/ TaskDone(w)
  BY <1>3, TaskLoadsKeeps, TaskSetsKeeps, TaskNotifiesKeeps, TaskDoneKeeps
<1>4. ASSUME NEW task \in Tasks, TakeTask(w, task) PROVE IInv'
  BY <1>4, TakeTaskKeeps
<1> QED BY <1>2, <1>3, <1>4 DEF WorkerStep

LEMMA StutterKeeps == ASSUME IInv, UNCHANGED vars PROVE IInv'
<1> USE DEF IInv, vars
<1>1. TypeOK' /\ PlaceInv' /\ ParseInv' /\ JobInv'
  BY DEF TypeOK, PlaceInv, ParseInv, JobInv
<1>2. FutureInv' /\ LoadInv'
  BY DEF FutureInv, LoadInv, Loaded
<1>3. AskedInv' /\ AnswerInv' /\ DestroyedUnused'
  BY DEF AskedInv, AnswerInv, DestroyedUnused, Outstanding
<1> QED BY <1>1, <1>2, <1>3

LEMMA NextKeeps == IInv /\ [Next]_vars => IInv'
<1> SUFFICES ASSUME IInv, [Next]_vars PROVE IInv'
  OBVIOUS
<1>1. CASE ResolverStep
  BY <1>1, ResolverKeeps
<1>2. ASSUME NEW w \in Workers, WorkerStep(w) PROVE IInv'
  BY <1>2, WorkerKeeps
<1>3. CASE GetWakes
  <2>1. parseMutex \in Threads \cup {NoThread}
    BY DEF IInv, TypeOK
  <2> QED BY <1>3, <2>1, ResolverMoves DEF GetWakes, Goto, ResolverPlaces
<1>4. CASE Gone \/ UNCHANGED vars
  BY <1>4, StutterKeeps DEF Gone
<1> QED BY <1>1, <1>2, <1>3, <1>4 DEF Next

\* Whoever may load a member is decided by its future, and each member has one
\* that may: the inductive invariant. (FileArchive::find, preload)
THEOREM PreloadInvariant == Spec => []IInv
<1>1. Init => IInv
  BY InitHolds
<1>2. IInv /\ [Next]_vars => IInv'
  BY NextKeeps
<1> QED BY <1>1, <1>2, PTL DEF Spec

\* No member is loaded twice, whoever asks for it and whenever its task runs; what
\* find() returns was loaded to its end; and no task is left when the archive is
\* destroyed. (FileArchive::find, preload; the members of LinkingContext)
THEOREM LoadingAheadIsHarmless == Spec => []PreloadIsHarmless
<1>1. IInv => PreloadIsHarmless
  <2> SUFFICES ASSUME IInv PROVE PreloadIsHarmless
    OBVIOUS
  <2> USE DEF IInv
  <2>1. LoadedOnce
    <3>1. \A m \in Members : loads[m] \in {0, 1}
      BY DEF LoadInv
    <3> QED BY <3>1 DEF LoadedOnce
  <2>2. AnswerIsLoaded
    <3> SUFFICES ASSUME answer # NoMember PROVE AnswerIsLoaded
      BY DEF AnswerIsLoaded
    <3>1. answer \in Members /\ loads[answer] = 1 /\ future[answer] \in {"none", "set"}
      BY DEF AnswerInv, TypeOK
    <3>2. \A w \in Workers : job[w] = answer => pc[w] # "load"
      BY <3>1 DEF FutureInv
    <3> QED BY <3>1, <3>2 DEF AnswerIsLoaded
  <2> QED BY <2>1, <2>2 DEF PreloadIsHarmless
<1> QED BY <1>1, PreloadInvariant, PTL

-----------------------------------------------------------------------------
(***************************************************************************)
(* The archive without threads.                                            *)
(***************************************************************************)

\* The table that find() reads is the whole table.
LEMMA TableIsRead == ASSUME IInv, lastError = "ok" PROVE toc = archive.toc
BY DEF IInv, ParseInv

\* A step of the threads is a step of the archive that knows of none, or leaves
\* all that the resolver can see alone.
LEMMA StepIsAllowed == ASSUME IInv, [Next]_vars PROVE [A!Next]_(A!vars)
<1> USE DEF A!vars
<1>1. ASSUME NEW name \in Names, NEW dataSymbolOnly \in BOOLEAN,
             FindNothing(name, dataSymbolOnly)
      PROVE  A!Next
  <2>1. asked = NoMember /\ toc = archive.toc
    BY <1>1, TableIsRead DEF FindNothing, Calling, IInv, AskedInv
  <2>2. A!FindNothing(name, dataSymbolOnly)
    BY <1>1, <2>1 DEF FindNothing, A!FindNothing
  <2> QED BY <2>2 DEF A!Next
<1>2. ASSUME NEW name \in Names, NEW dataSymbolOnly \in BOOLEAN,
             FindMember(name, dataSymbolOnly)
      PROVE  A!Next
  <2>1. asked = NoMember /\ toc = archive.toc
    BY <1>2, TableIsRead DEF FindMember, Calling, IInv, AskedInv
  <2>2. A!FindMember(name, dataSymbolOnly)
    BY <1>2, <2>1 DEF FindMember, A!FindMember
  <2> QED BY <2>2 DEF A!Next
<1>3. CASE FindLoads \/ Get
  <2>1. asked \in Members /\ asked # NoMember
    BY <1>3 DEF FindLoads, Get, Goto, IInv, AskedInv, TypeOK
  <2>2. answer' = Loaded(asked)
    BY <1>3, <2>1 DEF FindLoads, Get, IInv, FutureInv
  <2>3. A!Answer
    BY <1>3, <2>1, <2>2 DEF FindLoads, Get, Loaded, A!Answer
  <2> QED BY <2>3 DEF A!Next
<1>4. ASSUME NEW name \in Names, Preload(name) PROVE UNCHANGED A!vars
  BY <1>4 DEF Preload
<1>5. CASE LockParse(Resolver) \/ DoParse(Resolver) \/ GetWaits \/ GetWakes \/ Gone
  BY <1>5 DEF LockParse, DoParse, GetWaits, GetWakes, Gone, vars
<1>6. CASE Fail \/ SyncAfterFailure \/ Succeed \/ DestroyDerived \/ DestroyNodes
  BY <1>6 DEF Fail, SyncAfterFailure, Succeed, DestroyDerived, DestroyNodes
<1>7. ASSUME NEW w \in Workers, WorkerStep(w) PROVE UNCHANGED A!vars
  BY <1>7 DEF WorkerStep, LockParse, DoParse, TaskLoads, TaskSets, TaskNotifies, TaskDone,
              TakeTask
<1>8. CASE UNCHANGED vars
  BY <1>8 DEF vars
<1> QED BY <1>1, <1>2, <1>3, <1>4, <1>5, <1>6, <1>7, <1>8 DEF Next, ResolverStep

\* Whatever is loaded ahead and however the workers are scheduled, the answers of
\* find() are those of an archive without threads.
\* (ArchiveLibraryFile.h: "Calling this function doesn't affect correctness")
THEOREM AnswersRefined == Spec => A!Init /\ [][A!Next]_(A!vars)
<1>1. Init => A!Init
  BY DEF Init, A!Init
<1>2. IInv /\ [Next]_vars => [A!Next]_(A!vars)
  BY StepIsAllowed
<1> QED BY <1>1, <1>2, PreloadInvariant, PTL DEF Spec

=============================================================================
