----------------------------- MODULE ThreadPool -----------------------------
(***************************************************************************)
(* ThreadPoolExecutor, Latch and TaskGroup (include/lld/Core/Parallel.h).  *)
(*                                                                         *)
(* A step is what a thread does while it holds one mutex, or one call of a *)
(* notify function. A thread that sleeps on a condition variable is at     *)
(* "idle" (a worker, on _cond of the pool), "syncing" (the owner of the    *)
(* group, on _latch) or "joining" (the owner, on _done); it may also wake  *)
(* up for no reason. What a closure does is left open, except that it may  *)
(* spawn more tasks, as parallel_quick_sort does.                          *)
(***************************************************************************)
EXTENDS Integers, FiniteSets, Sequences

CONSTANTS
  Tasks,    \* the closures
  NoTask,
  Workers,  \* as many threads as the threadCount of the constructor
  First,    \* the worker that starts the others
  Owner     \* the thread that owns the executor and the group

ASSUME ThreadPoolAssumption ==
  /\ IsFiniteSet(Tasks)
  /\ NoTask \notin Tasks
  /\ IsFiniteSet(Workers)
  /\ First \in Workers
  /\ Owner \notin Workers

VARIABLES
  pc,         \* where a thread is
  current,    \* the closure that a worker runs
  spawning,   \* the argument of the spawn() that a thread is in
  workStack,  \* _workStack, the top at the end
  stop,       \* _stop
  latch,      \* _count of the group's _latch
  done,       \* _count of _done
  spawned,    \* history: spawn() was called
  returned    \* history: the closure has returned

vars == <<pc, current, spawning, workStack, stop, latch, done, spawned, returned>>

Threads == Workers \cup {Owner}

\* Mutant: the latch counts the threads that the constructor starts in its loop.
InitOneLess ==
  /\ pc = [p \in Threads |-> CASE p = Owner -> "open"
                               [] p = First -> "start"
                               [] OTHER -> "none"]
  /\ current = [w \in Workers |-> NoTask]
  /\ spawning = [p \in Threads |-> NoTask]
  /\ workStack = <<>>
  /\ stop = FALSE
  /\ latch = 0
  /\ done = Cardinality(Workers) - 1
  /\ spawned = {}
  /\ returned = {}

Init ==
  /\ pc = [p \in Threads |-> CASE p = Owner -> "open"
                               [] p = First -> "start"
                               [] OTHER -> "none"]
  /\ current = [w \in Workers |-> NoTask]
  /\ spawning = [p \in Threads |-> NoTask]
  /\ workStack = <<>>
  /\ stop = FALSE
  /\ latch = 0
  /\ done = Cardinality(Workers)
  /\ spawned = {}
  /\ returned = {}

Goto(p, from, to) ==
  /\ pc[p] = from
  /\ pc' = [pc EXCEPT ![p] = to]

\* notify_all wakes every thread at a label.
Woken(asleep, awake) ==
  [p \in Threads |-> IF pc[p] = asleep THEN awake ELSE pc[p]]

-----------------------------------------------------------------------------
(***************************************************************************)
(* The threads of the pool. The first one starts the others and then works *)
(* like them.                                                              *)
(***************************************************************************)

StartWorker(w) ==
  /\ pc[First] = "start"
  /\ Goto(w, "none", "work")
  /\ UNCHANGED <<current, spawning, workStack, stop, latch, done, spawned, returned>>

StartWork ==
  /\ \A w \in Workers : pc[w] # "none"
  /\ Goto(First, "start", "work")
  /\ UNCHANGED <<current, spawning, workStack, stop, latch, done, spawned, returned>>

\* work(): the predicate of the wait is false.
Sleep(w) ==
  /\ ~stop /\ workStack = <<>>
  /\ Goto(w, "work", "idle")
  /\ UNCHANGED <<current, spawning, workStack, stop, latch, done, spawned, returned>>

WakeUp(w) ==
  /\ Goto(w, "idle", "work")
  /\ UNCHANGED <<current, spawning, workStack, stop, latch, done, spawned, returned>>

\* Mutant: top() without pop().
TakeAndKeep(w) ==
  /\ ~stop /\ workStack # <<>>
  /\ Goto(w, "work", "open")
  /\ current' = [current EXCEPT ![w] = workStack[Len(workStack)]]
  /\ UNCHANGED <<spawning, workStack, stop, latch, done, spawned, returned>>

\* The newest task is taken first.
Take(w) ==
  /\ ~stop /\ workStack # <<>>
  /\ Goto(w, "work", "open")
  /\ current' = [current EXCEPT ![w] = workStack[Len(workStack)]]
  /\ workStack' = SubSeq(workStack, 1, Len(workStack) - 1)
  /\ UNCHANGED <<spawning, stop, latch, done, spawned, returned>>

\* The closure of a group's task ends with _latch.dec(), after f().
Return(w) ==
  /\ Goto(w, "open", "dec")
  /\ returned' = returned \cup {current[w]}
  /\ UNCHANGED <<current, spawning, workStack, stop, latch, done, spawned>>

Dec(w) ==
  /\ pc[w] = "dec"
  /\ latch' = latch - 1
  /\ pc' = [IF latch' = 0 THEN Woken("syncing", "sync") ELSE pc EXCEPT ![w] = "work"]
  /\ current' = [current EXCEPT ![w] = NoTask]
  /\ UNCHANGED <<spawning, workStack, stop, done, spawned, returned>>

\* The loop is left, even with tasks on the stack, and _done is decremented.
Leave(w) ==
  /\ stop
  /\ Goto(w, "work", "leave")
  /\ UNCHANGED <<current, spawning, workStack, stop, latch, done, spawned, returned>>

DecDone(w) ==
  /\ pc[w] = "leave"
  /\ done' = done - 1
  /\ pc' = [IF done' = 0 THEN Woken("joining", "join") ELSE pc EXCEPT ![w] = "gone"]
  /\ UNCHANGED <<current, spawning, workStack, stop, latch, spawned, returned>>

-----------------------------------------------------------------------------
(***************************************************************************)
(* TaskGroup::spawn, by the owner or by a running closure: _latch.inc(),   *)
(* then ThreadPoolExecutor::add pushes the task and notifies one worker.   *)
(***************************************************************************)

\* Mutant: a task that a task spawns is not counted.
IncOwnerOnly(p, t) ==
  /\ t \notin spawned
  /\ Goto(p, "open", "push")
  /\ spawning' = [spawning EXCEPT ![p] = t]
  /\ latch' = IF p = Owner THEN latch + 1 ELSE latch
  /\ spawned' = spawned \cup {t}
  /\ UNCHANGED <<current, workStack, stop, done, returned>>

Inc(p, t) ==
  /\ t \notin spawned
  /\ Goto(p, "open", "push")
  /\ spawning' = [spawning EXCEPT ![p] = t]
  /\ latch' = latch + 1
  /\ spawned' = spawned \cup {t}
  /\ UNCHANGED <<current, workStack, stop, done, returned>>

Push(p) ==
  /\ Goto(p, "push", "notify")
  /\ workStack' = Append(workStack, spawning[p])
  /\ spawning' = [spawning EXCEPT ![p] = NoTask]
  /\ UNCHANGED <<current, stop, latch, done, spawned, returned>>

NotifyOne(p) ==
  /\ pc[p] = "notify"
  /\ IF \E w \in Workers : pc[w] = "idle"
       THEN \E w \in Workers :
              /\ pc[w] = "idle"
              /\ pc' = [pc EXCEPT ![p] = "open", ![w] = "work"]
       ELSE pc' = [pc EXCEPT ![p] = "open"]
  /\ UNCHANGED <<current, spawning, workStack, stop, latch, done, spawned, returned>>

-----------------------------------------------------------------------------
(***************************************************************************)
(* The owner: sync() of the group, then the destructor of the executor,    *)
(* whose last part is the sync() in ~Latch of _done.                       *)
(***************************************************************************)

CallSync ==
  /\ Goto(Owner, "open", "sync")
  /\ UNCHANGED <<current, spawning, workStack, stop, latch, done, spawned, returned>>

WaitSync ==
  /\ latch # 0
  /\ Goto(Owner, "sync", "syncing")
  /\ UNCHANGED <<current, spawning, workStack, stop, latch, done, spawned, returned>>

WakeSync ==
  /\ Goto(Owner, "syncing", "sync")
  /\ UNCHANGED <<current, spawning, workStack, stop, latch, done, spawned, returned>>

\* Mutant: the predicate of the wait is not looked at.
SyncedEarly ==
  /\ Goto(Owner, "sync", "synced")
  /\ UNCHANGED <<current, spawning, workStack, stop, latch, done, spawned, returned>>

Synced ==
  /\ latch = 0
  /\ Goto(Owner, "sync", "synced")
  /\ UNCHANGED <<current, spawning, workStack, stop, latch, done, spawned, returned>>

Stop ==
  /\ Goto(Owner, "synced", "stopping")
  /\ stop' = TRUE
  /\ UNCHANGED <<current, spawning, workStack, latch, done, spawned, returned>>

\* Mutant: the destructor wakes one worker only.
NotifyAllOne ==
  /\ pc[Owner] = "stopping"
  /\ \E w \in Workers :
       /\ pc[w] = "idle" \/ \A v \in Workers : pc[v] # "idle"
       /\ pc' = [pc EXCEPT ![Owner] = "join",
                          ![w] = IF @ = "idle" THEN "work" ELSE @]
  /\ UNCHANGED <<current, spawning, workStack, stop, latch, done, spawned, returned>>

NotifyAll ==
  /\ pc[Owner] = "stopping"
  /\ pc' = [Woken("idle", "work") EXCEPT ![Owner] = "join"]
  /\ UNCHANGED <<current, spawning, workStack, stop, latch, done, spawned, returned>>

WaitJoin ==
  /\ done # 0
  /\ Goto(Owner, "join", "joining")
  /\ UNCHANGED <<current, spawning, workStack, stop, latch, done, spawned, returned>>

WakeJoin ==
  /\ Goto(Owner, "joining", "join")
  /\ UNCHANGED <<current, spawning, workStack, stop, latch, done, spawned, returned>>

Destroy ==
  /\ done = 0
  /\ Goto(Owner, "join", "destroyed")
  /\ UNCHANGED <<current, spawning, workStack, stop, latch, done, spawned, returned>>

Ended == pc[Owner] = "destroyed" /\ UNCHANGED vars

Spawning(p) == Push(p) \/ NotifyOne(p) \/ \E t \in Tasks : Inc(p, t)

WorkerStep(w) ==
  \/ Sleep(w)
  \/ Take(w)
  \/ Return(w)
  \/ Dec(w)
  \/ Leave(w)
  \/ DecDone(w)
  \/ Spawning(w)

OwnerStep ==
  \/ CallSync
  \/ WaitSync
  \/ Synced
  \/ Stop
  \/ NotifyAll
  \/ WaitJoin
  \/ Destroy
  \/ Spawning(Owner)

StartStep == StartWork \/ \E w \in Workers : StartWorker(w)

Spurious == WakeSync \/ WakeJoin \/ \E w \in Workers : WakeUp(w)

Next ==
  \/ OwnerStep
  \/ StartStep
  \/ \E w \in Workers : WorkerStep(w)
  \/ Spurious
  \/ Ended

\* Every thread that can go on does; no wake-up comes without a cause.
Fairness ==
  /\ WF_vars(OwnerStep)
  /\ WF_vars(StartStep)
  /\ \A w \in Workers : WF_vars(WorkerStep(w))

Spec == Init /\ [][Next]_vars /\ Fairness

-----------------------------------------------------------------------------
(***************************************************************************)
(* Properties.                                                             *)
(***************************************************************************)

AfterSync == {"synced", "stopping", "join", "joining", "destroyed"}

Labels == {"none", "start", "work", "idle", "open", "push", "notify", "dec",
           "leave", "gone", "sync", "syncing"} \cup AfterSync

\* The two counts never fall below zero: "Calling dec() on a Latch with a count
\* of 0 has undefined behaivor" (Parallel.h:43).
TypeOK ==
  /\ pc \in [Threads -> Labels]
  /\ current \in [Workers -> Tasks \cup {NoTask}]
  /\ spawning \in [Threads -> Tasks \cup {NoTask}]
  /\ workStack \in Seq(Tasks)
  /\ stop \in BOOLEAN
  /\ latch \in Nat
  /\ done \in Nat
  /\ returned \subseteq spawned
  /\ spawned \subseteq Tasks

\* Where a task can be found before its closure has returned.
RunBy(w, t) == current[w] = t /\ pc[w] # "dec"
PushedBy(p, t) == spawning[p] = t

\* Every task that was spawned runs once and none is lost: until it has returned
\* it is pushed by one thread, on the stack, or run by one worker.
EachTaskOnce ==
  \A t \in Tasks :
    LET places == {<<"push", p>> : p \in {q \in Threads : PushedBy(q, t)}}
                    \cup {<<"stack", i>> : i \in {j \in 1 .. Len(workStack) : workStack[j] = t}}
                    \cup {<<"run", w>> : w \in {v \in Workers : RunBy(v, t)}}
    IN  IF t \in spawned \ returned
          THEN \E place \in places : places = {place}
          ELSE places = {}

\* sync() returns only when every closure has returned, those that were spawned
\* by other closures too, and nothing is spawned any more.
SyncMeansDone == pc[Owner] \in AfterSync => returned = spawned

\* The executor's members are destroyed only when no worker can use them again.
DestroyedUnused ==
  pc[Owner] = "destroyed" => \A w \in Workers : pc[w] = "gone"

\* The workers leave no task behind when they stop.
NothingLeftBehind == stop => workStack = <<>>

\* From the first closure to the destruction of the executor every task is at
\* one place or has returned, no count falls below zero, no task stays behind on
\* the stack and no worker inside the executor.
NothingIsLost == TypeOK /\ EachTaskOnce /\ NothingLeftBehind /\ DestroyedUnused

\* The group is what TaskGroup promises.
Group == INSTANCE TaskGroup WITH synced <- pc[Owner] \in AfterSync

Implements == Group!Spec

\* The destructors of the group and of the executor come back.
Termination == <>(pc[Owner] = "destroyed")
=============================================================================
