-------------------------- MODULE ThreadPoolProofs --------------------------
(***************************************************************************)
(* The pool and the group for any finite set of threads and of tasks.      *)
(*                                                                         *)
(* The heart of the argument is that the latch counts: a task is           *)
(* outstanding from its inc() to its dec(), and the count is the number of *)
(* outstanding tasks. It holds only because no task is at two places at    *)
(* once, so that no two workers ever decrement for the same one; and the   *)
(* worker that spawns runs a task that is outstanding itself, so the count *)
(* cannot reach zero, and sync() return, between two tasks.                *)
(***************************************************************************)
EXTENDS ThreadPool, FiniteSetTheorems, SequenceTheorems, TLAPS

Busy == {"open", "push", "notify"}

\* The tasks between their inc() and their dec().
Outstanding ==
  {t \in spawned : t \notin returned \/ \E w \in Workers : pc[w] = "dec" /\ current[w] = t}

Alive == {w \in Workers : pc[w] # "gone"}

\* A worker has a task while it runs one, and no two workers have the same.
RunInv ==
  /\ \A w \in Workers :
       /\ pc[w] \in Busy => current[w] \in spawned \ returned
       /\ pc[w] = "dec" => current[w] \in returned
       /\ pc[w] \notin Busy \cup {"dec"} => current[w] = NoTask
  /\ \A v, w \in Workers : current[v] = current[w] /\ current[v] # NoTask => v = w

\* A thread has a task to push between inc() and add(), which nobody else has.
PushInv ==
  /\ \A p \in Threads :
       /\ pc[p] = "push" => spawning[p] \in spawned \ returned
       /\ pc[p] # "push" => spawning[p] = NoTask
  /\ \A p, q \in Threads : spawning[p] = spawning[q] /\ spawning[p] # NoTask => p = q
  /\ \A p \in Threads, w \in Workers : spawning[p] = current[w] => spawning[p] = NoTask

\* The tasks on the stack are different and nobody else has them.
StackInv ==
  \A i \in 1 .. Len(workStack) :
    /\ workStack[i] \in spawned \ returned
    /\ \A j \in 1 .. Len(workStack) : workStack[i] = workStack[j] => i = j
    /\ \A p \in Threads : spawning[p] # workStack[i]
    /\ \A w \in Workers : current[w] # workStack[i]

\* No task gets lost.
NoneLost ==
  \A t \in spawned \ returned :
    \/ \E p \in Threads : spawning[p] = t
    \/ \E i \in 1 .. Len(workStack) : workStack[i] = t
    \/ \E w \in Workers : current[w] = t

CountInv ==
  /\ latch = Cardinality(Outstanding)
  /\ done = Cardinality(Alive)

OwnerInv ==
  /\ stop => pc[Owner] \in AfterSync
  /\ pc[Owner] \in AfterSync => Outstanding = {}
  /\ pc[Owner] = "destroyed" => Alive = {}

IInv ==
  /\ TypeOK
  /\ RunInv
  /\ PushInv
  /\ StackInv
  /\ NoneLost
  /\ CountInv
  /\ OwnerInv

-----------------------------------------------------------------------------
(***************************************************************************)
(* Facts about the sets that the latches count.                            *)
(***************************************************************************)

\* Both sets are finite, so their cardinalities are natural numbers.
LEMMA CountedAreFinite ==
  ASSUME TypeOK
  PROVE  /\ IsFiniteSet(Outstanding)
         /\ IsFiniteSet(Alive)
         /\ IsFiniteSet(spawned)
<1>1. IsFiniteSet(spawned)
  BY FS_Subset, ThreadPoolAssumption DEF TypeOK
<1>2. IsFiniteSet(Outstanding)
  BY <1>1, FS_Subset DEF Outstanding
<1>3. IsFiniteSet(Alive)
  BY FS_Subset, ThreadPoolAssumption DEF Alive
<1> QED BY <1>1, <1>2, <1>3

\* A count of zero means that nothing is counted.
LEMMA ZeroMeansNone ==
  ASSUME TypeOK, CountInv
  PROVE  /\ latch = 0 => Outstanding = {}
         /\ done = 0 => Alive = {}
BY CountedAreFinite, FS_EmptySet DEF CountInv

-----------------------------------------------------------------------------
(***************************************************************************)
(* A step that moves threads between labels at which they have no task and *)
(* no decrement ahead: most steps of the pool.                             *)
(***************************************************************************)

Calm == Labels \ (Busy \cup {"dec", "gone"})

Moved(p) ==
  \/ pc'[p] = pc[p]
  \/ pc[p] \in Calm /\ pc'[p] \in Calm
  \/ pc[p] = "notify" /\ pc'[p] = "open"

LEMMA CalmStep ==
  ASSUME IInv,
         UNCHANGED <<current, spawning, workStack, latch, done, spawned, returned>>,
         stop' \in BOOLEAN,
         pc' \in [Threads -> Labels],
         \A w \in Workers : Moved(w),
         Moved(Owner) \/ (pc[Owner] = "open" /\ pc'[Owner] = "sync"),
         stop' => pc'[Owner] \in AfterSync,
         pc'[Owner] \in AfterSync => pc[Owner] \in AfterSync \/ latch = 0,
         pc'[Owner] = "destroyed" => pc[Owner] = "destroyed" \/ done = 0
  PROVE  IInv'
<1> USE DEF IInv
<1>1. /\ Outstanding' = Outstanding
      /\ Alive' = Alive
  BY DEF Outstanding, Alive, Moved, Calm, Busy, Labels
<1>2. TypeOK'
  BY DEF TypeOK
<1>3. RunInv'
  BY DEF RunInv, Moved, Calm, Busy
<1>4. PushInv'
  <2>1. \A p \in Threads : pc'[p] = "push" <=> pc[p] = "push"
    BY DEF Moved, Calm, Busy, Threads
  <2> QED BY <2>1 DEF PushInv
<1>5. StackInv'
  BY DEF StackInv
<1>6. NoneLost'
  BY DEF NoneLost
<1>7. CountInv'
  BY <1>1 DEF CountInv
<1>8. OwnerInv'
  BY <1>1, ZeroMeansNone DEF OwnerInv
<1> QED BY <1>2, <1>3, <1>4, <1>5, <1>6, <1>7, <1>8

-----------------------------------------------------------------------------
(***************************************************************************)
(* The steps that move a task or change a count.                           *)
(***************************************************************************)

LEMMA InitHolds == Init => IInv
<1> SUFFICES ASSUME Init PROVE IInv
  OBVIOUS
<1> USE DEF Init
<1>1. Outstanding = {} /\ Alive = Workers
  BY DEF Outstanding, Alive, Threads
<1>2. Cardinality(Workers) \in Nat /\ Cardinality({}) = 0
  BY FS_CardinalityType, FS_EmptySet, ThreadPoolAssumption
<1>3. TypeOK
  <2>1. pc \in [Threads -> Labels]
    BY DEF Labels
  <2>2. workStack \in Seq(Tasks)
    OBVIOUS
  <2>3. latch \in Nat /\ done \in Nat
    BY <1>2
  <2> QED BY <2>1, <2>2, <2>3 DEF TypeOK
<1>4. RunInv /\ PushInv /\ StackInv /\ NoneLost
  BY ThreadPoolAssumption DEF RunInv, PushInv, StackInv, NoneLost, Threads, Busy
<1>5. CountInv /\ OwnerInv
  BY <1>1, <1>2, ThreadPoolAssumption DEF CountInv, OwnerInv, Threads, AfterSync
<1> QED BY <1>3, <1>4, <1>5 DEF IInv

\* The top of the stack becomes the task of a worker that had none.
LEMMA TakeKeeps == ASSUME IInv, NEW w \in Workers, Take(w) PROVE IInv'
<1> USE DEF IInv, Take, Goto
<1> DEFINE n == Len(workStack)
           t == workStack[n]
<1>1. /\ n \in Nat \ {0}
      /\ workStack' \in Seq(Tasks)
      /\ Len(workStack') = n - 1
      /\ \A i \in 1 .. n - 1 : workStack'[i] = workStack[i]
  <2>1. workStack \in Seq(Tasks) /\ workStack # <<>>
    BY DEF TypeOK
  <2>2. n \in Nat \ {0} /\ \A i \in 1 .. n : workStack[i] \in Tasks
    BY <2>1
  <2>3. \A i \in 1 .. n - 1 : workStack[i] \in Tasks
    BY <2>2
  <2>4. /\ SubSeq(workStack, 1, n - 1) \in Seq(Tasks)
        /\ Len(SubSeq(workStack, 1, n - 1)) = IF 1 <= n - 1 THEN (n - 1) - 1 + 1 ELSE 0
        /\ \A i \in 1 .. (n - 1) - 1 + 1 : SubSeq(workStack, 1, n - 1)[i] = workStack[1 + i - 1]
    <3>1. 1 \in Int /\ n - 1 \in Int
      BY <2>2
    <3> QED BY <2>3, <3>1, SubSeqProperties
  <2>5. workStack' = SubSeq(workStack, 1, n - 1)
    OBVIOUS
  <2>6. Len(workStack') = n - 1
    <3> HIDE DEF n
    <3>1. Len(SubSeq(workStack, 1, n - 1)) = n - 1
      <4>1. CASE n = 1
        BY <2>2, <2>4, <4>1
      <4>2. CASE n # 1
        BY <2>2, <2>4, <4>2
      <4> QED BY <4>1, <4>2
    <3> QED BY <2>5, <3>1
  <2>7. \A i \in 1 .. n - 1 : workStack'[i] = workStack[i]
    <3> TAKE i \in 1 .. n - 1
    <3>1. i \in 1 .. (n - 1) - 1 + 1 /\ 1 + i - 1 = i
      BY <2>2
    <3> QED BY <2>4, <2>5, <3>1
  <2> QED BY <2>2, <2>4, <2>5, <2>6, <2>7
<1>2. t \in spawned \ returned /\ t \in Tasks
  BY <1>1 DEF StackInv, TypeOK
<1>3. Outstanding' = Outstanding /\ Alive' = Alive
  BY DEF Outstanding, Alive, TypeOK, RunInv, Busy, Threads
<1>4. TypeOK'
  BY <1>1, <1>2 DEF TypeOK, Labels, Threads
<1>5. RunInv'
  BY <1>1, <1>2 DEF RunInv, StackInv, TypeOK, Busy, Threads
<1>6. PushInv'
  BY <1>1 DEF PushInv, StackInv, TypeOK, Threads
<1>7. StackInv'
  <2> SUFFICES ASSUME NEW i \in 1 .. n - 1
               PROVE  /\ workStack[i] \in spawned \ returned
                      /\ \A j \in 1 .. n - 1 : workStack[i] = workStack[j] => i = j
                      /\ \A p \in Threads : spawning[p] # workStack[i]
                      /\ \A v \in Workers : current'[v] # workStack[i]
    BY <1>1 DEF StackInv
  <2>1. i \in 1 .. n /\ n \in 1 .. n /\ i # n
    BY <1>1
  <2> QED BY <1>1, <2>1 DEF StackInv, TypeOK
<1>8. NoneLost'
  <2> SUFFICES ASSUME NEW u \in spawned \ returned
               PROVE  \/ \E p \in Threads : spawning[p] = u
                      \/ \E i \in 1 .. n - 1 : workStack[i] = u
                      \/ \E v \in Workers : current'[v] = u
    BY <1>1 DEF NoneLost
  <2>1. CASE \E i \in 1 .. n : workStack[i] = u
    <3> PICK i \in 1 .. n : workStack[i] = u
      BY <2>1
    <3>1. CASE i = n
      BY <3>1 DEF TypeOK
    <3>2. CASE i # n
      BY <3>2, <1>1
    <3> QED BY <3>1, <3>2
  <2>2. CASE \E v \in Workers : current[v] = u
    <3> PICK v \in Workers : current[v] = u
      BY <2>2
    <3>1. current[w] = NoTask /\ u # NoTask
      BY ThreadPoolAssumption DEF RunInv, Busy, TypeOK
    <3> QED BY <3>1 DEF TypeOK
  <2> QED BY <2>1, <2>2 DEF NoneLost
<1>9. CountInv'
  BY <1>3 DEF CountInv
<1>10. OwnerInv'
  BY <1>3, ThreadPoolAssumption DEF OwnerInv, TypeOK, Threads
<1> QED BY <1>4, <1>5, <1>6, <1>7, <1>8, <1>9, <1>10

\* A closure returns; its task stays outstanding until the worker's dec().
LEMMA ReturnKeeps == ASSUME IInv, NEW w \in Workers, Return(w) PROVE IInv'
<1> USE DEF IInv, Return, Goto
<1>1. pc[w] \in Busy /\ current[w] \in spawned \ returned
  BY DEF RunInv, Busy
<1>2. Outstanding' = Outstanding /\ Alive' = Alive
  BY <1>1 DEF Outstanding, Alive, TypeOK, RunInv, Busy, Threads
<1>3. TypeOK'
  BY <1>1 DEF TypeOK, Labels, Threads
<1>4. RunInv'
  <2>1. \A v \in Workers : v # w => pc'[v] = pc[v] /\ current[v] # current[w]
    BY <1>1, ThreadPoolAssumption DEF RunInv, TypeOK, Threads
  <2>2. pc'[w] = "dec"
    BY DEF TypeOK, Threads
  <2>3. \A v \in Workers :
          /\ pc'[v] \in Busy => current[v] \in spawned \ returned'
          /\ pc'[v] = "dec" => current[v] \in returned'
          /\ pc'[v] \notin Busy \cup {"dec"} => current[v] = NoTask
    BY <2>1, <2>2 DEF RunInv, Busy
  <2> QED BY <2>3 DEF RunInv
<1>5. PushInv'
  BY <1>1, ThreadPoolAssumption DEF PushInv, TypeOK, Threads
<1>6. StackInv'
  BY <1>1 DEF StackInv
<1>7. NoneLost'
  BY <1>1 DEF NoneLost
<1>8. CountInv'
  BY <1>2 DEF CountInv
<1>9. OwnerInv'
  BY <1>2, ThreadPoolAssumption DEF OwnerInv, TypeOK, Threads
<1> QED BY <1>3, <1>4, <1>5, <1>6, <1>7, <1>8, <1>9

\* The decrement takes exactly the task of this worker from the outstanding ones.
LEMMA DecKeeps == ASSUME IInv, NEW w \in Workers, Dec(w) PROVE IInv'
<1> USE DEF IInv, Dec
<1> DEFINE t == current[w]
<1>1. /\ t \in returned
      /\ t \in Outstanding
      /\ t # NoTask
  BY ThreadPoolAssumption DEF RunInv, Outstanding, TypeOK
<1>2. \A p \in Threads : pc'[p] = IF p = w THEN "work"
                                  ELSE IF latch' = 0 /\ pc[p] = "syncing" THEN "sync"
                                  ELSE pc[p]
  BY DEF Woken, TypeOK, Threads
<1>3. pc' \in [Threads -> Labels]
  BY DEF Woken, TypeOK, Labels
<1>4. Outstanding' = Outstanding \ {t}
  <2>1. \A v \in Workers : pc'[v] = "dec" /\ current'[v] # NoTask
                             <=> v # w /\ pc[v] = "dec" /\ current[v] # NoTask
    BY <1>2 DEF TypeOK, Threads
  <2>2. \A v \in Workers : v # w => current'[v] = current[v] /\ current[v] # t
    BY <1>1 DEF RunInv, TypeOK
  <2>3. \A v \in Workers : pc[v] = "dec" => current[v] # NoTask
    BY ThreadPoolAssumption DEF RunInv, TypeOK
  <2>4. \A u \in spawned : u # NoTask
    BY ThreadPoolAssumption DEF TypeOK
  <2> QED BY <1>1, <2>1, <2>2, <2>3, <2>4 DEF Outstanding
<1>5. latch' = Cardinality(Outstanding') /\ latch' \in Nat
  <2>1. IsFiniteSet(Outstanding)
    BY CountedAreFinite
  <2>2. /\ IsFiniteSet(Outstanding \ {t})
        /\ Cardinality(Outstanding \ {t}) = Cardinality(Outstanding) - 1
    BY <1>1, <2>1, FS_RemoveElement
  <2>3. latch' = Cardinality(Outstanding \ {t})
    BY <2>2 DEF CountInv
  <2> QED BY <1>4, <2>2, <2>3, FS_CardinalityType
<1>6. Alive' = Alive
  BY <1>2 DEF Alive, Threads
<1>7. TypeOK'
  BY <1>3, <1>5 DEF TypeOK
<1>8. RunInv'
  BY <1>1, <1>2 DEF RunInv, TypeOK, Busy, Threads
<1>9. PushInv'
  <2>1. \A p \in Threads : pc'[p] = "push" <=> pc[p] = "push"
    BY <1>2
  <2> QED BY <2>1 DEF PushInv, TypeOK
<1>10. StackInv'
  BY ThreadPoolAssumption DEF StackInv, TypeOK
<1>11. NoneLost'
  BY <1>1 DEF NoneLost, TypeOK
<1>12. CountInv'
  BY <1>5, <1>6 DEF CountInv
<1>13. OwnerInv'
  <2>1. pc'[Owner] = pc[Owner] \/ (pc[Owner] = "syncing" /\ pc'[Owner] = "sync")
    BY <1>2, ThreadPoolAssumption DEF Threads
  <2> QED BY <1>1, <1>6, <2>1 DEF OwnerInv, AfterSync
<1> QED BY <1>7, <1>8, <1>9, <1>10, <1>11, <1>12, <1>13

\* A worker leaves the pool for good.
LEMMA DecDoneKeeps == ASSUME IInv, NEW w \in Workers, DecDone(w) PROVE IInv'
<1> USE DEF IInv, DecDone
<1>1. \A p \in Threads : pc'[p] = IF p = w THEN "gone"
                                  ELSE IF done' = 0 /\ pc[p] = "joining" THEN "join"
                                  ELSE pc[p]
  BY DEF Woken, TypeOK, Threads
<1>2. pc' \in [Threads -> Labels]
  <2>1. Woken("joining", "join") \in [Threads -> Labels]
    BY DEF Woken, TypeOK, Labels, AfterSync
  <2> QED BY <2>1 DEF TypeOK, Labels
<1>3. w \in Alive /\ Alive' = Alive \ {w}
  BY <1>1 DEF Alive, Threads
<1>4. Outstanding' = Outstanding
  BY <1>1 DEF Outstanding, Threads
<1>5. done' = Cardinality(Alive') /\ done' \in Nat
  <2>1. IsFiniteSet(Alive)
    BY CountedAreFinite
  <2>2. /\ IsFiniteSet(Alive \ {w})
        /\ Cardinality(Alive \ {w}) = Cardinality(Alive) - 1
    BY <1>3, <2>1, FS_RemoveElement
  <2>3. done' = Cardinality(Alive \ {w})
    BY <2>2 DEF CountInv
  <2> QED BY <1>3, <2>2, <2>3, FS_CardinalityType
<1>6. TypeOK'
  BY <1>2, <1>5 DEF TypeOK
<1>7. RunInv'
  BY <1>1 DEF RunInv, Busy, Threads
<1>8. PushInv'
  <2>1. \A p \in Threads : pc'[p] = "push" <=> pc[p] = "push"
    BY <1>1
  <2> QED BY <2>1 DEF PushInv
<1>9. StackInv' /\ NoneLost'
  BY DEF StackInv, NoneLost
<1>10. CountInv'
  BY <1>4, <1>5 DEF CountInv
<1>11. OwnerInv'
  <2>1. pc'[Owner] = pc[Owner] \/ (pc[Owner] = "joining" /\ pc'[Owner] = "join")
    BY <1>1, ThreadPoolAssumption DEF Threads
  <2> QED BY <1>3, <1>4, <2>1 DEF OwnerInv, AfterSync
<1> QED BY <1>6, <1>7, <1>8, <1>9, <1>10, <1>11

\* A spawned task is new, and counted before anyone can take it. A closure that
\* spawns is outstanding itself, so the owner is not past its sync().
LEMMA IncKeeps ==
  ASSUME IInv, NEW p \in Threads, NEW t \in Tasks, Inc(p, t)
  PROVE  IInv'
<1> USE DEF IInv, Inc, Goto
<1>1. t # NoTask /\ t \notin returned /\ spawning[p] = NoTask
  BY ThreadPoolAssumption DEF TypeOK, PushInv
<1>2. Outstanding' = Outstanding \cup {t} /\ t \notin Outstanding /\ Alive' = Alive
  <2>1. \A w \in Workers : /\ pc'[w] = "dec" <=> pc[w] = "dec"
                           /\ pc'[w] = "gone" <=> pc[w] = "gone"
    BY DEF TypeOK, Threads
  <2>2. Outstanding' = Outstanding \cup {t}
    BY <1>1, <2>1 DEF Outstanding
  <2> QED BY <2>1, <2>2 DEF Outstanding, Alive
<1>3. latch' = Cardinality(Outstanding') /\ latch' \in Nat
  BY <1>2, CountedAreFinite, FS_AddElement, FS_CardinalityType DEF CountInv
<1>4. TypeOK'
  BY <1>3 DEF TypeOK, Labels
<1>5. \A w \in Workers : current[w] # t
  BY <1>1 DEF RunInv, TypeOK, Busy
<1>6. \A q \in Threads : spawning[q] # t
  BY <1>1 DEF PushInv
<1>7. RunInv'
  BY DEF RunInv, TypeOK, Busy, Threads
<1>8. PushInv'
  BY <1>1, <1>5, <1>6 DEF PushInv, TypeOK
<1>9. StackInv'
  BY DEF StackInv, TypeOK
<1>10. NoneLost'
  <2> SUFFICES ASSUME NEW u \in spawned' \ returned
               PROVE  \/ \E q \in Threads : spawning'[q] = u
                      \/ \E i \in 1 .. Len(workStack) : workStack[i] = u
                      \/ \E w \in Workers : current[w] = u
    BY DEF NoneLost
  <2>1. CASE u = t
    BY <2>1 DEF TypeOK
  <2>2. CASE u # t
    <3>1. u \in spawned \ returned /\ u # NoTask
      BY <2>2, ThreadPoolAssumption DEF TypeOK
    <3>2. CASE \E q \in Threads : spawning[q] = u
      <4> PICK q \in Threads : spawning[q] = u
        BY <3>2
      <4>1. q # p
        BY <1>1, <3>1
      <4> QED BY <4>1 DEF TypeOK
    <3> QED BY <3>1, <3>2 DEF NoneLost
  <2> QED BY <2>1, <2>2
<1>11. CountInv'
  BY <1>2, <1>3 DEF CountInv
<1>12. OwnerInv'
  <2>1. CASE p = Owner
    BY <2>1, ThreadPoolAssumption DEF OwnerInv, AfterSync, TypeOK, Threads
  <2>2. CASE p # Owner
    <3>1. current[p] \in Outstanding
      BY <2>2 DEF RunInv, Outstanding, Busy, Threads
    <3>2. pc'[Owner] = pc[Owner]
      BY <2>2, ThreadPoolAssumption DEF TypeOK, Threads
    <3> QED BY <3>1, <3>2 DEF OwnerInv, AfterSync
  <2> QED BY <2>1, <2>2
<1> QED BY <1>4, <1>7, <1>8, <1>9, <1>10, <1>11, <1>12

\* The task goes from the thread that spawns it to the top of the stack.
LEMMA PushKeeps == ASSUME IInv, NEW p \in Threads, Push(p) PROVE IInv'
<1> USE DEF IInv, Push, Goto
<1> DEFINE n == Len(workStack)
           t == spawning[p]
<1>1. t \in spawned \ returned /\ t \in Tasks /\ t # NoTask
  BY ThreadPoolAssumption DEF PushInv, TypeOK
<1>2. /\ n \in Nat
      /\ workStack' \in Seq(Tasks)
      /\ Len(workStack') = n + 1
      /\ \A i \in 1 .. n : workStack'[i] = workStack[i]
      /\ workStack'[n + 1] = t
  BY <1>1, AppendProperties DEF TypeOK
<1>3. Outstanding' = Outstanding /\ Alive' = Alive
  BY DEF Outstanding, Alive, TypeOK, Threads
<1>4. TypeOK'
  BY <1>2 DEF TypeOK, Labels
<1>5. RunInv'
  BY DEF RunInv, TypeOK, Busy, Threads
<1>6. PushInv'
  BY DEF PushInv, TypeOK
<1>7. StackInv'
  <2>1. \A i \in 1 .. n + 1 : i \in 1 .. n \/ i = n + 1
    BY <1>2
  <2>2. \A i \in 1 .. n : /\ workStack[i] \in spawned \ returned
                          /\ \A j \in 1 .. n : workStack[i] = workStack[j] => i = j
                          /\ workStack[i] # t
                          /\ \A q \in Threads : spawning'[q] # workStack[i]
                          /\ \A w \in Workers : current[w] # workStack[i]
    BY <1>1, ThreadPoolAssumption DEF StackInv, TypeOK
  <2>3. /\ \A q \in Threads : spawning'[q] # t
        /\ \A w \in Workers : current[w] # t
    BY <1>1 DEF PushInv, TypeOK
  <2> QED BY <1>1, <1>2, <2>1, <2>2, <2>3 DEF StackInv
<1>8. NoneLost'
  <2> SUFFICES ASSUME NEW u \in spawned \ returned
               PROVE  \/ \E q \in Threads : spawning'[q] = u
                      \/ \E i \in 1 .. n + 1 : workStack'[i] = u
                      \/ \E w \in Workers : current[w] = u
    BY <1>2 DEF NoneLost
  <2>1. CASE \E i \in 1 .. n : workStack[i] = u
    BY <1>2, <2>1
  <2>2. CASE \E q \in Threads : spawning[q] = u
    <3> PICK q \in Threads : spawning[q] = u
      BY <2>2
    <3>1. CASE q = p
      BY <1>2, <3>1
    <3>2. CASE q # p
      BY <3>2 DEF TypeOK
    <3> QED BY <3>1, <3>2
  <2> QED BY <2>1, <2>2 DEF NoneLost
<1>9. CountInv'
  BY <1>3 DEF CountInv
<1>10. OwnerInv'
  BY <1>3, ThreadPoolAssumption DEF OwnerInv, AfterSync, TypeOK, Threads
<1> QED BY <1>4, <1>5, <1>6, <1>7, <1>8, <1>9, <1>10

-----------------------------------------------------------------------------
(***************************************************************************)
(* Every step keeps the invariant.                                         *)
(***************************************************************************)

\* A worker that has no task goes to another label at which it has none.
LEMMA CalmWorkerKeeps ==
  ASSUME IInv, NEW w \in Workers,
         Sleep(w) \/ WakeUp(w) \/ Leave(w) \/ StartWorker(w) \/ (StartWork /\ w = First)
  PROVE  IInv'
<1>1. PICK l \in {"work", "idle", "leave"} :
        /\ pc[w] \in {"none", "start", "work", "idle"}
        /\ pc' = [pc EXCEPT ![w] = l]
        /\ UNCHANGED <<current, spawning, workStack, stop, latch, done, spawned, returned>>
  BY DEF Sleep, WakeUp, Leave, StartWorker, StartWork, Goto
<1>2. w \in Threads /\ Owner \in Threads /\ w # Owner /\ pc \in [Threads -> Labels]
  BY ThreadPoolAssumption DEF Threads, IInv, TypeOK
<1>3. pc'[w] = l /\ \A p \in Threads : p # w => pc'[p] = pc[p]
  BY <1>1, <1>2
<1>4. pc' \in [Threads -> Labels]
  BY <1>1, <1>2 DEF Labels
<1>5. \A v \in Workers : Moved(v)
  BY <1>1, <1>3 DEF Moved, Calm, Busy, Labels, Threads
<1>6. pc'[Owner] = pc[Owner]
  BY <1>2, <1>3
<1> QED BY <1>1, <1>4, <1>5, <1>6, CalmStep DEF Moved, IInv, OwnerInv, TypeOK

\* The owner waits, comes back from a wait, or ends the pool.
Ends == {"sync", "syncing"} \cup AfterSync

LEMMA OwnerMovesKeeps ==
  ASSUME IInv, NEW l \in Ends,
         pc' = [pc EXCEPT ![Owner] = l],
         (pc[Owner] = "open" /\ l = "sync") \/ pc[Owner] \in Ends,
         l \in AfterSync => pc[Owner] \in AfterSync \/ latch = 0,
         pc[Owner] \in AfterSync => l \in AfterSync,
         l = "destroyed" => done = 0,
         stop' = stop \/ (stop' = TRUE /\ l \in AfterSync),
         UNCHANGED <<current, spawning, workStack, latch, done, spawned, returned>>
  PROVE  IInv'
<1>1. Owner \in Threads /\ Owner \notin Workers /\ pc \in [Threads -> Labels] /\ stop \in BOOLEAN
  BY ThreadPoolAssumption DEF Threads, IInv, TypeOK
<1>2. pc'[Owner] = l /\ \A p \in Threads : p # Owner => pc'[p] = pc[p]
  BY <1>1
<1>3. pc' \in [Threads -> Labels]
  BY <1>1 DEF Labels, Ends
<1>4. \A v \in Workers : Moved(v)
  BY <1>1, <1>2 DEF Moved, Threads
<1>5. Moved(Owner) \/ (pc[Owner] = "open" /\ pc'[Owner] = "sync")
  BY <1>2 DEF Moved, Calm, Busy, Labels, AfterSync, Ends
<1>6. stop' => pc'[Owner] \in AfterSync
  BY <1>2 DEF IInv, OwnerInv
<1>7. stop' \in BOOLEAN
  BY <1>1
<1> QED BY <1>2, <1>3, <1>4, <1>5, <1>6, <1>7, CalmStep

LEMMA CalmOwnerKeeps ==
  ASSUME IInv,
         \/ CallSync \/ WaitSync \/ WakeSync \/ Synced
         \/ Stop \/ WaitJoin \/ WakeJoin \/ Destroy
  PROVE  IInv'
<1> USE DEF Goto, Ends, AfterSync
<1>1. CASE CallSync
  BY <1>1, OwnerMovesKeeps DEF CallSync
<1>2. CASE WaitSync
  BY <1>2, OwnerMovesKeeps DEF WaitSync
<1>3. CASE WakeSync
  BY <1>3, OwnerMovesKeeps DEF WakeSync
<1>4. CASE Synced
  BY <1>4, OwnerMovesKeeps DEF Synced
<1>5. CASE Stop
  BY <1>5, OwnerMovesKeeps DEF Stop
<1>6. CASE WaitJoin
  BY <1>6, OwnerMovesKeeps DEF WaitJoin
<1>7. CASE WakeJoin
  BY <1>7, OwnerMovesKeeps DEF WakeJoin
<1>8. CASE Destroy
  BY <1>8, OwnerMovesKeeps DEF Destroy
<1> QED BY <1>1, <1>2, <1>3, <1>4, <1>5, <1>6, <1>7, <1>8

\* notify_one wakes a worker that has no task, if one sleeps.
LEMMA NotifyOneKeeps == ASSUME IInv, NEW p \in Threads, NotifyOne(p) PROVE IInv'
<1>1. /\ pc[p] = "notify"
      /\ UNCHANGED <<current, spawning, workStack, stop, latch, done, spawned, returned>>
  BY DEF NotifyOne
<1>2. pc \in [Threads -> Labels] /\ Owner \in Threads /\ Workers \subseteq Threads
  BY DEF Threads, IInv, TypeOK
<1>3. \/ pc' = [pc EXCEPT ![p] = "open"]
      \/ \E w \in Workers : pc[w] = "idle" /\ pc' = [pc EXCEPT ![p] = "open", ![w] = "work"]
  BY DEF NotifyOne
<1>4. /\ pc' \in [Threads -> Labels]
      /\ \A q \in Threads : Moved(q)
      /\ pc'[Owner] = IF p = Owner THEN "open" ELSE pc[Owner]
  <2>1. CASE pc' = [pc EXCEPT ![p] = "open"]
    BY <1>1, <1>2, <2>1 DEF Moved, Labels
  <2>2. CASE \E w \in Workers : pc[w] = "idle" /\ pc' = [pc EXCEPT ![p] = "open", ![w] = "work"]
    <3> PICK w \in Workers : pc[w] = "idle" /\ pc' = [pc EXCEPT ![p] = "open", ![w] = "work"]
      BY <2>2
    <3>1. w # p /\ w # Owner /\ w \in Threads
      BY <1>1, <1>2, ThreadPoolAssumption
    <3>2. \A q \in Threads : pc'[q] = IF q = w THEN "work" ELSE IF q = p THEN "open" ELSE pc[q]
      BY <1>2, <3>1
    <3>3. pc' \in [Threads -> Labels]
      BY <1>2 DEF Labels
    <3>4. Moved(w) /\ Moved(p)
      <4>1. pc[w] = "idle" /\ pc'[w] = "work" /\ pc'[p] = "open"
        BY <3>1, <3>2
      <4>2. "idle" \in Calm /\ "work" \in Calm
        BY DEF Calm, Labels, Busy
      <4> QED BY <1>1, <4>1, <4>2 DEF Moved
    <3>5. \A q \in Threads : q # w /\ q # p => Moved(q)
      BY <3>2 DEF Moved
    <3> QED BY <1>2, <3>1, <3>2, <3>3, <3>4, <3>5
  <2> QED BY <1>3, <2>1, <2>2
<1>5. /\ stop' => pc'[Owner] \in AfterSync
      /\ pc'[Owner] \in AfterSync => pc[Owner] \in AfterSync
      /\ pc'[Owner] = "destroyed" => pc[Owner] = "destroyed"
  BY <1>1, <1>4 DEF IInv, OwnerInv, AfterSync
<1> QED BY <1>1, <1>2, <1>4, <1>5, CalmStep DEF IInv, TypeOK

\* notify_all of the destructor wakes workers, which have no task.
LEMMA NotifyAllKeeps == ASSUME IInv, NotifyAll PROVE IInv'
<1>1. /\ pc[Owner] = "stopping"
      /\ UNCHANGED <<current, spawning, workStack, stop, latch, done, spawned, returned>>
  BY DEF NotifyAll
<1>2. pc \in [Threads -> Labels] /\ Owner \in Threads /\ Workers \subseteq Threads
  BY DEF Threads, IInv, TypeOK
<1>3. /\ Woken("idle", "work") \in [Threads -> Labels]
      /\ \A q \in Threads : Woken("idle", "work")[q] = IF pc[q] = "idle" THEN "work" ELSE pc[q]
  BY <1>2 DEF Woken, Labels
<1>4. \A q \in Threads : pc'[q] = IF q = Owner THEN "join"
                                  ELSE IF pc[q] = "idle" THEN "work" ELSE pc[q]
  BY <1>2, <1>3 DEF NotifyAll
<1>5. pc' \in [Threads -> Labels]
  BY <1>3 DEF NotifyAll, Labels, AfterSync
<1>6. \A q \in Threads : Moved(q)
  BY <1>1, <1>4 DEF Moved, Calm, Busy, Labels, AfterSync
<1> QED BY <1>1, <1>2, <1>4, <1>5, <1>6, CalmStep DEF IInv, TypeOK, AfterSync

LEMMA StutterKeeps == ASSUME IInv, UNCHANGED vars PROVE IInv'
BY DEF vars, IInv, TypeOK, RunInv, PushInv, StackInv, NoneLost, CountInv, OwnerInv,
       Outstanding, Alive

LEMMA SpawningKeeps == ASSUME IInv, NEW p \in Threads, Spawning(p) PROVE IInv'
BY PushKeeps, NotifyOneKeeps, IncKeeps DEF Spawning

LEMMA NextKeeps == IInv /\ [Next]_vars => IInv'
<1> SUFFICES ASSUME IInv, [Next]_vars PROVE IInv'
  OBVIOUS
<1>1. CASE OwnerStep
  BY <1>1, CalmOwnerKeeps, NotifyAllKeeps, SpawningKeeps DEF OwnerStep, Threads
<1>2. CASE StartStep
  BY <1>2, CalmWorkerKeeps, ThreadPoolAssumption DEF StartStep
<1>3. CASE \E w \in Workers : WorkerStep(w)
  <2> PICK w \in Workers : WorkerStep(w)
    BY <1>3
  <2> QED BY CalmWorkerKeeps, TakeKeeps, ReturnKeeps, DecKeeps, DecDoneKeeps, SpawningKeeps
          DEF WorkerStep, Threads
<1>4. CASE Spurious
  BY <1>4, CalmOwnerKeeps, CalmWorkerKeeps DEF Spurious
<1>5. CASE Ended \/ UNCHANGED vars
  BY <1>5, StutterKeeps DEF Ended
<1> QED BY <1>1, <1>2, <1>3, <1>4, <1>5 DEF Next

-----------------------------------------------------------------------------
(***************************************************************************)
(* What follows from the invariant.                                        *)
(***************************************************************************)

\* IInv holds in every reachable state.
THEOREM PoolInvariant == Spec => []IInv
BY InitHolds, NextKeeps, PTL DEF Spec

\* Every variable has its type. With it, no latch is ever decremented at zero
\* (the comment at Parallel.h:43 calls that undefined).
THEOREM TypeCorrect == Spec => []TypeOK
<1>1. IInv => TypeOK
  BY DEF IInv
<1> QED BY <1>1, PoolInvariant, PTL

\* sync() returns only when every closure that was spawned has returned.
THEOREM SyncIsComplete == Spec => []SyncMeansDone
<1>1. IInv => SyncMeansDone
  BY DEF IInv, TypeOK, OwnerInv, Outstanding, SyncMeansDone
<1> QED BY <1>1, PoolInvariant, PTL

\* Once the executor is destroyed no worker can touch its members.
THEOREM DestroyedIsUnused == Spec => []DestroyedUnused
<1>1. IInv => DestroyedUnused
  BY DEF IInv, OwnerInv, Alive, DestroyedUnused
<1> QED BY <1>1, PoolInvariant, PTL

\* No task is on the stack when the workers are told to stop.
THEOREM NothingIsLeftBehind == Spec => []NothingLeftBehind
<1>1. IInv => NothingLeftBehind
  <2> SUFFICES ASSUME IInv, stop PROVE workStack = <<>>
    BY DEF NothingLeftBehind
  <2>1. spawned \ returned = {}
    BY DEF IInv, OwnerInv, Outstanding
  <2>2. workStack \in Seq(Tasks) /\ Len(workStack) \in Nat
    BY DEF IInv, TypeOK
  <2>3. 1 \notin 1 .. Len(workStack)
    BY <2>1 DEF IInv, StackInv
  <2>4. Len(workStack) = 0
    BY <2>2, <2>3
  <2> QED BY <2>2, <2>4, EmptySeq
<1> QED BY <1>1, PoolInvariant, PTL

\* No task is lost, and none is at two places, so none runs twice.
THEOREM EachRunsOnce == Spec => []EachTaskOnce
<1>1. ASSUME IInv PROVE EachTaskOnce
  <2> SUFFICES ASSUME NEW t \in Tasks
               PROVE  LET places ==
                            {<<"push", p>> : p \in {q \in Threads : PushedBy(q, t)}}
                              \cup {<<"stack", i>> : i \in {j \in 1 .. Len(workStack) : workStack[j] = t}}
                              \cup {<<"run", w>> : w \in {v \in Workers : RunBy(v, t)}}
                      IN  IF t \in spawned \ returned
                            THEN \E place \in places : places = {place}
                            ELSE places = {}
    BY DEF EachTaskOnce
  <2> DEFINE P == {q \in Threads : PushedBy(q, t)}
             S == {j \in 1 .. Len(workStack) : workStack[j] = t}
             R == {v \in Workers : RunBy(v, t)}
             places == {<<"push", p>> : p \in P} \cup {<<"stack", i>> : i \in S}
                         \cup {<<"run", w>> : w \in R}
  <2>1. t # NoTask
    BY ThreadPoolAssumption
  <2>2. \A v \in Workers : RunBy(v, t) => t \in spawned \ returned
    BY <1>1, <2>1 DEF IInv, RunInv, TypeOK, Busy, RunBy
  <2>3. t \notin spawned \ returned => P = {} /\ S = {} /\ R = {}
    BY <1>1, <2>1, <2>2 DEF IInv, PushInv, StackInv, PushedBy
  <2>4. t \in spawned \ returned =>
          \/ \E p \in Threads : P = {p} /\ S = {} /\ R = {}
          \/ \E i \in 1 .. Len(workStack) : P = {} /\ S = {i} /\ R = {}
          \/ \E w \in Workers : P = {} /\ S = {} /\ R = {w}
    <3> SUFFICES ASSUME t \in spawned \ returned
                 PROVE  \/ \E p \in Threads : P = {p} /\ S = {} /\ R = {}
                        \/ \E i \in 1 .. Len(workStack) : P = {} /\ S = {i} /\ R = {}
                        \/ \E w \in Workers : P = {} /\ S = {} /\ R = {w}
      OBVIOUS
    <3>1. ASSUME NEW p \in Threads, spawning[p] = t PROVE P = {p} /\ S = {} /\ R = {}
      BY <1>1, <2>1, <3>1 DEF IInv, PushInv, StackInv, PushedBy, RunBy
    <3>2. ASSUME NEW i \in 1 .. Len(workStack), workStack[i] = t
          PROVE  P = {} /\ S = {i} /\ R = {}
      BY <1>1, <2>1, <3>2 DEF IInv, StackInv, PushedBy, RunBy
    <3>3. ASSUME NEW w \in Workers, current[w] = t PROVE P = {} /\ S = {} /\ R = {w}
      <4>1. pc[w] # "dec"
        BY <1>1, <3>3 DEF IInv, RunInv
      <4> QED BY <1>1, <2>1, <3>3, <4>1 DEF IInv, PushInv, StackInv, RunInv, PushedBy, RunBy
    <3> QED BY <1>1, <3>1, <3>2, <3>3 DEF IInv, NoneLost
  <2> HIDE DEF P, S, R
  <2>5. IF t \in spawned \ returned THEN \E place \in places : places = {place} ELSE places = {}
    <3>1. ASSUME NEW p, P = {p}, S = {}, R = {} PROVE places = {<<"push", p>>}
      BY <3>1
    <3>2. ASSUME NEW i, P = {}, S = {i}, R = {} PROVE places = {<<"stack", i>>}
      BY <3>2
    <3>3. ASSUME NEW w, P = {}, S = {}, R = {w} PROVE places = {<<"run", w>>}
      BY <3>3
    <3>4. P = {} /\ S = {} /\ R = {} => places = {}
      OBVIOUS
    <3> HIDE DEF places
    <3> QED BY <2>3, <2>4, <3>1, <3>2, <3>3, <3>4
  <2> QED BY <2>5 DEF P, S, R
<1>2. IInv => EachTaskOnce
  BY <1>1
<1> QED BY <1>2, PoolInvariant, PTL

\* The pool's safety as the run checks it: every task is at one place until it
\* has returned, and nothing of the executor is used when it is gone.
THEOREM NothingGetsLost == Spec => []NothingIsLost
<1>1. TypeOK /\ EachTaskOnce /\ NothingLeftBehind /\ DestroyedUnused => NothingIsLost
  BY DEF NothingIsLost
<1> QED BY <1>1, TypeCorrect, EachRunsOnce, NothingIsLeftBehind, DestroyedIsUnused, PTL

\* The pool does what TaskGroup says may happen: its initial states and its
\* steps are those of a group whose sync() has returned at AfterSync.
THEOREM GroupRefined == Spec => Group!Init /\ [][Group!Next]_(Group!vars)
<1>1. Init => Group!Init
  BY ThreadPoolAssumption DEF Init, Group!Init, AfterSync, Threads
<1>2. ASSUME IInv, [Next]_vars PROVE [Group!Next]_(Group!vars)
  <2> DEFINE synced == pc[Owner] \in AfterSync
             Same == UNCHANGED <<spawned, returned>> /\ synced' = synced
  <2>1. ASSUME Same PROVE [Group!Next]_(Group!vars)
    BY <2>1 DEF Group!vars
  <2>2. pc \in [Threads -> Labels] /\ Owner \in Threads /\ Workers \subseteq Threads
    BY <1>2 DEF Threads, IInv, TypeOK
  <2>3. ASSUME NEW w \in Workers, Return(w) PROVE [Group!Next]_(Group!vars)
    <3>1. current[w] \in spawned \ returned /\ current[w] \in Tasks
      BY <1>2, <2>3 DEF IInv, RunInv, TypeOK, Return, Goto, Busy
    <3>2. synced' = synced
      BY <2>2, <2>3, ThreadPoolAssumption DEF Return, Goto
    <3> QED BY <2>3, <3>1, <3>2 DEF Return, Group!Return, Group!Next
  <2>4. ASSUME NEW p \in Threads, NEW t \in Tasks, Inc(p, t) PROVE [Group!Next]_(Group!vars)
    <3>1. ~synced \/ spawned # returned
      <4>1. CASE p = Owner
        BY <2>4, <4>1 DEF Inc, Goto, AfterSync
      <4>2. CASE p # Owner
        BY <1>2, <2>4, <4>2 DEF Inc, Goto, IInv, RunInv, Busy, Threads
      <4> QED BY <4>1, <4>2
    <3>2. synced' = synced
      BY <2>2, <2>4 DEF Inc, Goto, AfterSync
    <3> QED BY <2>4, <3>1, <3>2 DEF Inc, Group!Spawn, Group!Next
  <2>5. ASSUME Synced PROVE [Group!Next]_(Group!vars)
    <3>1. returned = spawned
      BY <1>2, <2>5, ZeroMeansNone DEF Synced, Goto, IInv, Outstanding, TypeOK
    <3>2. ~synced /\ synced'
      BY <2>2, <2>5 DEF Synced, Goto, AfterSync
    <3> QED BY <2>5, <3>1, <3>2 DEF Synced, Group!Sync, Group!Next
  <2>6. ASSUME CallSync \/ WaitSync \/ WakeSync \/ Stop \/ WaitJoin \/ WakeJoin \/ Destroy
        PROVE  Same
    BY <2>2, <2>6 DEF CallSync, WaitSync, WakeSync, Stop, WaitJoin, WakeJoin, Destroy, Goto,
                      AfterSync
  <2>7. ASSUME NotifyAll PROVE Same
    BY <2>2, <2>7 DEF NotifyAll, AfterSync, Woken
  <2>8. ASSUME NEW w \in Workers,
               \/ Sleep(w) \/ WakeUp(w) \/ Take(w) \/ Leave(w)
               \/ StartWorker(w) \/ (StartWork /\ w = First)
        PROVE  Same
    BY <2>2, <2>8, ThreadPoolAssumption DEF Sleep, WakeUp, Take, Leave, StartWorker, StartWork, Goto
  <2>9. ASSUME NEW w \in Workers, Dec(w) \/ DecDone(w) PROVE Same
    <3>1. pc'[Owner] \in AfterSync <=> pc[Owner] \in AfterSync
      BY <2>2, <2>9, ThreadPoolAssumption DEF Dec, DecDone, Woken, AfterSync
    <3> QED BY <2>9, <3>1 DEF Dec, DecDone
  <2>10. ASSUME NEW p \in Threads, Push(p) \/ NotifyOne(p) PROVE Same
    <3>1. CASE Push(p)
      BY <2>2, <3>1 DEF Push, Goto, AfterSync
    <3>2. CASE NotifyOne(p)
      BY <2>2, <3>2, ThreadPoolAssumption DEF NotifyOne, AfterSync
    <3> QED BY <2>10, <3>1, <3>2
  <2>11. CASE OwnerStep
    BY <2>1, <2>4, <2>5, <2>6, <2>7, <2>10, <2>11, <2>2 DEF OwnerStep, Spawning
  <2>12. CASE StartStep
    BY <2>1, <2>8, <2>12, ThreadPoolAssumption DEF StartStep
  <2>13. CASE \E w \in Workers : WorkerStep(w)
    BY <2>1, <2>2, <2>3, <2>4, <2>8, <2>9, <2>10, <2>13 DEF WorkerStep, Spawning
  <2>14. CASE Spurious
    BY <2>1, <2>6, <2>8, <2>14 DEF Spurious
  <2>15. CASE Ended \/ UNCHANGED vars
    BY <2>1, <2>15 DEF Ended, vars
  <2> QED BY <1>2, <2>11, <2>12, <2>13, <2>14, <2>15 DEF Next
<1>3. IInv /\ [Next]_vars => [Group!Next]_(Group!vars)
  BY <1>2
<1> QED BY <1>1, <1>3, PoolInvariant, PTL DEF Spec
=============================================================================
