---------------------------- MODULE RTCCache_proofs ----------------------------
(***************************************************************************)
(* Proofs about RTCCache: for any number of processes, versions of the     *)
(* library, threads and kernels, everyone gets the code of the kernel and  *)
(* the version asked for, a pending compile is always waited for by the    *)
(* caller that added it, and a process compiles one kernel at a time.      *)
(***************************************************************************)
EXTENDS RTCCache, TLAPS

------------------------------------------------------------------------------
(* The inductive invariant *)

\* The thread that made a task waits for it, and is not answered yet.
TaskIsAwaited ==
  \A t \in Threads : task[t].at # "none" =>
    /\ task[t].kernel \in Kernels
    /\ want[t] = task[t].kernel /\ future[t] = t /\ result[t] = None

\* Who waits for a task is a thread of its process and wants its kernel.
WaitersShare ==
  \A t \in Threads : want[t] # None /\ result[t] = None =>
    /\ future[t] \in Threads /\ P(future[t]) = P(t)
    /\ task[future[t]].at # "none" /\ task[future[t]].kernel = want[t]

\* A thread that asks for nothing has no answer.
NothingUnasked ==
  \A t \in Threads : want[t] = None => result[t] = None

\* Pending compiles are in a cache, which is there as long as they are.
PendingInLibrary ==
  \A p \in Procs, k \in Kernels : pending[<<p, k>>] # None => p \in single

\* What has been compiled is the code of the task's kernel.
CompiledIsRight ==
  \A t \in Threads : task[t].at \in {"store", "store step"} =>
    task[t].code = CodeFor(task[t].kernel, V(t))

\* Between bind and step the SELECT statement belongs to one task and has the
\* key of its kernel.
SelectIsBound ==
  \A t \in Threads : task[t].at = "user step" =>
    getter[P(t)] = t /\ bound[P(t)] = RowKey(task[t].kernel, V(t))

\* The same of the INSERT statement, with the code.
InsertIsBound ==
  \A t \in Threads : task[t].at = "store step" =>
    /\ storer[P(t)] = t
    /\ storing[P(t)] = [key |-> RowKey(task[t].kernel, V(t)), code |-> task[t].code]

\* A task that compiles in its process has the lock.
CompilerIsLocked ==
  \A t \in Threads : task[t].at = "in process" => compiler[P(t)] = t

\* The tasks and the threads that wait for them.
Waiting ==
  /\ TaskIsAwaited /\ WaitersShare /\ NothingUnasked
  /\ PendingIsWaitedFor /\ PendingInLibrary

\* The statements and the lock of a process, and the tasks that use them.
Exclusive == CompiledIsRight /\ SelectIsBound /\ InsertIsBound /\ CompilerIsLocked

IInv == TypeOK /\ Waiting /\ Exclusive /\ RightCode

------------------------------------------------------------------------------
(* Facts about threads, keys and code *)

LEMMA ThreadFacts ==
  ASSUME NEW t \in Threads
  PROVE  P(t) \in Procs /\ V(t) \in Versions /\ t # None
  BY RTCAssumption DEF P, V, Versions

LEMMA CodeFacts ==
  ASSUME NEW k \in Kernels, NEW v \in Versions
  PROVE  /\ CodeFor(k, v) \in Codes
         /\ CodeFor(k, v) # None /\ CodeFor(k, v) # Failed
         /\ RowKey(k, v) \in RowKeys /\ RowKey(k, v) # None
         /\ RowKey(k, v)[1] = k /\ RowKey(k, v)[2] = v
  BY RTCAssumption DEF CodeFor, Codes, RowKey, RowKeys

\* Nothing that is stored or returned is None or an exception.
LEMMA Distinct ==
  /\ None \notin Codes /\ Failed \notin Codes /\ Failed # None
  /\ None \notin Kernels /\ None \notin Threads /\ None \notin RowKeys
  BY RTCAssumption DEF Codes

------------------------------------------------------------------------------
(* What the steps of a task have in common *)

TaskRecords == [at : TaskSites, kernel : Kernels \cup {None}, code : Codes \cup {None}]

\* The task of t goes on to another place, with this code.
Moves(t, at, code) ==
  /\ task' \in [Threads -> TaskRecords]
  /\ task'[t].at = at /\ task'[t].kernel = task[t].kernel /\ task'[t].code = code
  /\ \A u \in Threads : u # t => task'[u] = task[u]

LEMMA GotoMoves ==
  ASSUME TypeOK, NEW t \in Threads, NEW at \in TaskSites, Goto(t, at)
  PROVE  Moves(t, at, task[t].code)
  BY DEF TypeOK, Goto, Moves, TaskRecords

LEMMA StoreMoves ==
  ASSUME TypeOK, NEW t \in Threads, NEW c \in Codes,
         task' = [task EXCEPT ![t].at = "store", ![t].code = c]
  PROVE  Moves(t, "store", c)
  <1>1. task' \in [Threads -> TaskRecords]
    BY DEF TypeOK, TaskRecords, TaskSites
  <1> QED
    BY <1>1 DEF TypeOK, Moves, TaskRecords

\* Whoever waits for a task that goes on still does.
LEMMA MovesKeeps ==
  ASSUME IInv, NEW t \in Threads, task[t].at # "none", NEW at, at # "none", NEW code,
         Moves(t, at, code), UNCHANGED <<single, pending, want, future, result>>
  PROVE  Waiting'
  <1>1. \A u \in Threads : /\ task'[u].kernel = task[u].kernel
                           /\ task'[u].at # "none" <=> task[u].at # "none"
    BY DEF Moves
  <1>2. TaskIsAwaited'
    BY <1>1 DEF IInv, Waiting, TaskIsAwaited
  <1>3. WaitersShare'
    BY <1>1 DEF IInv, Waiting, WaitersShare, P
  <1>4. NothingUnasked' /\ PendingIsWaitedFor' /\ PendingInLibrary'
    BY DEF IInv, Waiting, NothingUnasked, PendingIsWaitedFor, PendingInLibrary, P
  <1> QED
    BY <1>2, <1>3, <1>4 DEF Waiting

\* The task of t ends: everyone who waits for it gets its result.
LEMMA EndAnswers ==
  ASSUME IInv, NEW t \in Threads, task[t].at # "none",
         NEW value \in Codes \cup {Failed},
         value # Failed => value = CodeFor(task[t].kernel, V(t)),
         End(t, value), UNCHANGED <<single, pending, want, future>>
  PROVE  /\ task' \in [Threads -> TaskRecords]
         /\ result' \in [Threads -> Codes \cup {None, Failed}]
         /\ Waiting'
         /\ \A u \in Threads : result'[u] \notin {None, Failed} => result'[u] = CodeFor(want'[u], V(u))
  <1>1. /\ task' \in [Threads -> TaskRecords]
        /\ result' \in [Threads -> Codes \cup {None, Failed}]
    BY DEF IInv, TypeOK, End, NoTask, TaskSites, TaskRecords
  <1>2. /\ task'[t].at = "none"
        /\ \A u \in Threads : u # t => task'[u] = task[u]
    BY DEF IInv, TypeOK, End, NoTask
  <1>3. \A u \in Threads :
          result'[u] = IF future[u] = t /\ want[u] # None /\ result[u] = None THEN value ELSE result[u]
    BY DEF End
  <1>4. value # None
    BY Distinct
  <1>5. TaskIsAwaited'
    BY <1>2, <1>3 DEF IInv, Waiting, TaskIsAwaited
  <1>6. WaitersShare'
    <2> SUFFICES ASSUME NEW u \in Threads, want[u] # None, result'[u] = None
                 PROVE  /\ future[u] \in Threads /\ P(future[u]) = P(u)
                        /\ task'[future[u]].at # "none" /\ task'[future[u]].kernel = want[u]
      BY DEF WaitersShare, P
    <2>1. result[u] = None /\ future[u] # t
      BY <1>3, <1>4
    <2> QED
      BY <1>2, <2>1 DEF IInv, Waiting, WaitersShare
  <1>7. NothingUnasked'
    BY <1>3 DEF IInv, Waiting, NothingUnasked
  <1>8. PendingIsWaitedFor' /\ PendingInLibrary'
    BY DEF IInv, Waiting, PendingIsWaitedFor, PendingInLibrary, P
  <1>9. ASSUME NEW u \in Threads, result'[u] \notin {None, Failed}
        PROVE  result'[u] = CodeFor(want'[u], V(u))
    <2>1. CASE future[u] = t /\ want[u] # None /\ result[u] = None
      <3>1. P(t) = P(u) /\ task[t].kernel = want[u]
        BY <2>1 DEF IInv, Waiting, WaitersShare
      <3> QED
        BY <1>3, <1>9, <2>1, <3>1 DEF V, P
    <2>2. CASE ~(future[u] = t /\ want[u] # None /\ result[u] = None)
      BY <1>3, <1>9, <2>2 DEF IInv, RightCode
    <2> QED
      BY <2>1, <2>2
  <1> QED
    BY <1>1, <1>5, <1>6, <1>7, <1>8, <1>9 DEF Waiting

\* A task that uses a statement or the lock still does when neither changes.
LEMMA ExclusiveKept ==
  ASSUME Exclusive,
         \A u \in Threads : task'[u].at \in {"user step", "store", "store step", "in process"} =>
           /\ task'[u] = task[u]
           /\ getter'[P(u)] = getter[P(u)] /\ bound'[P(u)] = bound[P(u)]
           /\ storer'[P(u)] = storer[P(u)] /\ storing'[P(u)] = storing[P(u)]
           /\ compiler'[P(u)] = compiler[P(u)]
  PROVE  Exclusive'
  <1>1. CompiledIsRight'
    BY DEF Exclusive, CompiledIsRight, V
  <1>2. SelectIsBound'
    BY DEF Exclusive, SelectIsBound, V, P
  <1>3. InsertIsBound'
    BY DEF Exclusive, InsertIsBound, V, P
  <1>4. CompilerIsLocked'
    BY DEF Exclusive, CompilerIsLocked, P
  <1> QED
    BY <1>1, <1>2, <1>3, <1>4 DEF Exclusive

\* A running task has a kernel.
LEMMA TaskFacts ==
  ASSUME IInv, NEW t \in Threads, task[t].at # "none"
  PROVE  /\ task[t] \in [at : TaskSites, kernel : Kernels, code : Codes \cup {None}]
         /\ CodeFor(task[t].kernel, V(t)) \in Codes
         /\ RowKey(task[t].kernel, V(t)) \in RowKeys
  BY ThreadFacts, CodeFacts DEF IInv, TypeOK, Waiting, TaskIsAwaited

------------------------------------------------------------------------------
(* Every step preserves the invariant: first, the steps of a process *)

LEMMA InitIInv == Init => IInv
  <1> SUFFICES ASSUME Init PROVE IInv
    OBVIOUS
  <1>1. TypeOK
    BY DEF Init, TypeOK, NoTask, TaskSites
  <1>2. Waiting
    BY Distinct DEF Init, NoTask, Waiting, TaskIsAwaited, WaitersShare, NothingUnasked,
                    PendingIsWaitedFor, PendingInLibrary
  <1>3. Exclusive
    BY DEF Init, NoTask, Exclusive, CompiledIsRight, SelectIsBound, InsertIsBound, CompilerIsLocked
  <1>4. RightCode
    BY DEF Init, RightCode
  <1> QED
    BY <1>1, <1>2, <1>3, <1>4 DEF IInv

\* rocfft_setup and rocfft_cleanup.
LEMMA LibraryIInv ==
  ASSUME IInv, NEW p \in Procs, Setup(p) \/ Cleanup(p)
  PROVE  IInv'
  <1> USE DEF Setup, Cleanup, statements
  <1>1. TypeOK'
    BY DEF IInv, TypeOK
  <1>2. Waiting'
    <2>1. TaskIsAwaited' /\ WaitersShare' /\ NothingUnasked' /\ PendingIsWaitedFor'
      BY DEF IInv, Waiting, TaskIsAwaited, WaitersShare, NothingUnasked, PendingIsWaitedFor, P
    <2>2. PendingInLibrary'
      <3> SUFFICES ASSUME NEW q \in Procs, NEW k \in Kernels, pending[<<q, k>>] # None
                   PROVE  q \in single'
        BY DEF PendingInLibrary
      <3>1. pending[<<q, k>>] \in Threads /\ P(pending[<<q, k>>]) = q /\ want[pending[<<q, k>>]] = k
        BY DEF IInv, TypeOK, Waiting, PendingIsWaitedFor
      <3>2. q \in single /\ k # None
        BY Distinct DEF IInv, Waiting, PendingInLibrary
      <3> QED
        BY <3>1, <3>2
    <2> QED
      BY <2>1, <2>2 DEF Waiting
  <1>3. Exclusive'
    BY ExclusiveKept DEF IInv
  <1>4. RightCode'
    BY DEF IInv, RightCode
  <1> QED
    BY <1>1, <1>2, <1>3, <1>4 DEF IInv

\* A process that ends takes its threads and tasks with it; a task and those
\* who wait for it are in one process.
LEMMA CrashIInv ==
  ASSUME IInv, NEW p \in Procs, Crash(p)
  PROVE  IInv'
  <1>1. TypeOK'
    <2>1. task' \in [Threads -> TaskRecords]
      BY DEF IInv, TypeOK, Crash, NoTask, TaskSites, TaskRecords
    <2>2. pending' \in [Procs \X Kernels -> Threads \cup {None}]
      BY DEF IInv, TypeOK, Crash
    <2> QED
      BY <2>1, <2>2 DEF IInv, TypeOK, Crash, TaskRecords
  <1>2. \A t \in Threads :
          IF P(t) = p
          THEN task'[t] = NoTask /\ want'[t] = None /\ future'[t] = None /\ result'[t] = None
          ELSE /\ task'[t] = task[t] /\ want'[t] = want[t] /\ future'[t] = future[t]
               /\ result'[t] = result[t]
    BY DEF Crash
  <1>3. \A q \in Procs, k \in Kernels :
          pending'[<<q, k>>] = IF q = p THEN None ELSE pending[<<q, k>>]
    BY DEF Crash
  <1>4. \A q \in Procs : q # p =>
          /\ getter'[q] = getter[q] /\ bound'[q] = bound[q]
          /\ storer'[q] = storer[q] /\ storing'[q] = storing[q]
          /\ compiler'[q] = compiler[q]
    BY DEF Crash, IInv, TypeOK
  <1>5. Waiting'
    <2>1. TaskIsAwaited'
      BY <1>2 DEF IInv, Waiting, TaskIsAwaited, NoTask
    <2>2. WaitersShare'
      BY <1>2, ThreadFacts DEF IInv, Waiting, WaitersShare, P
    <2>3. NothingUnasked'
      BY <1>2 DEF IInv, Waiting, NothingUnasked
    <2>4. PendingIsWaitedFor'
      BY <1>1, <1>2, <1>3, Distinct DEF IInv, TypeOK, Waiting, PendingIsWaitedFor, P
    <2>5. PendingInLibrary'
      BY <1>3 DEF IInv, Waiting, PendingInLibrary, Crash
    <2> QED
      BY <2>1, <2>2, <2>3, <2>4, <2>5 DEF Waiting
  <1>6. Exclusive'
    <2>1. \A t \in Threads : task'[t].at # "none" => P(t) # p /\ task'[t] = task[t]
      BY <1>2 DEF NoTask
    <2> QED
      BY <1>4, <2>1, ThreadFacts, ExclusiveKept DEF IInv
  <1>7. RightCode'
    BY <1>2 DEF IInv, RightCode, Crash, V, P
  <1> QED
    BY <1>1, <1>5, <1>6, <1>7 DEF IInv

\* cleanup_cache and deserialize change the rows only.
LEMMA FileIInv ==
  ASSUME IInv, NEW p \in Procs, CleanupCache(p) \/ Deserialize(p)
  PROVE  IInv'
  <1> USE DEF CleanupCache, Deserialize, statements
  <1>1. \A r \in RowKeys : r[1] \in Kernels /\ r[2] \in Versions
    BY DEF RowKeys
  <1>2. TypeOK'
    BY <1>1, CodeFacts DEF IInv, TypeOK
  <1>3. Waiting'
    BY DEF IInv, Waiting, TaskIsAwaited, WaitersShare, NothingUnasked, PendingIsWaitedFor,
           PendingInLibrary, P
  <1>4. Exclusive'
    BY ExclusiveKept DEF IInv
  <1>5. RightCode'
    BY DEF IInv, RightCode
  <1> QED
    BY <1>2, <1>3, <1>4, <1>5 DEF IInv

------------------------------------------------------------------------------
(* The steps of cached_compile *)

LEMMA AskIInv ==
  ASSUME IInv, NEW t \in Threads, NEW k \in Kernels, Ask(t, k)
  PROVE  IInv'
  <1> DEFINE p == P(t)
  <1>1. /\ want[t] = None /\ result[t] = None /\ task[t].at = "none"
        /\ \A u \in Threads : want[u] # None /\ result[u] = None => future[u] # t
        /\ \A q \in Procs, m \in Kernels : pending[<<q, m>>] # t
    <2>1. want[t] = None /\ result[t] = None
      BY DEF Ask, IInv, Waiting, NothingUnasked
    <2>2. task[t].at = "none"
      BY <2>1, Distinct DEF IInv, Waiting, TaskIsAwaited
    <2>3. \A q \in Procs, m \in Kernels : pending[<<q, m>>] # t
      <3> SUFFICES ASSUME NEW q \in Procs, NEW m \in Kernels, pending[<<q, m>>] = t
                   PROVE  FALSE
        OBVIOUS
      <3> QED
        BY <2>1, Distinct DEF IInv, Waiting, PendingIsWaitedFor
    <2> QED
      BY <2>1, <2>2, <2>3 DEF IInv, Waiting, WaitersShare
  <1>2. /\ want' = [want EXCEPT ![t] = k] /\ k # None
        /\ asked' = [asked EXCEPT ![t] = @ + 1]
        /\ UNCHANGED <<single, rows, getter, bound, storer, storing, compiler, events>>
    BY Distinct DEF Ask, statements
  <1>3. p \in Procs /\ <<p, k>> \in Procs \X Kernels
    BY ThreadFacts
  <1>4. ASSUME NEW at \in {"compile", "user"},
               task' = [task EXCEPT ![t] = [at |-> at, kernel |-> k, code |-> None]],
               future' = [future EXCEPT ![t] = t], result' = [result EXCEPT ![t] = None],
               \/ UNCHANGED pending
               \/ p \in single /\ pending' = [pending EXCEPT ![<<p, k>>] = t]
        PROVE  IInv'
    <2>1. TypeOK'
      <3>1. task' \in [Threads -> TaskRecords]
        BY <1>4 DEF IInv, TypeOK, TaskRecords, TaskSites
      <3>2. pending' \in [Procs \X Kernels -> Threads \cup {None}]
        BY <1>4 DEF IInv, TypeOK
      <3> QED
        BY <1>2, <1>4, <3>1, <3>2 DEF IInv, TypeOK, TaskRecords
    <2>2. /\ task'[t].at = at /\ task'[t].kernel = k /\ want'[t] = k
          /\ future'[t] = t /\ result'[t] = None
      BY <1>2, <1>4 DEF IInv, TypeOK
    <2>3. \A u \in Threads : u # t => /\ task'[u] = task[u] /\ want'[u] = want[u]
                                      /\ future'[u] = future[u] /\ result'[u] = result[u]
      BY <1>2, <1>4 DEF IInv, TypeOK
    <2>4. TaskIsAwaited'
      BY <2>2, <2>3 DEF IInv, Waiting, TaskIsAwaited
    <2>5. WaitersShare'
      BY <1>1, <2>2, <2>3 DEF IInv, Waiting, WaitersShare, P
    <2>6. NothingUnasked'
      BY <2>2, <2>3 DEF IInv, Waiting, NothingUnasked
    <2>7. PendingIsWaitedFor'
      <3> SUFFICES ASSUME NEW q \in Procs, NEW m \in Kernels, pending'[<<q, m>>] # None
                   PROVE  /\ P(pending'[<<q, m>>]) = q
                          /\ want'[pending'[<<q, m>>]] = m
                          /\ future'[pending'[<<q, m>>]] = pending'[<<q, m>>]
        BY DEF PendingIsWaitedFor, P
      <3>1. CASE pending'[<<q, m>>] = pending[<<q, m>>]
        <4>1. pending[<<q, m>>] \in Threads \ {t}
          BY <1>1, <3>1 DEF IInv, TypeOK
        <4> QED
          BY <2>3, <3>1, <4>1 DEF IInv, Waiting, PendingIsWaitedFor
      <3>2. CASE pending'[<<q, m>>] # pending[<<q, m>>]
        <4>1. q = p /\ m = k /\ pending'[<<q, m>>] = t
          BY <1>3, <1>4, <3>2 DEF IInv, TypeOK
        <4> QED
          BY <2>2, <4>1
      <3> QED
        BY <3>1, <3>2
    <2>8. PendingInLibrary'
      BY <1>2, <1>3, <1>4 DEF IInv, TypeOK, Waiting, PendingInLibrary
    <2>9. Exclusive'
      BY <1>2, <2>2, <2>3, ExclusiveKept DEF IInv
    <2>10. RightCode'
      BY <1>2, <2>2, <2>3 DEF IInv, RightCode, V
    <2> QED
      BY <2>1, <2>4, <2>5, <2>6, <2>7, <2>8, <2>9, <2>10 DEF IInv, Waiting
  <1>5. ASSUME NEW o \in Threads, pending[<<p, k>>] = o,
               future' = [future EXCEPT ![t] = o], result' = [result EXCEPT ![t] = result[o]],
               UNCHANGED <<task, pending>>
        PROVE  IInv'
    <2>1. o # t /\ P(o) = p /\ want[o] = k /\ future[o] = o
      BY <1>1, <1>3, <1>5, Distinct DEF IInv, Waiting, PendingIsWaitedFor
    <2>2. TypeOK'
      BY <1>2, <1>5 DEF IInv, TypeOK
    <2>3. want'[t] = k /\ future'[t] = o /\ result'[t] = result[o]
      BY <1>2, <1>5 DEF IInv, TypeOK
    <2>4. \A u \in Threads : u # t => /\ want'[u] = want[u] /\ future'[u] = future[u]
                                      /\ result'[u] = result[u]
      BY <1>2, <1>5 DEF IInv, TypeOK
    <2>5. TaskIsAwaited'
      BY <1>1, <1>5, <2>4 DEF IInv, Waiting, TaskIsAwaited
    <2>6. WaitersShare'
      BY <1>2, <1>5, <2>1, <2>3, <2>4 DEF IInv, Waiting, WaitersShare, P
    <2>7. NothingUnasked'
      BY <1>2, <2>3, <2>4 DEF IInv, Waiting, NothingUnasked
    <2>8. PendingIsWaitedFor' /\ PendingInLibrary'
      BY <1>1, <1>2, <1>5, <2>4
      DEF IInv, TypeOK, Waiting, PendingIsWaitedFor, PendingInLibrary, P
    <2>9. Exclusive'
      BY <1>2, <1>5, ExclusiveKept DEF IInv
    <2>10. RightCode'
      BY <1>2, <2>1, <2>3, <2>4 DEF IInv, RightCode, V, P
    <2> QED
      BY <2>2, <2>5, <2>6, <2>7, <2>8, <2>9, <2>10 DEF IInv, Waiting
  <1>6. pending[<<p, k>>] \in Threads \cup {None}
    BY <1>3 DEF IInv, TypeOK
  <1> QED
    BY <1>4, <1>5, <1>6 DEF Ask

\* The caller that added a pending compile forgets it when it is answered.
LEMMA AnsweredIInv ==
  ASSUME IInv, NEW t \in Threads, Answered(t)
  PROVE  IInv'
  <1>1. /\ want' = [want EXCEPT ![t] = None] /\ future' = [future EXCEPT ![t] = None]
        /\ result' = [result EXCEPT ![t] = None] /\ pending' = Forget(t)
        /\ want[t] \in Kernels /\ result[t] # None
        /\ UNCHANGED <<single, rows, getter, bound, storer, storing, compiler, task, asked, events>>
    BY DEF Answered, statements, IInv, TypeOK
  <1>2. TypeOK'
    <2>1. pending' \in [Procs \X Kernels -> Threads \cup {None}]
      BY <1>1 DEF IInv, TypeOK, Forget
    <2> QED
      BY <1>1, <2>1 DEF IInv, TypeOK
  <1>3. want'[t] = None /\ future'[t] = None /\ result'[t] = None
    BY <1>1 DEF IInv, TypeOK
  <1>4. \A u \in Threads : u # t => /\ want'[u] = want[u] /\ future'[u] = future[u]
                                    /\ result'[u] = result[u]
    BY <1>1 DEF IInv, TypeOK
  <1>5. TaskIsAwaited'
    BY <1>1, <1>4 DEF IInv, Waiting, TaskIsAwaited
  <1>6. WaitersShare' /\ NothingUnasked'
    BY <1>1, <1>3, <1>4 DEF IInv, Waiting, WaitersShare, NothingUnasked, P
  <1>7. PendingIsWaitedFor' /\ PendingInLibrary'
    <2> SUFFICES ASSUME NEW q \in Procs, NEW k \in Kernels, pending'[<<q, k>>] # None
                 PROVE  /\ P(pending'[<<q, k>>]) = q
                        /\ want'[pending'[<<q, k>>]] = k
                        /\ future'[pending'[<<q, k>>]] = pending'[<<q, k>>]
                        /\ q \in single
      BY <1>1 DEF PendingIsWaitedFor, PendingInLibrary, P
    <2>1. pending'[<<q, k>>] = pending[<<q, k>>]
      BY <1>1 DEF Forget, IInv, TypeOK
    <2>2. /\ pending[<<q, k>>] \in Threads /\ P(pending[<<q, k>>]) = q
          /\ want[pending[<<q, k>>]] = k /\ future[pending[<<q, k>>]] = pending[<<q, k>>]
          /\ q \in single
      BY <2>1 DEF IInv, TypeOK, Waiting, PendingIsWaitedFor, PendingInLibrary
    <2>3. pending[<<q, k>>] # t
      BY <1>1, <2>1, <2>2 DEF Forget, IInv, TypeOK
    <2> QED
      BY <1>4, <2>1, <2>2, <2>3
  <1>8. Exclusive'
    BY <1>1, ExclusiveKept DEF IInv
  <1>9. RightCode'
    BY <1>1, <1>3, <1>4 DEF IInv, RightCode, V
  <1> QED
    BY <1>2, <1>5, <1>6, <1>7, <1>8, <1>9 DEF IInv, Waiting

------------------------------------------------------------------------------
(* The steps of a task *)

\* A mutex is taken: no other task of the process is between bind and step.
LEMMA BindGetIInv ==
  ASSUME IInv, NEW t \in Threads, BindGet(t)
  PROVE  IInv'
  <1>1. Moves(t, "user step", task[t].code)
    BY GotoMoves DEF BindGet, IInv, TaskSites
  <1>2. P(t) \in Procs /\ task[t].at = "user" /\ RowKey(task[t].kernel, V(t)) \in RowKeys
    BY ThreadFacts, TaskFacts DEF BindGet
  <1>3. TypeOK'
    BY <1>1, <1>2 DEF BindGet, Moves, TaskRecords, IInv, TypeOK
  <1>4. Waiting'
    BY <1>1, <1>2, MovesKeeps DEF BindGet
  <1>5. SelectIsBound'
    <2> SUFFICES ASSUME NEW u \in Threads, task'[u].at = "user step"
                 PROVE  getter'[P(u)] = u /\ bound'[P(u)] = RowKey(task'[u].kernel, V(u))
      BY DEF SelectIsBound, P, V
    <2>1. CASE u = t
      BY <1>1, <1>2, <2>1 DEF BindGet, Moves, IInv, TypeOK
    <2>2. CASE u # t
      <3>1. task'[u] = task[u] /\ getter[P(u)] = u /\ bound[P(u)] = RowKey(task[u].kernel, V(u))
        BY <1>1, <2>2 DEF Moves, IInv, Exclusive, SelectIsBound
      <3>2. P(u) # P(t)
        BY <3>1, ThreadFacts DEF BindGet
      <3> QED
        BY <3>1, <3>2, ThreadFacts DEF BindGet, IInv, TypeOK
    <2> QED
      BY <2>1, <2>2
  <1>6. CompiledIsRight' /\ InsertIsBound' /\ CompilerIsLocked'
    <2>1. CompiledIsRight'
      BY <1>1 DEF Moves, IInv, Exclusive, CompiledIsRight, V
    <2>2. InsertIsBound'
      BY <1>1 DEF BindGet, Moves, IInv, Exclusive, InsertIsBound, P, V
    <2>3. CompilerIsLocked'
      BY <1>1 DEF BindGet, Moves, IInv, Exclusive, CompilerIsLocked, P
    <2> QED
      BY <2>1, <2>2, <2>3
  <1>7. RightCode'
    BY DEF BindGet, IInv, RightCode, V
  <1> QED
    BY <1>3, <1>4, <1>5, <1>6, <1>7 DEF IInv, Exclusive

\* SkipGet, Subprocess that throws, and the other steps that only go on.
LEMMA GoOnIInv ==
  ASSUME IInv, NEW t \in Threads, task[t].at # "none",
         NEW at \in {"sys", "compile", "subprocess", "lock"}, Goto(t, at),
         UNCHANGED <<single, rows, pending, statements, compiler, want, future, result, asked, events>>
  PROVE  IInv'
  <1>1. Moves(t, at, task[t].code)
    BY GotoMoves DEF IInv, TaskSites
  <1>2. TypeOK'
    BY <1>1 DEF Moves, TaskRecords, IInv, TypeOK, statements
  <1>3. Waiting'
    BY <1>1, MovesKeeps
  <1>4. Exclusive'
    BY <1>1, ExclusiveKept DEF Moves, IInv, statements
  <1>5. RightCode'
    BY DEF IInv, RightCode, V
  <1> QED
    BY <1>2, <1>3, <1>4, <1>5 DEF IInv

\* The statement is given back after the step, whatever it found.
LEMMA UnbindKeeps ==
  ASSUME IInv, NEW t \in Threads, task[t].at = "user step", Unbind(t),
         task'[t].at \notin {"user step", "store", "store step", "in process"},
         \A u \in Threads : u # t => task'[u] = task[u],
         UNCHANGED <<storer, storing, compiler>>
  PROVE  Exclusive'
  <1>1. SelectIsBound'
    <2> SUFFICES ASSUME NEW u \in Threads, task'[u].at = "user step"
                 PROVE  getter'[P(u)] = u /\ bound'[P(u)] = RowKey(task'[u].kernel, V(u))
      BY DEF SelectIsBound, P, V
    <2>1. u # t /\ task'[u] = task[u]
      OBVIOUS
    <2>2. getter[P(u)] = u /\ getter[P(t)] = t /\ bound[P(u)] = RowKey(task[u].kernel, V(u))
      BY <2>1 DEF IInv, Exclusive, SelectIsBound
    <2>3. P(u) # P(t)
      BY <2>1, <2>2
    <2> QED
      BY <2>1, <2>2, <2>3, ThreadFacts DEF Unbind, IInv, TypeOK
  <1>2. CompiledIsRight' /\ InsertIsBound' /\ CompilerIsLocked'
    <2>1. CompiledIsRight'
      BY DEF IInv, Exclusive, CompiledIsRight, V
    <2>2. InsertIsBound'
      BY DEF IInv, Exclusive, InsertIsBound, P, V
    <2>3. CompilerIsLocked'
      BY DEF IInv, Exclusive, CompilerIsLocked, P
    <2> QED
      BY <2>1, <2>2, <2>3
  <1> QED
    BY <1>1, <1>2 DEF Exclusive

\* The row that the step finds is the one of the task's kernel.
LEMMA GetHitIInv ==
  ASSUME IInv, NEW t \in Threads, GetHit(t)
  PROVE  IInv'
  <1> DEFINE key == RowKey(task[t].kernel, V(t))
  <1>1. bound[P(t)] = key /\ key \in RowKeys /\ P(t) \in Procs
    BY ThreadFacts, TaskFacts DEF GetHit, IInv, Exclusive, SelectIsBound
  <1>2. rows[key] \in Codes /\ rows[key] = CodeFor(task[t].kernel, V(t))
    <2>1. key[1] = task[t].kernel /\ key[2] = V(t)
      BY DEF RowKey
    <2>2. rows[key] # None
      BY <1>1 DEF GetHit
    <2> QED
      BY <1>1, <2>1, <2>2 DEF IInv, TypeOK, RightCode
  <1>3. task[t].at # "none" /\ End(t, rows[key]) /\ UNCHANGED <<single, pending, want, future>>
    BY <1>1 DEF GetHit
  <1>4. /\ task' \in [Threads -> TaskRecords] /\ result' \in [Threads -> Codes \cup {None, Failed}]
        /\ Waiting'
        /\ \A u \in Threads : result'[u] \notin {None, Failed} => result'[u] = CodeFor(want'[u], V(u))
    BY <1>2, <1>3, EndAnswers
  <1>5. TypeOK'
    BY <1>1, <1>4 DEF GetHit, Unbind, TaskRecords, IInv, TypeOK
  <1>6. Exclusive'
    <2>1. task'[t].at = "none" /\ \A u \in Threads : u # t => task'[u] = task[u]
      BY <1>3 DEF End, NoTask, IInv, TypeOK
    <2> QED
      BY <2>1, UnbindKeeps DEF GetHit
  <1>7. RightCode'
    BY <1>4 DEF GetHit, IInv, RightCode, V
  <1> QED
    BY <1>4, <1>5, <1>6, <1>7 DEF IInv

LEMMA GetMissIInv ==
  ASSUME IInv, NEW t \in Threads, GetMiss(t)
  PROVE  IInv'
  <1>1. Moves(t, "sys", task[t].code)
    BY GotoMoves DEF GetMiss, IInv, TaskSites
  <1>2. TypeOK'
    BY <1>1, ThreadFacts DEF GetMiss, Unbind, Moves, TaskRecords, IInv, TypeOK
  <1>3. Waiting'
    BY <1>1, MovesKeeps DEF GetMiss
  <1>4. Exclusive'
    BY <1>1, UnbindKeeps DEF GetMiss, Moves
  <1>5. RightCode'
    BY DEF GetMiss, IInv, RightCode, V
  <1> QED
    BY <1>2, <1>3, <1>4, <1>5 DEF IInv

\* A task ends with code or an exception and has no statement to give back.
LEMMA EndIInv ==
  ASSUME IInv, NEW t \in Threads, task[t].at # "none",
         NEW value \in Codes \cup {Failed},
         value # Failed => value = CodeFor(task[t].kernel, V(t)),
         End(t, value),
         UNCHANGED <<single, rows, pending, statements, compiler, want, future, asked, events>>
  PROVE  IInv'
  <1>1. /\ task' \in [Threads -> TaskRecords] /\ result' \in [Threads -> Codes \cup {None, Failed}]
        /\ Waiting'
        /\ \A u \in Threads : result'[u] \notin {None, Failed} => result'[u] = CodeFor(want'[u], V(u))
    BY EndAnswers
  <1>2. TypeOK'
    BY <1>1 DEF TaskRecords, IInv, TypeOK, statements
  <1>3. Exclusive'
    <2>1. task'[t].at = "none" /\ \A u \in Threads : u # t => task'[u] = task[u]
      BY DEF End, NoTask, IInv, TypeOK
    <2> QED
      BY <2>1, ExclusiveKept DEF IInv, statements
  <1>4. RightCode'
    BY <1>1 DEF IInv, RightCode, V
  <1> QED
    BY <1>1, <1>2, <1>3, <1>4 DEF IInv

LEMMA GetSysIInv ==
  ASSUME IInv, NEW t \in Threads, GetSys(t)
  PROVE  IInv'
  <1>1. task[t].at = "sys" /\ CodeFor(task[t].kernel, V(t)) \in Codes
    BY TaskFacts DEF GetSys
  <1>2. CASE End(t, CodeFor(task[t].kernel, V(t)))
    BY <1>1, <1>2, EndIInv DEF GetSys
  <1>3. CASE Goto(t, "compile") /\ UNCHANGED result
    BY <1>1, <1>3, GoOnIInv DEF GetSys
  <1> QED
    BY <1>2, <1>3 DEF GetSys

\* The lock is free, so no other task of the process compiles in it.
LEMMA LockKeeps ==
  ASSUME IInv, NEW t \in Threads, task[t].at # "none", compiler[P(t)] = None,
         compiler' = [compiler EXCEPT ![P(t)] = t], Goto(t, "in process"),
         UNCHANGED <<single, rows, pending, statements, want, future, result, asked, events>>
  PROVE  IInv'
  <1>1. Moves(t, "in process", task[t].code)
    BY GotoMoves DEF IInv, TaskSites
  <1>2. TypeOK'
    BY <1>1, ThreadFacts DEF Moves, TaskRecords, IInv, TypeOK, statements
  <1>3. Waiting'
    BY <1>1, MovesKeeps
  <1>4. CompilerIsLocked'
    <2> SUFFICES ASSUME NEW u \in Threads, task'[u].at = "in process"
                 PROVE  compiler'[P(u)] = u
      BY DEF CompilerIsLocked, P
    <2>1. CASE u = t
      BY <2>1, ThreadFacts DEF IInv, TypeOK
    <2>2. CASE u # t
      <3>1. compiler[P(u)] = u
        BY <1>1, <2>2 DEF Moves, IInv, Exclusive, CompilerIsLocked
      <3>2. P(u) # P(t)
        BY <3>1, ThreadFacts
      <3> QED
        BY <3>1, <3>2, ThreadFacts DEF IInv, TypeOK
    <2> QED
      BY <2>1, <2>2
  <1>5. CompiledIsRight'
    BY <1>1 DEF Moves, IInv, Exclusive, CompiledIsRight, V
  <1>6. SelectIsBound' /\ InsertIsBound'
    BY <1>1 DEF Moves, statements, IInv, Exclusive, SelectIsBound, InsertIsBound, P, V
  <1>7. RightCode'
    BY DEF IInv, RightCode, V
  <1> QED
    BY <1>2, <1>3, <1>4, <1>5, <1>6, <1>7 DEF IInv, Exclusive

LEMMA ChooseCompileIInv ==
  ASSUME IInv, NEW t \in Threads, ChooseCompile(t) \/ Lock(t) \/ SkipGet(t)
  PROVE  IInv'
  <1>1. CASE ChooseCompile(t)
    BY <1>1, LockKeeps, GoOnIInv DEF ChooseCompile
  <1>2. CASE Lock(t)
    BY <1>2, LockKeeps DEF Lock
  <1>3. CASE SkipGet(t)
    BY <1>3, GoOnIInv DEF SkipGet
  <1> QED
    BY <1>1, <1>2, <1>3

\* The code that a compiler returned is the code of the task's kernel.
LEMMA CompiledKeeps ==
  ASSUME IInv, NEW t \in Threads, task[t].at # "none",
         Moves(t, "store", CodeFor(task[t].kernel, V(t)))
  PROVE  CompiledIsRight'
  BY DEF Moves, IInv, Exclusive, CompiledIsRight, V

LEMMA SubprocessIInv ==
  ASSUME IInv, NEW t \in Threads, Subprocess(t)
  PROVE  IInv'
  <1> DEFINE code == CodeFor(task[t].kernel, V(t))
  <1>1. task[t].at = "subprocess" /\ code \in Codes
    BY TaskFacts DEF Subprocess
  <1>2. CASE Goto(t, "lock")
    BY <1>1, <1>2, GoOnIInv DEF Subprocess
  <1>3. CASE task' = [task EXCEPT ![t].at = "store", ![t].code = code]
    <2>1. Moves(t, "store", code)
      BY <1>1, <1>3, StoreMoves DEF IInv
    <2>2. TypeOK'
      BY <2>1 DEF Subprocess, statements, Moves, TaskRecords, IInv, TypeOK
    <2>3. Waiting'
      BY <1>1, <2>1, MovesKeeps DEF Subprocess
    <2>4. CompiledIsRight'
      BY <1>1, <2>1, CompiledKeeps
    <2>5. SelectIsBound' /\ InsertIsBound'
      BY <2>1 DEF Subprocess, statements, Moves, IInv, Exclusive, SelectIsBound, InsertIsBound, P, V
    <2>6. CompilerIsLocked'
      BY <2>1 DEF Subprocess, Moves, IInv, Exclusive, CompilerIsLocked, P
    <2>7. RightCode'
      BY DEF Subprocess, IInv, RightCode, V
    <2> QED
      BY <2>2, <2>3, <2>4, <2>5, <2>6, <2>7 DEF IInv, Exclusive
  <1> QED
    BY <1>2, <1>3 DEF Subprocess

\* The lock is released when the compiler returns and when it throws.
LEMMA InProcessIInv ==
  ASSUME IInv, NEW t \in Threads, InProcess(t)
  PROVE  IInv'
  <1> DEFINE code == CodeFor(task[t].kernel, V(t))
  <1>1. task[t].at = "in process" /\ code \in Codes /\ compiler[P(t)] = t /\ P(t) \in Procs
    BY TaskFacts, ThreadFacts DEF InProcess, IInv, Exclusive, CompilerIsLocked
  <1>2. ASSUME task'[t].at # "in process", \A u \in Threads : u # t => task'[u] = task[u]
        PROVE  CompilerIsLocked'
    <2> SUFFICES ASSUME NEW u \in Threads, task'[u].at = "in process"
                 PROVE  compiler'[P(u)] = u
      BY DEF CompilerIsLocked, P
    <2>1. u # t /\ compiler[P(u)] = u
      BY <1>2 DEF IInv, Exclusive, CompilerIsLocked
    <2>2. P(u) # P(t)
      BY <1>1, <2>1
    <2> QED
      BY <2>1, <2>2, ThreadFacts DEF InProcess, IInv, TypeOK
  <1>3. CASE task' = [task EXCEPT ![t].at = "store", ![t].code = code] /\ UNCHANGED result
    <2>1. Moves(t, "store", code)
      BY <1>1, <1>3, StoreMoves DEF IInv
    <2>2. TypeOK'
      BY <1>1, <1>3, <2>1 DEF InProcess, statements, Moves, TaskRecords, IInv, TypeOK
    <2>3. Waiting'
      BY <1>1, <1>3, <2>1, MovesKeeps DEF InProcess
    <2>4. CompiledIsRight' /\ CompilerIsLocked'
      BY <1>1, <1>2, <2>1, CompiledKeeps DEF Moves
    <2>5. SelectIsBound' /\ InsertIsBound'
      BY <2>1 DEF InProcess, statements, Moves, IInv, Exclusive, SelectIsBound, InsertIsBound, P, V
    <2>6. RightCode'
      BY <1>3 DEF InProcess, IInv, RightCode, V
    <2> QED
      BY <2>2, <2>3, <2>4, <2>5, <2>6 DEF IInv, Exclusive
  <1>4. CASE End(t, Failed)
    <2>1. /\ task' \in [Threads -> TaskRecords] /\ result' \in [Threads -> Codes \cup {None, Failed}]
          /\ Waiting'
          /\ \A u \in Threads : result'[u] \notin {None, Failed} => result'[u] = CodeFor(want'[u], V(u))
      BY <1>1, <1>4, EndAnswers DEF InProcess
    <2>2. task'[t].at = "none" /\ \A u \in Threads : u # t => task'[u] = task[u]
      BY <1>4 DEF End, NoTask, IInv, TypeOK
    <2>3. TypeOK'
      BY <1>1, <2>1 DEF InProcess, statements, TaskRecords, IInv, TypeOK
    <2>4. CompiledIsRight' /\ CompilerIsLocked'
      BY <1>2, <2>2 DEF IInv, Exclusive, CompiledIsRight, V
    <2>5. SelectIsBound' /\ InsertIsBound'
      <3>1. SelectIsBound'
        BY <2>2 DEF InProcess, statements, IInv, Exclusive, SelectIsBound, P, V
      <3>2. InsertIsBound'
        BY <2>2 DEF InProcess, statements, IInv, Exclusive, InsertIsBound, P, V
      <3> QED
        BY <3>1, <3>2
    <2>6. RightCode'
      BY <2>1 DEF InProcess, IInv, RightCode, V
    <2> QED
      BY <2>1, <2>3, <2>4, <2>5, <2>6 DEF IInv, Exclusive
  <1> QED
    BY <1>3, <1>4 DEF InProcess
\* The row that is bound is the task's, and no other task of the process is
\* between bind and step.
LEMMA BindStoreIInv ==
  ASSUME IInv, NEW t \in Threads, BindStore(t)
  PROVE  IInv'
  <1> DEFINE key == RowKey(task[t].kernel, V(t))
             row == [key |-> key, code |-> task[t].code]
  <1>1. Moves(t, "store step", task[t].code)
    BY GotoMoves DEF BindStore, IInv, TaskSites
  <1>2. /\ P(t) \in Procs /\ task[t].at = "store" /\ key \in RowKeys
        /\ task[t].code \in Codes /\ task[t].code = CodeFor(task[t].kernel, V(t))
    BY ThreadFacts, TaskFacts DEF BindStore, IInv, Exclusive, CompiledIsRight
  <1>3. row \in [key : RowKeys, code : Codes]
    BY <1>2
  <1>4. TypeOK'
    <2>1. storing' \in [Procs -> [key : RowKeys, code : Codes] \cup {None}]
      BY <1>2, <1>3 DEF BindStore, IInv, TypeOK
    <2> QED
      BY <1>1, <1>2, <2>1 DEF BindStore, Moves, TaskRecords, IInv, TypeOK
  <1>5. Waiting'
    BY <1>1, <1>2, MovesKeeps DEF BindStore
  <1>6. CompiledIsRight'
    BY <1>1, <1>2 DEF Moves, IInv, Exclusive, CompiledIsRight, V
  <1>7. SelectIsBound'
    BY <1>1 DEF BindStore, Moves, IInv, Exclusive, SelectIsBound, P, V
  <1>8. InsertIsBound'
    <2> SUFFICES ASSUME NEW u \in Threads, task'[u].at = "store step"
                 PROVE  /\ storer'[P(u)] = u
                        /\ storing'[P(u)] = [key |-> RowKey(task'[u].kernel, V(u)),
                                             code |-> task'[u].code]
      BY DEF InsertIsBound, P, V
    <2>1. CASE u = t
      BY <1>1, <1>2, <2>1 DEF BindStore, Moves, IInv, TypeOK
    <2>2. CASE u # t
      <3>1. /\ task'[u] = task[u] /\ storer[P(u)] = u
            /\ storing[P(u)] = [key |-> RowKey(task[u].kernel, V(u)), code |-> task[u].code]
        BY <1>1, <2>2 DEF Moves, IInv, Exclusive, InsertIsBound
      <3>2. P(u) # P(t)
        BY <3>1, ThreadFacts DEF BindStore
      <3> QED
        BY <3>1, <3>2, ThreadFacts DEF BindStore, IInv, TypeOK
    <2> QED
      BY <2>1, <2>2
  <1>9. CompilerIsLocked'
    BY <1>1 DEF BindStore, Moves, IInv, Exclusive, CompilerIsLocked, P
  <1>10. RightCode'
    BY DEF BindStore, IInv, RightCode, V
  <1> QED
    BY <1>4, <1>5, <1>6, <1>7, <1>8, <1>9, <1>10 DEF IInv, Exclusive

LEMMA SkipStoreIInv ==
  ASSUME IInv, NEW t \in Threads, SkipStore(t)
  PROVE  IInv'
  <1>1. /\ task[t].at = "store" /\ task[t].code \in Codes
        /\ task[t].code = CodeFor(task[t].kernel, V(t))
    BY TaskFacts DEF SkipStore, IInv, Exclusive, CompiledIsRight
  <1> QED
    BY <1>1, EndIInv DEF SkipStore

\* The row that is inserted is the one that this task has bound.
LEMMA StoreStepIInv ==
  ASSUME IInv, NEW t \in Threads, StoreStep(t)
  PROVE  IInv'
  <1> DEFINE key == RowKey(task[t].kernel, V(t))
             code == CodeFor(task[t].kernel, V(t))
  <1>1. /\ task[t].at = "store step" /\ task[t].code = code /\ code \in Codes
        /\ P(t) \in Procs /\ key \in RowKeys
    BY ThreadFacts, TaskFacts DEF StoreStep, IInv, Exclusive, CompiledIsRight
  <1>2. storer[P(t)] = t /\ storing[P(t)] = [key |-> key, code |-> code]
    BY <1>1 DEF IInv, Exclusive, InsertIsBound
  <1>3. UNCHANGED rows \/ rows' = [rows EXCEPT ![key] = code]
    <2>1. storing[P(t)].key = key /\ storing[P(t)].code = code
      BY <1>2
    <2>2. UNCHANGED rows \/ rows' = [rows EXCEPT ![storing[P(t)].key] = storing[P(t)].code]
      BY DEF StoreStep
    <2> QED
      BY <2>1, <2>2
  <1>4. /\ task' \in [Threads -> TaskRecords] /\ result' \in [Threads -> Codes \cup {None, Failed}]
        /\ Waiting'
        /\ \A u \in Threads : result'[u] \notin {None, Failed} => result'[u] = CodeFor(want'[u], V(u))
    BY <1>1, EndAnswers DEF StoreStep
  <1>5. task'[t].at = "none" /\ \A u \in Threads : u # t => task'[u] = task[u]
    BY DEF StoreStep, End, NoTask, IInv, TypeOK
  <1>6. TypeOK'
    BY <1>1, <1>3, <1>4 DEF StoreStep, TaskRecords, IInv, TypeOK
  <1>7. CompiledIsRight'
    BY <1>5 DEF IInv, Exclusive, CompiledIsRight, V
  <1>8. SelectIsBound'
    BY <1>5 DEF StoreStep, IInv, Exclusive, SelectIsBound, P, V
  <1>9. InsertIsBound'
    <2> SUFFICES ASSUME NEW u \in Threads, task'[u].at = "store step"
                 PROVE  /\ storer'[P(u)] = u
                        /\ storing'[P(u)] = [key |-> RowKey(task'[u].kernel, V(u)),
                                             code |-> task'[u].code]
      BY DEF InsertIsBound, P, V
    <2>1. u # t /\ task'[u] = task[u]
      BY <1>5
    <2>2. /\ storer[P(u)] = u
          /\ storing[P(u)] = [key |-> RowKey(task[u].kernel, V(u)), code |-> task[u].code]
      BY <2>1 DEF IInv, Exclusive, InsertIsBound
    <2>3. P(u) # P(t)
      BY <1>2, <2>1, <2>2
    <2> QED
      BY <2>1, <2>2, <2>3, ThreadFacts DEF StoreStep, IInv, TypeOK
  <1>10. CompilerIsLocked'
    BY <1>5 DEF StoreStep, IInv, Exclusive, CompilerIsLocked, P
  <1>11. RightCode'
    <2>1. \A r \in RowKeys : rows'[r] # None => rows'[r] = CodeFor(r[1], r[2])
      <3>1. key[1] = task[t].kernel /\ key[2] = V(t)
        BY DEF RowKey
      <3> QED
        BY <1>1, <1>3, <3>1 DEF IInv, TypeOK, RightCode
    <2> QED
      BY <1>4, <2>1 DEF StoreStep, RightCode, V
  <1> QED
    BY <1>4, <1>6, <1>7, <1>8, <1>9, <1>10, <1>11 DEF IInv, Exclusive

------------------------------------------------------------------------------
(* The theorems *)

LEMMA StutterIInv ==
  ASSUME IInv, UNCHANGED vars
  PROVE  IInv'
  <1>1. TypeOK'
    BY DEF vars, IInv, TypeOK
  <1>2. Waiting'
    BY DEF vars, IInv, Waiting, TaskIsAwaited, WaitersShare, NothingUnasked, PendingIsWaitedFor,
           PendingInLibrary, P
  <1>3. Exclusive'
    BY ExclusiveKept DEF vars, IInv
  <1>4. RightCode'
    BY DEF vars, IInv, RightCode, V
  <1> QED
    BY <1>1, <1>2, <1>3, <1>4 DEF IInv

LEMMA TaskStepIInv ==
  ASSUME IInv, NEW t \in Threads, TaskStep(t)
  PROVE  IInv'
  BY BindGetIInv, GetHitIInv, GetMissIInv, GetSysIInv, ChooseCompileIInv, SubprocessIInv,
     InProcessIInv, BindStoreIInv, SkipStoreIInv, StoreStepIInv DEF TaskStep

LEMMA StepIInv == IInv /\ [Next]_vars => IInv'
  <1> SUFFICES ASSUME IInv, [Next]_vars PROVE IInv'
    OBVIOUS
  <1>1. ASSUME NEW p \in Procs, Setup(p) \/ Cleanup(p) \/ Crash(p) \/ CleanupCache(p) \/ Deserialize(p)
        PROVE  IInv'
    BY <1>1, LibraryIInv, CrashIInv, FileIInv
  <1>2. ASSUME NEW t \in Threads, NEW k \in Uses[t], Ask(t, k)
        PROVE  IInv'
    <2>1. k \in Kernels
      BY RTCAssumption
    <2> QED
      BY <1>2, <2>1, AskIInv
  <1>3. ASSUME NEW t \in Threads, Answered(t)
        PROVE  IInv'
    BY <1>3, AnsweredIInv
  <1>4. CASE UNCHANGED vars
    BY <1>4, StutterIInv
  <1> QED
    BY <1>1, <1>2, <1>3, <1>4, TaskStepIInv DEF Next

\* The invariant holds whatever the threads of however many processes do: who
\* waits for which task, and who has which statement and lock of a process.
THEOREM Inductive == Spec => []IInv
  BY InitIInv, StepIInv, PTL DEF Spec

\* The tables of a process and of the database hold what they are for, whoever
\* crashes and whoever deletes or adds rows: a code object is never half
\* written.
THEOREM TypeCorrect == Spec => []TypeOK
  <1>1. IInv => TypeOK
    BY DEF IInv
  <1> QED
    BY <1>1, Inductive, PTL

\* What cached_compile returns, to the caller that compiles and to those that
\* share its future, is the code of the kernel asked for, made by the caller's
\* own version; and every row of the database is what its key says.
THEOREM EveryoneGetsRightCode == Spec => []RightCode
  <1>1. IInv => RightCode
    BY DEF IInv
  <1> QED
    BY <1>1, Inductive, PTL

\* An entry of pending_compiles goes away with the caller that added it, after
\* an exception too: no later caller gets an old failure.
THEOREM PendingAlwaysWaitedFor == Spec => []PendingIsWaitedFor
  <1>1. IInv => PendingIsWaitedFor
    BY DEF IInv, Waiting
  <1> QED
    BY <1>1, Inductive, PTL

\* store_code_object and deserialize may write a row again, but never change
\* the code in it: whoever reads the database, in whatever order processes
\* write to it, reads the same code or none.
THEOREM RowsNeverChange ==
  Spec => [][\A r \in RowKeys : rows[r] # None => rows'[r] \in {None, rows[r]}]_vars
  <1>1. RightCode /\ RightCode' => \A r \in RowKeys : rows[r] # None => rows'[r] \in {None, rows[r]}
    BY DEF RightCode
  <1> QED
    BY <1>1, EveryoneGetsRightCode, PTL

\* The tasks of one process that are at this place are one task.
Alone(at) ==
  \A t, u \in Threads : P(t) = P(u) /\ task[t].at = at /\ task[u].at = at => t = u

\* compile_lock, get_mutex_user and store_mutex_user: at any time at most one
\* task of a process compiles in it, one is between the bind and the step of
\* the SELECT statement, and one between those of the INSERT statement.
THEOREM MutualExclusion ==
  Spec => [](Alone("in process") /\ Alone("user step") /\ Alone("store step"))
  <1>1. IInv => Alone("in process") /\ Alone("user step") /\ Alone("store step")
    <2> SUFFICES ASSUME IInv
                 PROVE  Alone("in process") /\ Alone("user step") /\ Alone("store step")
      OBVIOUS
    <2>1. Alone("in process")
      BY DEF IInv, Exclusive, CompilerIsLocked, Alone
    <2>2. Alone("user step")
      BY DEF IInv, Exclusive, SelectIsBound, Alone
    <2>3. Alone("store step")
      BY DEF IInv, Exclusive, InsertIsBound, Alone
    <2> QED
      BY <2>1, <2>2, <2>3
  <1> QED
    BY <1>1, Inductive, PTL
==============================================================================
