------------------------------- MODULE RTCCache -------------------------------
(***************************************************************************)
(* Kernels are compiled at run time and kept in a cache (struct RTCCache): *)
(* a database file that the processes of a user share, whatever version of *)
(* the library they run, and a read-only one beside the library.           *)
(*                                                                         *)
(* A thread that asks for a kernel looks in its process's map of pending   *)
(* compiles, and adds an asynchronous task if the kernel is not there.     *)
(* The task looks in the caches, compiles what it does not find, in this   *)
(* process or in a helper process, and stores the code.  All threads that  *)
(* share the task get its result, or its exception.                        *)
(*                                                                         *)
(* A prepared statement belongs to a process: the values bound to it stay  *)
(* in it between the bind and the step.  (They stay there afterwards too,  *)
(* but the next user binds all of them again: the model forgets them.)  A  *)
(* task is named after the thread that made it, which waits for it.        *)
(***************************************************************************)
EXTENDS Naturals, FiniteSets

CONSTANTS
  Procs,       \* processes
  Threads,     \* threads of all processes
  ProcOf,      \* the process of a thread
  VersionOf,   \* a process's hip_version and generator_sum
  Kernels,     \* kernel_name and gpu_arch
  Uses,        \* the kernels a thread may ask for
  Buffers,     \* the sets of rows of serialized caches
  SysRows,     \* the rows of the system cache
  None,        \* nobody, nothing
  Failed,      \* an exception
  MaxRequests, \* bound: kernels each thread asks for
  MaxEvents    \* bound: crashes, and calls of cleanup_cache and deserialize

Versions == {VersionOf[p] : p \in Procs}

\* Mutation: the key does not have the generator_sum.
RowKeyNoSum(k, v) == <<k, CHOOSE u \in Versions : TRUE>>

\* The primary key of the table.
RowKey(k, v) == <<k, v>>

RowKeys == Kernels \X Versions

\* What a compiler makes of kernel k in version v of the library.
CodeFor(k, v) == [kernel |-> k, version |-> v]

ASSUME RTCAssumption ==
  /\ IsFiniteSet(Threads) /\ IsFiniteSet(Procs) /\ IsFiniteSet(Kernels)
  /\ ProcOf \in [Threads -> Procs] /\ DOMAIN VersionOf = Procs
  /\ SysRows \subseteq RowKeys /\ Buffers \subseteq SUBSET RowKeys
  /\ Uses \in [Threads -> SUBSET Kernels]
  /\ None \notin Threads \cup Kernels \cup RowKeys \cup [kernel : Kernels, version : Versions]
  /\ Failed # None /\ Failed \notin [kernel : Kernels, version : Versions]
  /\ MaxRequests \in [Threads -> Nat] /\ MaxEvents \in Nat

VARIABLES
  single,   \* the processes that have set the library up
  rows,     \* rows[key]: the code in the database file, or None
  pending,  \* pending[<<p, k>>]: pending_compiles, the task of kernel k
  getter,   \* getter[p]: the task that holds get_mutex_user
  bound,    \* bound[p]: the values bound to the SELECT statement
  storer,   \* storer[p]: the task that holds store_mutex_user
  storing,  \* storing[p]: the values bound to the INSERT statement
  compiler, \* compiler[p]: the task that holds compile_lock
  task,     \* task[t]: [at, kernel, code]
  want,     \* want[t]: the kernel thread t is asking for
  future,   \* future[t]: the task whose result thread t waits for
  result,   \* result[t]: what the shared state of that future holds
  asked,    \* asked[t]: kernels thread t has asked for
  events    \* crashes and calls of cleanup_cache and deserialize so far

statements == <<getter, bound, storer, storing>>
vars == <<single, rows, pending, getter, bound, storer, storing, compiler, task, want, future,
          result, asked, events>>

NoTask == [at |-> "none", kernel |-> None, code |-> None]

V(t) == VersionOf[ProcOf[t]]
P(t) == ProcOf[t]

Init ==
  /\ single = {}
  /\ rows = [r \in RowKeys |-> None]
  /\ pending = [x \in Procs \X Kernels |-> None]
  /\ getter = [p \in Procs |-> None]
  /\ bound = [p \in Procs |-> None]
  /\ storer = [p \in Procs |-> None]
  /\ storing = [p \in Procs |-> None]
  /\ compiler = [p \in Procs |-> None]
  /\ task = [t \in Threads |-> NoTask]
  /\ want = [t \in Threads |-> None]
  /\ future = [t \in Threads |-> None]
  /\ result = [t \in Threads |-> None]
  /\ asked = [t \in Threads |-> 0]
  /\ events = 0

------------------------------------------------------------------------------
(* The library in a process. *)

\* rocfft_setup makes a new RTCCache.
Setup(p) ==
  /\ p \notin single /\ \A t \in Threads : P(t) = p => want[t] = None
  /\ single' = single \cup {p}
  /\ UNCHANGED <<rows, pending, statements, compiler, task, want, future, result, asked, events>>

\* rocfft_cleanup resets it, when no thread is in the library.
Cleanup(p) ==
  /\ p \in single /\ \A t \in Threads : P(t) = p => want[t] = None
  /\ single' = single \ {p}
  /\ UNCHANGED <<rows, pending, statements, compiler, task, want, future, result, asked, events>>

\* The process ends at any point.  Only the database file is left; the step
\* of a statement changes it as a whole.
Crash(p) ==
  /\ events < MaxEvents
  /\ events' = events + 1
  /\ single' = single \ {p}
  /\ pending' = [x \in Procs \X Kernels |-> IF x[1] = p THEN None ELSE pending[x]]
  /\ getter' = [getter EXCEPT ![p] = None]
  /\ bound' = [bound EXCEPT ![p] = None]
  /\ storer' = [storer EXCEPT ![p] = None]
  /\ storing' = [storing EXCEPT ![p] = None]
  /\ compiler' = [compiler EXCEPT ![p] = None]
  /\ task' = [t \in Threads |-> IF P(t) = p THEN NoTask ELSE task[t]]
  /\ want' = [t \in Threads |-> IF P(t) = p THEN None ELSE want[t]]
  /\ future' = [t \in Threads |-> IF P(t) = p THEN None ELSE future[t]]
  /\ result' = [t \in Threads |-> IF P(t) = p THEN None ELSE result[t]]
  /\ UNCHANGED <<rows, asked>>

\* cleanup_cache deletes all rows but the newest ones.
CleanupCache(p) ==
  /\ p \in single /\ events < MaxEvents
  /\ events' = events + 1
  /\ \E gone \in SUBSET {r \in RowKeys : rows[r] # None} :
       rows' = [r \in RowKeys |-> IF r \in gone THEN None ELSE rows[r]]
  /\ UNCHANGED <<single, pending, statements, compiler, task, want, future, result, asked>>

\* deserialize adds the rows of a database that some process has serialized.
Deserialize(p) ==
  /\ p \in single /\ events < MaxEvents
  /\ events' = events + 1
  /\ \E from \in Buffers :
       rows' = [r \in RowKeys |-> IF r \in from THEN CodeFor(r[1], r[2]) ELSE rows[r]]
  /\ UNCHANGED <<single, pending, statements, compiler, task, want, future, result, asked>>

------------------------------------------------------------------------------
(* cached_compile. *)

\* Without a cache, cached_compile_impl is called directly; it finds no cache
\* either.
Ask(t, k) ==
  /\ want[t] = None /\ asked[t] < MaxRequests[t]
  /\ want' = [want EXCEPT ![t] = k]
  /\ asked' = [asked EXCEPT ![t] = @ + 1]
  /\ \/ /\ P(t) \notin single
        /\ task' = [task EXCEPT ![t] = [at |-> "compile", kernel |-> k, code |-> None]]
        /\ future' = [future EXCEPT ![t] = t]
        /\ result' = [result EXCEPT ![t] = None]
        /\ UNCHANGED pending
     \/ /\ P(t) \in single /\ pending[<<P(t), k>>] = None
        /\ task' = [task EXCEPT ![t] = [at |-> "user", kernel |-> k, code |-> None]]
        /\ pending' = [pending EXCEPT ![<<P(t), k>>] = t]
        /\ future' = [future EXCEPT ![t] = t]
        /\ result' = [result EXCEPT ![t] = None]
     \/ /\ P(t) \in single /\ pending[<<P(t), k>>] # None
        /\ future' = [future EXCEPT ![t] = pending[<<P(t), k>>]]
        /\ result' = [result EXCEPT ![t] = result[pending[<<P(t), k>>]]]
        /\ UNCHANGED <<task, pending>>
  /\ UNCHANGED <<single, rows, statements, compiler, events>>

\* Mutation: it is left there when the compile failed.
ForgetSuccess(t) ==
  IF future[t] = t /\ P(t) \in single /\ result[t] # Failed
  THEN [pending EXCEPT ![<<P(t), want[t]>>] = None] ELSE pending

\* The destructor of PendingCompileCleanup, in the caller that added the
\* pending compile.
Forget(t) ==
  IF future[t] = t /\ P(t) \in single
  THEN [pending EXCEPT ![<<P(t), want[t]>>] = None] ELSE pending

\* get() returns the code or throws the exception.
Answered(t) ==
  /\ want[t] # None /\ result[t] # None
  /\ pending' = Forget(t)
  /\ want' = [want EXCEPT ![t] = None]
  /\ future' = [future EXCEPT ![t] = None]
  /\ result' = [result EXCEPT ![t] = None]
  /\ UNCHANGED <<single, rows, statements, compiler, task, asked, events>>

------------------------------------------------------------------------------
(* cached_compile_impl, in the task of thread t. *)

Goto(t, at) == task' = [task EXCEPT ![t].at = at]

\* The task ends: the shared state of its future is set, for everyone who
\* waits for it.
End(t, value) ==
  /\ task' = [task EXCEPT ![t] = NoTask]
  /\ result' = [u \in Threads |-> IF future[u] = t /\ want[u] # None /\ result[u] = None
                                  THEN value ELSE result[u]]

\* get_code_object_impl, for the user's cache: the mutex is taken and the
\* arguments are bound.
BindGet(t) ==
  /\ task[t].at = "user" /\ getter[P(t)] = None
  /\ getter' = [getter EXCEPT ![P(t)] = t]
  /\ bound' = [bound EXCEPT ![P(t)] = RowKey(task[t].kernel, V(t))]
  /\ Goto(t, "user step")
  /\ UNCHANGED <<single, rows, pending, storer, storing, compiler, want, future, result, asked,
                 events>>

\* Reading is disabled by the environment.
SkipGet(t) ==
  /\ task[t].at = "user"
  /\ Goto(t, "compile")
  /\ UNCHANGED <<single, rows, pending, statements, compiler, want, future, result, asked, events>>

Unbind(t) ==
  /\ getter' = [getter EXCEPT ![P(t)] = None]
  /\ bound' = [bound EXCEPT ![P(t)] = None]

\* The step finds a row: it is the result.
GetHit(t) ==
  /\ task[t].at = "user step" /\ bound[P(t)] # None
  /\ rows[bound[P(t)]] # None
  /\ Unbind(t)
  /\ End(t, rows[bound[P(t)]])
  /\ UNCHANGED <<single, rows, pending, storer, storing, compiler, want, future, asked, events>>

\* The step finds none, or the database is busy for too long.
GetMiss(t) ==
  /\ task[t].at = "user step"
  /\ Unbind(t)
  /\ Goto(t, "sys")
  /\ UNCHANGED <<single, rows, pending, storer, storing, compiler, want, future, result, asked,
                 events>>

\* The same for the system cache, which has a statement and a mutex of its
\* own, in one step.
GetSys(t) ==
  /\ task[t].at = "sys"
  /\ \/ /\ RowKey(task[t].kernel, V(t)) \in SysRows
        /\ End(t, CodeFor(task[t].kernel, V(t)))
     \/ /\ Goto(t, "compile")
        /\ UNCHANGED result
  /\ UNCHANGED <<single, rows, pending, statements, compiler, want, future, asked, events>>

\* The default: in this process if nobody else compiles here, or else in a
\* subprocess.  The environment can force either; it is read every time.
ChooseCompile(t) ==
  /\ task[t].at = "compile"
  /\ \/ /\ compiler[P(t)] = None
        /\ compiler' = [compiler EXCEPT ![P(t)] = t]
        /\ Goto(t, "in process")
     \/ /\ compiler[P(t)] # None
        /\ Goto(t, "subprocess")
        /\ UNCHANGED compiler
     \/ /\ \E at \in {"subprocess", "lock"} : Goto(t, at)
        /\ UNCHANGED compiler
  /\ UNCHANGED <<single, rows, pending, statements, want, future, result, asked, events>>

\* compile_subprocess returns the code, or throws and the task goes on to
\* compile in this process.
Subprocess(t) ==
  /\ task[t].at = "subprocess"
  /\ \/ task' = [task EXCEPT ![t].at = "store", ![t].code = CodeFor(task[t].kernel, V(t))]
     \/ Goto(t, "lock")
  /\ UNCHANGED <<single, rows, pending, statements, compiler, want, future, result, asked, events>>

Lock(t) ==
  /\ task[t].at = "lock" /\ compiler[P(t)] = None
  /\ compiler' = [compiler EXCEPT ![P(t)] = t]
  /\ Goto(t, "in process")
  /\ UNCHANGED <<single, rows, pending, statements, want, future, result, asked, events>>

\* Mutation: the lock is kept when the compiler throws.
InProcessKeepsLock(t) ==
  /\ task[t].at = "in process"
  /\ \/ /\ task' = [task EXCEPT ![t].at = "store", ![t].code = CodeFor(task[t].kernel, V(t))]
        /\ compiler' = [compiler EXCEPT ![P(t)] = None]
        /\ UNCHANGED result
     \/ End(t, Failed) /\ UNCHANGED compiler
  /\ UNCHANGED <<single, rows, pending, statements, want, future, asked, events>>

\* compile_inprocess returns the code or throws.
InProcess(t) ==
  /\ task[t].at = "in process"
  /\ compiler' = [compiler EXCEPT ![P(t)] = None]
  /\ \/ /\ task' = [task EXCEPT ![t].at = "store", ![t].code = CodeFor(task[t].kernel, V(t))]
        /\ UNCHANGED result
     \/ End(t, Failed)
  /\ UNCHANGED <<single, rows, pending, statements, want, future, asked, events>>

\* store_code_object binds the row, under the mutex.
BindStore(t) ==
  /\ task[t].at = "store" /\ P(t) \in single
  /\ storer[P(t)] = None
  /\ storer' = [storer EXCEPT ![P(t)] = t]
  /\ storing' = [storing EXCEPT ![P(t)] =
                   [key |-> RowKey(task[t].kernel, V(t)), code |-> task[t].code]]
  /\ Goto(t, "store step")
  /\ UNCHANGED <<single, rows, pending, getter, bound, compiler, want, future, result, asked,
                 events>>

\* There is no cache, or writing to it is disabled.
SkipStore(t) ==
  /\ task[t].at = "store"
  /\ End(t, task[t].code)
  /\ UNCHANGED <<single, rows, pending, statements, compiler, want, future, asked, events>>

\* The row is inserted or replaced.  A failure, such as a database that is
\* busy for too long, is only logged.
StoreStep(t) ==
  /\ task[t].at = "store step"
  /\ \/ rows' = [rows EXCEPT ![storing[P(t)].key] = storing[P(t)].code]
     \/ UNCHANGED rows
  /\ storer' = [storer EXCEPT ![P(t)] = None]
  /\ storing' = [storing EXCEPT ![P(t)] = None]
  /\ End(t, task[t].code)
  /\ UNCHANGED <<single, pending, getter, bound, compiler, want, future, asked, events>>

------------------------------------------------------------------------------
TaskStep(t) ==
  \/ BindGet(t) \/ SkipGet(t) \/ GetHit(t) \/ GetMiss(t) \/ GetSys(t)
  \/ ChooseCompile(t) \/ Subprocess(t) \/ Lock(t) \/ InProcess(t)
  \/ BindStore(t) \/ SkipStore(t) \/ StoreStep(t)

Next ==
  \/ \E p \in Procs : Setup(p) \/ Cleanup(p) \/ Crash(p) \/ CleanupCache(p) \/ Deserialize(p)
  \/ \E t \in Threads : (\E k \in Uses[t] : Ask(t, k)) \/ Answered(t) \/ TaskStep(t)

\* Threads that can go on do, and compilers and subprocesses end.  A task takes
\* each mutex once, so with finitely many requests a free mutex is obtained.
Fairness == \A t \in Threads : WF_vars(TaskStep(t)) /\ WF_vars(Answered(t))

Spec == Init /\ [][Next]_vars /\ Fairness

------------------------------------------------------------------------------
TaskSites == {"none", "user", "user step", "sys", "compile", "subprocess", "lock",
              "in process", "store", "store step"}

Codes == [kernel : Kernels, version : Versions]

\* The type invariant: what the tables hold are whole code objects, never an empty one.
TypeOK ==
  /\ single \subseteq Procs
  /\ rows \in [RowKeys -> Codes \cup {None}]
  /\ pending \in [Procs \X Kernels -> Threads \cup {None}]
  /\ getter \in [Procs -> Threads \cup {None}]
  /\ bound \in [Procs -> RowKeys \cup {None}]
  /\ storer \in [Procs -> Threads \cup {None}]
  /\ storing \in [Procs -> [key : RowKeys, code : Codes] \cup {None}]
  /\ compiler \in [Procs -> Threads \cup {None}]
  /\ task \in [Threads -> [at : TaskSites, kernel : Kernels \cup {None}, code : Codes \cup {None}]]
  /\ want \in [Threads -> Kernels \cup {None}]
  /\ future \in [Threads -> Threads \cup {None}]
  /\ result \in [Threads -> Codes \cup {None, Failed}]
  /\ asked \in [Threads -> Nat] /\ events \in Nat

\* A thread gets the code of the kernel it asked for, compiled by its own
\* version of the library, and so does everyone who finds a row: whatever
\* tasks share the statements, whatever processes share the file, whoever
\* crashes.
RightCode ==
  /\ \A t \in Threads :
       result[t] \notin {None, Failed} => result[t] = CodeFor(want[t], V(t))
  /\ \A r \in RowKeys : rows[r] # None => rows[r] = CodeFor(r[1], r[2])

\* A pending compile is somebody's: the caller that added it is still waiting.
\* So a failure is forgotten, and the kernel can be asked for again.
PendingIsWaitedFor ==
  \A p \in Procs, k \in Kernels :
    pending[<<p, k>>] # None =>
      LET t == pending[<<p, k>>] IN P(t) = p /\ want[t] = k /\ future[t] = t

\* Whoever asks for a kernel gets an answer, code or exception, unless the
\* process crashes.
EveryoneAnswered == \A t \in Threads : want[t] # None ~> want[t] = None
==============================================================================
