---------------------------- MODULE LogStream_proofs ----------------------------
(***************************************************************************)
(* Proofs about LogStream, for any number of threads, files, kinds of log, *)
(* sessions and errors: a worker is not used after it is freed, and the    *)
(* streams implement the abstract log.                                     *)
(***************************************************************************)
EXTENDS LogStream, TLAPS

------------------------------------------------------------------------------
(* The inductive invariant *)

\* A worker that a map entry or a stream points to is not being destroyed.
OwnedIsAlive ==
  /\ \A f \in Files : entry[f] # None => worker[entry[f]].obj = "alive"
  /\ \A s \in Slots : stream[s] \notin {None, Unborn} => worker[stream[s]].obj = "alive"

\* A thread that logs has a stream of its own to the worker.
LoggerOwns ==
  \A t \in Threads : pc[t] \in {"flush", "wait", "woken"} =>
    \E s \in Streams : stream[<<t, s>>] = on[t]

\* A thread that destroys a worker is the last to use it.
DestroyerIsLast ==
  \A t \in Threads : pc[t] \in {"end", "ended"} =>
    /\ worker[on[t]].obj = "dying"
    /\ \A u \in Threads : on[u] = on[t] => u = t

\* When it goes on, the worker's thread has ended and left no task behind; so
\* it is when the worker is freed.
DestroyedHasEnded ==
  /\ \A t \in Threads : pc[t] = "ended" =>
       worker[on[t]].thread = "ended" /\ worker[on[t]].queue = << >>
  /\ \A w \in Workers : worker[w].obj = "freed" =>
       worker[w].thread = "ended" /\ worker[w].queue = << >>

\* A worker has a file and a thread, whose task is there while it works on it.
WorkerShape ==
  \A w \in Workers :
    /\ worker[w].obj = "none" <=> worker[w].thread = "none"
    /\ worker[w].obj # "none" => worker[w].file \in Files
    /\ worker[w].thread = "written" => worker[w].task.msg # Stop

\* The thread that sent task x to worker w waits for it, and it is the message
\* the thread sent last or the empty task of a destructor.
Awaited(x, w) ==
  /\ x.by \in Threads /\ on[x.by] = w
  /\ \/ pc[x.by] = "wait" /\ x.msg = sent[x.by] /\ x.msg # Stop
     \/ pc[x.by] = "end" /\ x.msg = Stop

Busy(w) == worker[w].thread \in {"has task", "written"}

TaskAwaited ==
  \A w \in Workers : Busy(w) => Awaited(worker[w].task, w)

QueueAwaited ==
  \A w \in Workers : \A i \in 1 .. Len(worker[w].queue) : Awaited(worker[w].queue[i], w)

\* No thread has two tasks in a worker.
QueueDistinct ==
  \A w \in Workers : \A i, j \in 1 .. Len(worker[w].queue) :
    worker[w].queue[i].by = worker[w].queue[j].by => i = j

TaskNotQueued ==
  \A w \in Workers : \A i \in 1 .. Len(worker[w].queue) :
    Busy(w) => worker[w].queue[i].by # worker[w].task.by

\* From the end of its log_trace to the next rocfft_setup, rocfft_cleanup has
\* the library for itself; during the log_trace only Main logs.
CleanupIsQuiet ==
  /\ lib \in {"down", "closing", "clearing"} =>
       \A t \in Threads : pc[t] \notin {"flush", "wait", "woken"}
  /\ lib = "stopping" =>
       \A t \in Threads : pc[t] \in {"flush", "wait", "woken"} => t = Main

\* Main is in rocfft_cleanup then, not ending.
MainCleans ==
  /\ lib = "closing" => pc[Main] = "idle"
  /\ lib = "clearing" => pc[Main] \in {"idle", "end", "ended"}

\* The streams of a thread are destroyed when it ends, not before.
StreamsKept ==
  \A t \in Threads :
    pc[t] \in {"idle", "flush", "wait", "woken"} \/ (t = Main /\ lib \in {"closing", "clearing"}) =>
      \A s \in Streams : stream[<<t, s>>] # None

Ownership == OwnedIsAlive /\ LoggerOwns /\ DestroyerIsLast /\ DestroyedHasEnded

Promises == WorkerShape /\ TaskAwaited /\ QueueAwaited /\ QueueDistinct /\ TaskNotQueued

Lifecycle == CleanupIsQuiet /\ MainCleans /\ StreamsKept

IInv == TypeOK /\ Ownership /\ Promises /\ Lifecycle

------------------------------------------------------------------------------
(* Facts about tasks and queues *)

WorkerRecords ==
  [obj : {"none", "alive", "dying", "freed"}, file : Files \cup {None}, queue : Seq(Tasks),
   task : Tasks, thread : {"none", "runs", "has task", "written", "ended"}]

LEMMA Distinct ==
  /\ None \notin Files /\ None \notin Workers /\ None \notin Threads
  /\ Unborn \notin Workers /\ None # Unborn
  /\ Main \in Threads /\ Stderr \in Files /\ Trace \in Kinds
  /\ Files \cap Slots = {}
  BY LogAssumption DEF Slots, Streams

LEMMA Bounds == MaxSends \in Nat /\ MaxSessions \in Nat /\ MaxErrors \in Nat
  BY LogAssumption

LEMMA EmptyFile == << >> \in Seq(Threads \X Nat)
  OBVIOUS

LEMMA AppendFacts ==
  ASSUME NEW S, NEW q \in Seq(S), NEW x \in S
  PROVE  /\ Append(q, x) \in Seq(S) /\ Len(Append(q, x)) = Len(q) + 1 /\ Len(q) \in Nat
         /\ \A i \in 1 .. Len(q) : Append(q, x)[i] = q[i]
         /\ Append(q, x)[Len(q) + 1] = x
  OBVIOUS

LEMMA TailFacts ==
  ASSUME NEW S, NEW q \in Seq(S), q # << >>
  PROVE  /\ Tail(q) \in Seq(S) /\ Len(Tail(q)) = Len(q) - 1 /\ Len(q) \in Nat /\ Len(q) >= 1
         /\ \A i \in 1 .. Len(Tail(q)) : Tail(q)[i] = q[i + 1] /\ i + 1 \in 1 .. Len(q)
         /\ Head(q) = q[1] /\ Head(q) \in S
  OBVIOUS

LEMMA TaskType ==
  ASSUME NEW t \in Threads, NEW n \in Nat
  PROVE  Task(t, n) \in Tasks /\ Task(t, n).by = t /\ Task(t, n).msg = n
  BY DEF Task, Tasks

\* A thread that uses a worker uses one that is not freed.
LEMMA UserFacts ==
  ASSUME IInv, NEW t \in Threads, on[t] # None \/ pc[t] \notin {"idle", "exit", "gone"}
  PROVE  /\ on[t] \in Workers /\ pc[t] \notin {"idle", "exit", "gone"}
         /\ pc[t] \in {"flush", "wait", "woken"} => worker[on[t]].obj = "alive"
         /\ pc[t] \in {"end", "ended"} => worker[on[t]].obj = "dying"
         /\ worker[on[t]].file \in Files
  <1>1. on[t] \in Workers /\ pc[t] \notin {"idle", "exit", "gone"} /\ pc[t] \in PCs
    BY DEF IInv, TypeOK
  <1>2. pc[t] \in {"flush", "wait", "woken"} => worker[on[t]].obj = "alive"
    <2> SUFFICES ASSUME pc[t] \in {"flush", "wait", "woken"} PROVE worker[on[t]].obj = "alive"
      OBVIOUS
    <2>1. PICK s \in Streams : stream[<<t, s>>] = on[t]
      BY DEF IInv, Ownership, LoggerOwns
    <2> QED
      BY <1>1, <2>1, Distinct DEF IInv, Ownership, OwnedIsAlive, Slots
  <1>3. pc[t] \in {"end", "ended"} => worker[on[t]].obj = "dying"
    BY DEF IInv, Ownership, DestroyerIsLast
  <1>4. pc[t] \in {"flush", "wait", "woken", "end", "ended"}
    BY <1>1 DEF PCs
  <1> QED
    BY <1>1, <1>2, <1>3, <1>4 DEF IInv, Promises, WorkerShape

\* The invariant implies that a freed worker is not used.
LEMMA IInvFreed == IInv => FreedIsUnused
  <1> SUFFICES ASSUME IInv, NEW w \in Workers, worker[w].obj = "freed"
               PROVE  /\ worker[w].thread = "ended" /\ worker[w].queue = << >>
                      /\ Owners(w) = {}
                      /\ \A t \in Threads : on[t] # w
    BY DEF FreedIsUnused
  <1>1. worker[w].thread = "ended" /\ worker[w].queue = << >>
    BY DEF IInv, Ownership, DestroyedHasEnded
  <1>2. Owners(w) = {}
    BY Distinct DEF IInv, Ownership, OwnedIsAlive, Owners
  <1>3. ASSUME NEW t \in Threads, on[t] = w
        PROVE  FALSE
    BY <1>3, UserFacts, Distinct DEF IInv, TypeOK, PCs
  <1> QED
    BY <1>1, <1>2, <1>3

------------------------------------------------------------------------------
(* Every step preserves the invariant: first, the steps of the library *)

LEMMA InitIInv == Init => IInv
  <1> SUFFICES ASSUME Init PROVE IInv
    OBVIOUS
  <1>1. TypeOK
    <2>1. NoWorker \in WorkerRecords
      BY DEF NoWorker, NoTask, Tasks, Stop, WorkerRecords
    <2>2. worker \in [Workers -> WorkerRecords]
      BY <2>1 DEF Init
    <2>3. content \in [Files -> Seq(Threads \X Nat)]
      BY EmptyFile DEF Init
    <2>4. sessions \in 0 .. MaxSessions /\ errors \in 0 .. MaxErrors
      BY Bounds DEF Init
    <2>5. pc \in [Threads -> PCs] /\ \A t \in Threads : pc[t] = "idle" /\ on[t] = None
      BY DEF Init, PCs
    <2> QED
      BY <2>2, <2>3, <2>4, <2>5 DEF Init, TypeOK, WorkerRecords
  <1>2. OwnedIsAlive /\ LoggerOwns
    BY DEF Init, OwnedIsAlive, LoggerOwns
  <1>3. DestroyerIsLast /\ DestroyedHasEnded
    BY DEF Init, NoWorker, DestroyerIsLast, DestroyedHasEnded
  <1>4. Promises
    <2>1. \A w \in Workers : /\ worker[w].obj = "none" /\ worker[w].thread = "none"
                             /\ Len(worker[w].queue) = 0
      BY DEF Init, NoWorker
    <2>2. WorkerShape /\ TaskAwaited
      BY <2>1 DEF WorkerShape, TaskAwaited, Busy
    <2>3. QueueAwaited
      BY <2>1 DEF QueueAwaited
    <2>4. QueueDistinct /\ TaskNotQueued
      BY <2>1 DEF QueueDistinct, TaskNotQueued
    <2> QED
      BY <2>2, <2>3, <2>4 DEF Promises
  <1>5. Lifecycle
    BY Distinct DEF Init, Lifecycle, CleanupIsQuiet, MainCleans, StreamsKept, Slots
  <1> QED
    BY <1>1, <1>2, <1>3, <1>4, <1>5 DEF IInv, Ownership

\* What the invariant says of the workers and of those who use them.
LEMMA WorkersKept ==
  ASSUME Ownership, Promises, UNCHANGED <<entry, stream, worker, pc, on, sent>>
  PROVE  Ownership' /\ Promises'
  <1>1. OwnedIsAlive' /\ LoggerOwns'
    BY DEF Ownership, OwnedIsAlive, LoggerOwns
  <1>2. DestroyerIsLast' /\ DestroyedHasEnded'
    BY DEF Ownership, DestroyerIsLast, DestroyedHasEnded
  <1>3. WorkerShape' /\ TaskAwaited'
    BY DEF Promises, WorkerShape, TaskAwaited, Busy, Awaited
  <1>4. QueueAwaited'
    BY DEF Promises, QueueAwaited, Awaited
  <1>5. QueueDistinct' /\ TaskNotQueued'
    BY DEF Promises, QueueDistinct, TaskNotQueued, Busy
  <1> QED
    BY <1>1, <1>2, <1>3, <1>4, <1>5 DEF Ownership, Promises

LEMMA SetupIInv ==
  ASSUME IInv, Setup
  PROVE  IInv'
  <1>1. PICK L \in SUBSET Kinds : \E o \in [L -> (Files \ {Stderr}) \cup {None}] :
          /\ layers' = L /\ lib' = IF Trace \in L THEN "starting" ELSE "up"
          /\ fd' = [k \in Kinds |-> IF k \in L THEN o[k] ELSE None]
          /\ content' = [f \in Files |-> IF \E k \in L : o[k] = f THEN << >> ELSE content[f]]
    BY DEF Setup
  <1>2. PICK o \in [L -> (Files \ {Stderr}) \cup {None}] :
          /\ fd' = [k \in Kinds |-> IF k \in L THEN o[k] ELSE None]
          /\ content' = [f \in Files |-> IF \E k \in L : o[k] = f THEN << >> ELSE content[f]]
    BY <1>1
  <1>3. TypeOK'
    <2>1. fd' \in [Kinds -> Files \cup {None}]
      BY <1>2
    <2>2. content' \in [Files -> Seq(Threads \X Nat)]
      BY <1>2, EmptyFile DEF IInv, TypeOK
    <2>3. sessions' \in 0 .. MaxSessions
      <3>1. sessions' = sessions + 1 /\ sessions < MaxSessions
        BY DEF Setup
      <3>2. sessions \in 0 .. MaxSessions
        BY DEF IInv, TypeOK
      <3> QED
        BY <3>1, <3>2, Bounds
    <2> QED
      BY <1>1, <2>1, <2>2, <2>3 DEF Setup, IInv, TypeOK
  <1>4. Lifecycle'
    <2>1. lib' \in {"starting", "up"} /\ pc' = pc /\ stream' = stream
      BY <1>1 DEF Setup
    <2> QED
      BY <2>1 DEF IInv, Lifecycle, CleanupIsQuiet, MainCleans, StreamsKept
  <1>5. UNCHANGED <<entry, stream, worker, pc, on, sent>>
    BY DEF Setup
  <1> QED
    BY <1>3, <1>4, <1>5, WorkersKept DEF IInv

LEMMA LibraryIInv ==
  ASSUME IInv, Cleanup \/ CloseLogs \/ CleanupReturn
  PROVE  IInv'
  <1> USE DEF Cleanup, CloseLogs, CleanupReturn
  <1>1. TypeOK'
    BY DEF IInv, TypeOK
  <1>2. Lifecycle'
    <2>1. CleanupIsQuiet' /\ MainCleans'
      BY DEF IInv, Lifecycle, CleanupIsQuiet, MainCleans
    <2>2. StreamsKept'
      BY DEF IInv, Lifecycle, StreamsKept
    <2> QED
      BY <2>1, <2>2 DEF Lifecycle
  <1>3. UNCHANGED <<entry, stream, worker, pc, on, sent>>
    OBVIOUS
  <1> QED
    BY <1>1, <1>2, <1>3, WorkersKept DEF IInv

LEMMA StutterIInv ==
  ASSUME IInv, UNCHANGED vars
  PROVE  IInv'
  <1>1. TypeOK' /\ Lifecycle'
    BY DEF vars, IInv, TypeOK, Lifecycle, CleanupIsQuiet, MainCleans, StreamsKept
  <1>2. UNCHANGED <<entry, stream, worker, pc, on, sent>>
    BY DEF vars
  <1> QED
    BY <1>1, <1>2, WorkersKept DEF IInv
------------------------------------------------------------------------------
(* What steps that change a worker have in common *)

\* Worker w, and no other, changes to this.
Turns(w, obj, queue, task, thread) ==
  /\ worker' \in [Workers -> WorkerRecords]
  /\ worker'[w].obj = obj /\ worker'[w].file = worker[w].file
  /\ worker'[w].queue = queue /\ worker'[w].task = task /\ worker'[w].thread = thread
  /\ \A v \in Workers : v # w => worker'[v] = worker[v]

LEMMA WorkerTyped == TypeOK => worker \in [Workers -> WorkerRecords]
  BY DEF TypeOK, WorkerRecords

LEMMA DropTurns ==
  ASSUME worker \in [Workers -> WorkerRecords], NEW w \in Workers, NEW q \in Seq(Tasks),
         worker' = [worker EXCEPT ![w].obj = "dying", ![w].queue = q]
  PROVE  Turns(w, "dying", q, worker[w].task, worker[w].thread)
  <1>1. worker' \in [Workers -> WorkerRecords]
    BY DEF WorkerRecords
  <1> QED
    BY <1>1 DEF Turns, WorkerRecords

LEMMA FreeTurns ==
  ASSUME worker \in [Workers -> WorkerRecords], NEW w \in Workers, worker' = [worker EXCEPT ![w].obj = "freed"]
  PROVE  Turns(w, "freed", worker[w].queue, worker[w].task, worker[w].thread)
  <1>1. worker' \in [Workers -> WorkerRecords]
    BY DEF WorkerRecords
  <1> QED
    BY <1>1 DEF Turns, WorkerRecords

LEMMA QueueTurns ==
  ASSUME worker \in [Workers -> WorkerRecords], NEW w \in Workers, NEW q \in Seq(Tasks),
         worker' = [worker EXCEPT ![w].queue = q]
  PROVE  Turns(w, worker[w].obj, q, worker[w].task, worker[w].thread)
  <1>1. worker' \in [Workers -> WorkerRecords]
    BY DEF WorkerRecords
  <1> QED
    BY <1>1 DEF Turns, WorkerRecords

LEMMA QueueTyped ==
  ASSUME NEW r \in [Workers -> WorkerRecords], NEW w \in Workers, NEW q \in Seq(Tasks)
  PROVE  [r EXCEPT ![w].queue = q] \in [Workers -> WorkerRecords]
  BY DEF WorkerRecords

LEMMA TakeTurns ==
  ASSUME worker \in [Workers -> WorkerRecords], NEW w \in Workers, NEW q \in Seq(Tasks), NEW x \in Tasks,
         worker' = [worker EXCEPT ![w].thread = "has task", ![w].task = x, ![w].queue = q]
  PROVE  Turns(w, worker[w].obj, q, x, "has task")
  <1>1. worker' \in [Workers -> WorkerRecords]
    <2> DEFINE r == [worker EXCEPT ![w].thread = "has task", ![w].task = x]
    <2>1. r \in [Workers -> WorkerRecords]
      BY DEF WorkerRecords
    <2>2. worker' = [r EXCEPT ![w].queue = q]
      OBVIOUS
    <2> HIDE DEF r
    <2>3. [r EXCEPT ![w].queue = q] \in [Workers -> WorkerRecords]
      BY <2>1, QueueTyped, Zenon
    <2> QED
      BY <2>2, <2>3, Zenon
  <1> QED
    BY <1>1 DEF Turns, WorkerRecords

LEMMA WriteTurns ==
  ASSUME worker \in [Workers -> WorkerRecords], NEW w \in Workers, worker' = [worker EXCEPT ![w].thread = "written"]
  PROVE  Turns(w, worker[w].obj, worker[w].queue, worker[w].task, "written")
  <1>1. worker' \in [Workers -> WorkerRecords]
    BY DEF WorkerRecords
  <1> QED
    BY <1>1 DEF Turns, WorkerRecords

LEMMA DoneTurns ==
  ASSUME worker \in [Workers -> WorkerRecords], NEW w \in Workers, NEW thread \in {"runs", "ended"},
         worker' = [worker EXCEPT ![w].thread = thread, ![w].task = NoTask]
  PROVE  Turns(w, worker[w].obj, worker[w].queue, NoTask, thread)
  <1> NoTask \in Tasks
    BY DEF NoTask, Tasks, Stop
  <1>1. worker' \in [Workers -> WorkerRecords]
    BY DEF WorkerRecords
  <1> QED
    BY <1>1 DEF Turns, WorkerRecords

\* Thread t, and no other, changes its place and its worker.
Goes(t, at, w) ==
  /\ pc' \in [Threads -> PCs] /\ pc'[t] = at /\ \A u \in Threads : u # t => pc'[u] = pc[u]
  /\ on' \in [Threads -> Workers \cup {None}]
  /\ on'[t] = w /\ \A u \in Threads : u # t => on'[u] = on[u]

\* A task of thread t, which has none, is added to the queue of worker w.
LEMMA SendKeeps ==
  ASSUME IInv, NEW t \in Threads, NEW w \in Workers, NEW n \in Nat,
         NEW obj \in {"alive", "dying"}, worker[w].obj # "none",
         Turns(w, obj, Append(worker[w].queue, Task(t, n)), worker[w].task, worker[w].thread),
         NEW at, pc[t] \notin {"wait", "end"}, Goes(t, at, w),
         \A u \in Threads : u # t => sent'[u] = sent[u],
         (at = "wait" /\ n = sent'[t] /\ n # Stop) \/ (at = "end" /\ n = Stop)
  PROVE  Promises'
  <1> DEFINE q == worker[w].queue
             qq == worker'[w].queue
  <1>1. q \in Seq(Tasks) /\ Task(t, n) \in Tasks /\ Task(t, n).by = t /\ Task(t, n).msg = n
    BY TaskType DEF IInv, TypeOK
  <1>2. /\ Len(qq) = Len(q) + 1 /\ Len(q) \in Nat
        /\ \A i \in 1 .. Len(q) : qq[i] = q[i]
        /\ qq[Len(q) + 1] = Task(t, n)
    BY <1>1, AppendFacts DEF Turns
  <1>3. \A i \in 1 .. Len(qq) : \/ i \in 1 .. Len(q) /\ qq[i] = q[i]
                                \/ i = Len(q) + 1 /\ qq[i] = Task(t, n)
    <2> HIDE DEF q, qq
    <2>1. \A i \in 1 .. Len(q) + 1 : i \in 1 .. Len(q) \/ i = Len(q) + 1
      BY <1>2
    <2> QED
      BY <1>2, <2>1
  <1>4. \A v \in Workers : \A i \in 1 .. Len(worker[v].queue) :
          Awaited(worker[v].queue[i], v) /\ worker[v].queue[i].by # t
    BY DEF IInv, Promises, QueueAwaited, Awaited
  <1>5. \A v \in Workers : Busy(v) => Awaited(worker[v].task, v) /\ worker[v].task.by # t
    BY DEF IInv, Promises, TaskAwaited, Awaited
  <1>6. \A v \in Workers : /\ worker'[v].task = worker[v].task /\ worker'[v].thread = worker[v].thread
                           /\ worker'[v].file = worker[v].file
                           /\ worker'[v].obj = "none" <=> worker[v].obj = "none"
    BY DEF Turns
  <1>7. WorkerShape'
    BY <1>6 DEF IInv, Promises, WorkerShape
  <1>8. TaskAwaited'
    <2> SUFFICES ASSUME NEW v \in Workers, Busy(v)'
                 PROVE  Awaited(worker[v].task, v)'
      BY DEF TaskAwaited
    <2>1. Awaited(worker[v].task, v) /\ worker[v].task.by # t /\ worker'[v].task = worker[v].task
      BY <1>5, <1>6 DEF Busy
    <2> QED
      BY <2>1 DEF Awaited, Goes
  <1>9. QueueAwaited'
    <2> SUFFICES ASSUME NEW v \in Workers, NEW i \in 1 .. Len(worker'[v].queue)
                 PROVE  Awaited(worker[v].queue[i], v)'
      BY DEF QueueAwaited
    <2>1. CASE v = w /\ i = Len(q) + 1
      BY <1>1, <1>2, <2>1 DEF Awaited, Goes
    <2>2. CASE v # w \/ i # Len(q) + 1
      <3>1. i \in 1 .. Len(worker[v].queue) /\ worker'[v].queue[i] = worker[v].queue[i]
        BY <1>3, <2>2 DEF Turns
      <3>2. Awaited(worker[v].queue[i], v) /\ worker[v].queue[i].by # t
        BY <1>4, <3>1
      <3> QED
        BY <3>1, <3>2 DEF Awaited, Goes
    <2> QED
      BY <2>1, <2>2
  <1>10. QueueDistinct'
    <2> SUFFICES ASSUME NEW v \in Workers, NEW i \in 1 .. Len(worker'[v].queue),
                        NEW j \in 1 .. Len(worker'[v].queue),
                        worker'[v].queue[i].by = worker'[v].queue[j].by
                 PROVE  i = j
      BY DEF QueueDistinct
    <2>1. CASE v # w
      BY <2>1 DEF Turns, IInv, Promises, QueueDistinct
    <2>2. CASE v = w
      <3>1. \A k \in 1 .. Len(qq) : \/ k \in 1 .. Len(q) /\ qq[k] = q[k] /\ qq[k].by # t
                                    \/ k = Len(q) + 1 /\ qq[k].by = t
        BY <1>1, <1>3, <1>4
      <3>2. \A k, m \in 1 .. Len(q) : q[k].by = q[m].by => k = m
        BY DEF IInv, Promises, QueueDistinct
      <3>3. i \in 1 .. Len(qq) /\ j \in 1 .. Len(qq) /\ qq[i].by = qq[j].by
        BY <2>2
      <3> HIDE DEF q, qq
      <3> QED
        BY <3>1, <3>2, <3>3
    <2> QED
      BY <2>1, <2>2
  <1>11. TaskNotQueued'
    <2> SUFFICES ASSUME NEW v \in Workers, NEW i \in 1 .. Len(worker'[v].queue), Busy(v)'
                 PROVE  worker'[v].queue[i].by # worker'[v].task.by
      BY DEF TaskNotQueued
    <2>1. Busy(v)
      BY <1>6 DEF Busy
    <2>2. CASE v # w
      BY <2>1, <2>2 DEF Turns, IInv, Promises, TaskNotQueued
    <2>3. CASE v = w
      <3>1. \A k \in 1 .. Len(q) : q[k].by # worker[w].task.by
        BY <2>1, <2>3 DEF IInv, Promises, TaskNotQueued
      <3>2. worker'[w].task = worker[w].task /\ worker[w].task.by # t
        BY <1>5, <1>6, <2>1, <2>3
      <3>3. i \in 1 .. Len(qq)
        BY <2>3
      <3>4. qq[i].by # worker[w].task.by
        <4> HIDE DEF q, qq
        <4> QED
          BY <1>1, <1>3, <3>1, <3>2, <3>3
      <3> QED
        BY <2>3, <3>2, <3>4
    <2> QED
      BY <2>2, <2>3
  <1> QED
    BY <1>7, <1>8, <1>9, <1>10, <1>11 DEF Promises

\* A step that leaves the workers' tasks and those who wait for them alone.
LEMMA PromisesKept ==
  ASSUME Promises,
         \A v \in Workers :
           /\ worker'[v].task = worker[v].task /\ worker'[v].thread = worker[v].thread
           /\ worker'[v].file = worker[v].file /\ worker'[v].queue = worker[v].queue
           /\ worker'[v].obj = "none" <=> worker[v].obj = "none",
         \A u \in Threads : pc[u] \in {"wait", "end"} =>
           pc'[u] = pc[u] /\ on'[u] = on[u] /\ sent'[u] = sent[u]
  PROVE  Promises'
  <1>1. WorkerShape'
    BY DEF Promises, WorkerShape
  <1>2. TaskAwaited'
    <2> SUFFICES ASSUME NEW v \in Workers, Busy(v)'
                 PROVE  Awaited(worker[v].task, v)'
      BY DEF TaskAwaited
    <2>1. Awaited(worker[v].task, v) /\ worker'[v].task = worker[v].task
      BY DEF Promises, TaskAwaited, Busy
    <2> QED
      BY <2>1 DEF Awaited
  <1>3. QueueAwaited'
    <2> SUFFICES ASSUME NEW v \in Workers, NEW i \in 1 .. Len(worker[v].queue)
                 PROVE  Awaited(worker[v].queue[i], v)'
      BY DEF QueueAwaited
    <2>1. Awaited(worker[v].queue[i], v) /\ worker'[v].queue[i] = worker[v].queue[i]
      BY DEF Promises, QueueAwaited
    <2> QED
      BY <2>1 DEF Awaited
  <1>4. QueueDistinct'
    BY DEF Promises, QueueDistinct
  <1>5. TaskNotQueued'
    <2> SUFFICES ASSUME NEW v \in Workers, NEW i \in 1 .. Len(worker[v].queue), Busy(v)'
                 PROVE  worker'[v].queue[i].by # worker'[v].task.by
      BY DEF TaskNotQueued
    <2>1. Busy(v)
      BY DEF Busy
    <2> QED
      BY <2>1 DEF Promises, TaskNotQueued
  <1> QED
    BY <1>1, <1>2, <1>3, <1>4, <1>5 DEF Promises
------------------------------------------------------------------------------
(* Pointers to workers are dropped *)

\* Whoever drops the last pointer is alone with the worker: nobody logs to it.
LEMMA DropIInv ==
  ASSUME IInv, NEW t \in Threads, NEW w \in Workers, NEW last \in BOOLEAN, Drop(t, w, last),
         pc[t] \in {"idle", "exit"}, worker[w].obj = "alive",
         entry' \in [Files -> Workers \cup {None}],
         stream' \in [Slots -> Workers \cup {None, Unborn}],
         \A f \in Files : entry'[f] \in {None, entry[f]},
         \A s \in Slots : stream'[s] \in {None, stream[s]},
         \A u \in Threads, s \in Streams : u # t => stream'[<<u, s>>] = stream[<<u, s>>],
         last => (\A f \in Files : entry'[f] # w) /\ (\A s \in Slots : stream'[s] # w),
         pc[t] = "idle" => t = Main /\ lib = "clearing" /\ stream' = stream,
         UNCHANGED <<library, sent, content, errors>>
  PROVE  IInv'
  <1>1. CASE ~last
    <2>1. UNCHANGED <<worker, on, pc>>
      BY <1>1 DEF Drop
    <2>2. TypeOK'
      BY <2>1 DEF IInv, TypeOK, library
    <2>3. OwnedIsAlive'
      BY <2>1 DEF IInv, Ownership, OwnedIsAlive
    <2>4. LoggerOwns'
      BY <2>1 DEF IInv, Ownership, LoggerOwns
    <2>5. DestroyerIsLast' /\ DestroyedHasEnded'
      BY <2>1 DEF IInv, Ownership, DestroyerIsLast, DestroyedHasEnded
    <2>6. Promises'
      BY <2>1, PromisesKept DEF IInv
    <2>7. Lifecycle'
      <3>1. CleanupIsQuiet' /\ MainCleans'
        BY <2>1 DEF IInv, Lifecycle, CleanupIsQuiet, MainCleans, library
      <3>2. StreamsKept'
        BY <2>1 DEF IInv, Lifecycle, MainCleans, StreamsKept, library
      <3> QED
        BY <3>1, <3>2 DEF Lifecycle
    <2> QED
      BY <2>2, <2>3, <2>4, <2>5, <2>6, <2>7 DEF IInv, Ownership
  <1>2. CASE last
    <2>1. worker[w] \in WorkerRecords /\ worker[w].queue \in Seq(Tasks) /\ Stop \in Nat
      BY DEF IInv, TypeOK, WorkerRecords, Stop
    <2>2. Append(worker[w].queue, Task(t, Stop)) \in Seq(Tasks)
      BY <2>1, TaskType, AppendFacts
    <2>3. Turns(w, "dying", Append(worker[w].queue, Task(t, Stop)), worker[w].task, worker[w].thread)
      BY <1>2, <2>2, WorkerTyped, DropTurns DEF Drop, IInv
    <2>4. Goes(t, "end", w)
      BY <1>2 DEF Drop, Goes, IInv, TypeOK, PCs
    <2>5. ASSUME NEW u \in Threads, u # t, on[u] = w
          PROVE  FALSE
      <3>1. pc[u] \in {"flush", "wait", "woken"}
        BY <2>5, UserFacts, Distinct DEF IInv, TypeOK, PCs
      <3>2. PICK s \in Streams : stream[<<u, s>>] = w
        BY <2>5, <3>1 DEF IInv, Ownership, LoggerOwns
      <3> QED
        BY <1>2, <2>5, <3>2 DEF Slots
    <2>6. TypeOK'
      <3>1. worker' \in [Workers -> WorkerRecords] /\ pc' \in [Threads -> PCs]
        BY <2>3, <2>4 DEF Turns, Goes
      <3>2. \A u \in Threads : pc'[u] \in {"idle", "exit", "gone"} <=> on'[u] = None
        <4> SUFFICES ASSUME NEW u \in Threads
                     PROVE  pc'[u] \in {"idle", "exit", "gone"} <=> on'[u] = None
          OBVIOUS
        <4>1. CASE u = t
          BY <2>4, <4>1, Distinct DEF Goes
        <4>2. CASE u # t
          BY <2>4, <4>2 DEF Goes, IInv, TypeOK
        <4> QED
          BY <4>1, <4>2
      <3>3. on' \in [Threads -> Workers \cup {None}]
        BY <2>4 DEF Goes
      <3> QED
        BY <3>1, <3>2, <3>3 DEF IInv, TypeOK, library, WorkerRecords
    <2>7. OwnedIsAlive'
      <3>1. ASSUME NEW v \in Workers, v # w, worker[v].obj = "alive"
            PROVE  worker'[v].obj = "alive"
        BY <2>3, <3>1 DEF Turns
      <3>2. ASSUME NEW f \in Files, entry'[f] # None
            PROVE  worker'[entry'[f]].obj = "alive"
        <4>1. entry'[f] = entry[f] /\ entry[f] \in Workers /\ entry[f] # w
          BY <1>2, <3>2 DEF IInv, TypeOK
        <4> QED
          BY <3>1, <4>1, Distinct DEF IInv, Ownership, OwnedIsAlive
      <3>3. ASSUME NEW s \in Slots, stream'[s] \notin {None, Unborn}
            PROVE  worker'[stream'[s]].obj = "alive"
        <4>1. stream'[s] = stream[s] /\ stream[s] \in Workers /\ stream[s] # w
          BY <1>2, <3>3 DEF IInv, TypeOK
        <4> QED
          BY <3>1, <4>1, Distinct DEF IInv, Ownership, OwnedIsAlive
      <3> QED
        BY <3>2, <3>3 DEF OwnedIsAlive
    <2>8. LoggerOwns'
      BY <2>4 DEF Goes, IInv, Ownership, LoggerOwns
    <2>9. \A u \in Threads : u # t /\ pc[u] \in {"end", "ended"} =>
            on[u] \in Workers /\ on[u] # w /\ worker'[on[u]] = worker[on[u]]
      BY <2>3, <2>5, UserFacts DEF Turns
    <2>10. DestroyerIsLast'
      <3> SUFFICES ASSUME NEW u \in Threads, pc'[u] \in {"end", "ended"}
                   PROVE  /\ worker'[on'[u]].obj = "dying"
                          /\ \A v \in Threads : on'[v] = on'[u] => v = u
        BY DEF DestroyerIsLast
      <3>1. CASE u = t
        BY <2>3, <2>4, <2>5, <3>1 DEF Turns, Goes
      <3>2. CASE u # t
        <4>1. on'[u] = on[u] /\ pc'[u] = pc[u] /\ on[u] # w /\ worker'[on[u]] = worker[on[u]]
          BY <2>4, <2>9, <3>2 DEF Goes
        <4> QED
          BY <2>4, <3>2, <4>1 DEF Goes, IInv, Ownership, DestroyerIsLast
      <3> QED
        BY <3>1, <3>2
    <2>11. DestroyedHasEnded'
      <3>1. ASSUME NEW u \in Threads, pc'[u] = "ended"
            PROVE  worker'[on'[u]].thread = "ended" /\ worker'[on'[u]].queue = << >>
        <4>1. on'[u] = on[u] /\ pc[u] = "ended" /\ worker'[on[u]] = worker[on[u]]
          BY <2>4, <2>9, <3>1 DEF Goes
        <4> QED
          BY <4>1 DEF IInv, Ownership, DestroyedHasEnded
      <3>2. ASSUME NEW v \in Workers, worker'[v].obj = "freed"
            PROVE  worker'[v].thread = "ended" /\ worker'[v].queue = << >>
        BY <2>3, <3>2 DEF Turns, IInv, Ownership, DestroyedHasEnded
      <3> QED
        BY <3>1, <3>2 DEF DestroyedHasEnded
    <2>12. Promises'
      BY <2>1, <2>3, <2>4, SendKeeps
    <2>13. Lifecycle'
      <3>1. CleanupIsQuiet' /\ MainCleans'
        BY <2>4, Distinct DEF Goes, IInv, Lifecycle, CleanupIsQuiet, MainCleans, library
      <3>2. StreamsKept'
        BY <2>4 DEF Goes, IInv, Lifecycle, MainCleans, StreamsKept, library
      <3> QED
        BY <3>1, <3>2 DEF Lifecycle
    <2> QED
      BY <2>6, <2>7, <2>8, <2>10, <2>11, <2>12, <2>13 DEF IInv, Ownership
  <1> QED
    BY <1>1, <1>2

LEMMA ClearEntryIInv ==
  ASSUME IInv, NEW f \in Files, ClearEntry(f)
  PROVE  IInv'
  <1> DEFINE w == entry[f]
             last == Owners(w) = {f}
  <1>1. /\ Main \in Threads /\ w \in Workers /\ worker[w].obj = "alive" /\ pc[Main] = "idle"
        /\ lib = "clearing"
        /\ entry' = [entry EXCEPT ![f] = None] /\ Drop(Main, w, last)
        /\ UNCHANGED <<library, stream, sent, content, errors>>
    BY Distinct DEF ClearEntry, IInv, TypeOK, Ownership, OwnedIsAlive
  <1>2. /\ entry' \in [Files -> Workers \cup {None}]
        /\ stream' \in [Slots -> Workers \cup {None, Unborn}]
        /\ \A g \in Files : entry'[g] \in {None, entry[g]} /\ entry'[f] = None
        /\ \A g \in Files : g # f => entry'[g] = entry[g]
    BY <1>1 DEF IInv, TypeOK
  <1>3. last => (\A g \in Files : entry'[g] # w) /\ (\A s \in Slots : stream'[s] # w)
    BY <1>1, <1>2, Distinct DEF Owners
  <1>4. last \in BOOLEAN
    OBVIOUS
  <1> HIDE DEF w, last
  <1> QED
    BY <1>1, <1>2, <1>3, <1>4, DropIInv

LEMMA DestroyStreamIInv ==
  ASSUME IInv, NEW t \in Threads, NEW s \in Streams, DestroyStream(t, s)
  PROVE  IInv'
  <1> DEFINE w == stream[<<t, s>>]
             last == Owners(w) = {<<t, s>>}
  <1>1. /\ <<t, s>> \in Slots /\ w \in Workers \cup {Unborn} /\ pc[t] = "exit"
        /\ stream' = [stream EXCEPT ![<<t, s>>] = None]
        /\ UNCHANGED <<library, entry, sent, content, errors>>
    BY DEF DestroyStream, IInv, TypeOK, Slots
  <1>2. /\ entry' \in [Files -> Workers \cup {None}]
        /\ stream' \in [Slots -> Workers \cup {None, Unborn}]
        /\ \A x \in Slots : stream'[x] \in {None, stream[x]}
        /\ stream'[<<t, s>>] = None /\ \A x \in Slots : x # <<t, s>> => stream'[x] = stream[x]
    BY <1>1 DEF IInv, TypeOK
  <1>3. \A u \in Threads, x \in Streams : u # t => stream'[<<u, x>>] = stream[<<u, x>>]
    BY <1>2 DEF Slots
  <1>4. CASE w = Unborn
    <2>1. UNCHANGED <<worker, on, pc>>
      BY <1>4 DEF DestroyStream
    <2>2. TypeOK'
      BY <1>1, <1>2, <2>1 DEF IInv, TypeOK, library
    <2>3. OwnedIsAlive'
      BY <1>1, <1>2, <2>1 DEF IInv, Ownership, OwnedIsAlive
    <2>4. LoggerOwns'
      BY <1>1, <1>3, <2>1 DEF IInv, Ownership, LoggerOwns
    <2>5. DestroyerIsLast' /\ DestroyedHasEnded'
      BY <2>1 DEF IInv, Ownership, DestroyerIsLast, DestroyedHasEnded
    <2>6. Promises'
      BY <1>1, <2>1, PromisesKept DEF IInv
    <2>7. Lifecycle'
      <3>1. CleanupIsQuiet' /\ MainCleans'
        BY <1>1, <2>1 DEF IInv, Lifecycle, CleanupIsQuiet, MainCleans, library
      <3>2. StreamsKept'
        BY <1>1, <1>3, <2>1 DEF IInv, Lifecycle, MainCleans, StreamsKept, library
      <3> QED
        BY <3>1, <3>2 DEF Lifecycle
    <2> QED
      BY <2>2, <2>3, <2>4, <2>5, <2>6, <2>7 DEF IInv, Ownership
  <1>5. CASE w # Unborn
    <2>1. w \in Workers /\ worker[w].obj = "alive" /\ Drop(t, w, last)
      BY <1>1, <1>5, Distinct DEF DestroyStream, IInv, Ownership, OwnedIsAlive
    <2>2. last => (\A g \in Files : entry'[g] # w) /\ (\A x \in Slots : stream'[x] # w)
      BY <1>1, <1>2, <2>1, Distinct DEF Owners
    <2>3. last \in BOOLEAN
      OBVIOUS
    <2>4. \A f \in Files : entry'[f] \in {None, entry[f]}
      BY <1>1
    <2> HIDE DEF w, last
    <2> QED
      BY <1>1, <1>2, <1>3, <2>1, <2>2, <2>3, <2>4, DropIInv
  <1> QED
    BY <1>4, <1>5
------------------------------------------------------------------------------
(* A thread logs *)

\* The type invariant after a step of thread t that changes workers.
LEMMA GoesTyped ==
  ASSUME TypeOK, NEW t \in Threads, NEW at \in PCs, NEW w, Goes(t, at, w),
         at \in {"idle", "exit", "gone"} <=> w = None,
         worker' \in [Workers -> WorkerRecords],
         entry' \in [Files -> Workers \cup {None}],
         stream' \in [Slots -> Workers \cup {None, Unborn}],
         sent' \in [Threads -> Nat],
         lib' \in {"down", "starting", "up", "stopping", "closing", "clearing"},
         UNCHANGED <<sessions, layers, fd, content, errors>>
  PROVE  TypeOK'
  <1>1. ASSUME NEW u \in Threads
        PROVE  pc'[u] \in {"idle", "exit", "gone"} <=> on'[u] = None
    <2>1. CASE u = t
      BY <2>1 DEF Goes
    <2>2. CASE u # t
      BY <2>2 DEF Goes, TypeOK
    <2> QED
      BY <2>1, <2>2
  <1>2. pc' \in [Threads -> PCs] /\ on' \in [Threads -> Workers \cup {None}]
    BY DEF Goes
  <1> QED
    BY <1>1, <1>2 DEF TypeOK, WorkerRecords

\* A thread has got its stream, whose worker is as before or new.
LEMMA StreamIInv ==
  ASSUME IInv, NEW t \in Threads, NEW w \in Workers, NEW s \in Streams,
         pc[t] = "idle", Goes(t, "flush", w),
         lib \in {"up", "starting"} \/ (lib = "stopping" /\ t = Main),
         worker' \in [Workers -> WorkerRecords], worker'[w].obj = "alive",
         \A v \in Workers : v # w \/ worker[w].obj = "alive" => worker'[v] = worker[v],
         worker[w].obj # "alive" =>
           /\ worker[w].obj = "none" /\ worker'[w].thread = "runs"
           /\ worker'[w].queue = << >> /\ worker'[w].file \in Files,
         entry' \in [Files -> Workers \cup {None}],
         stream' \in [Slots -> Workers \cup {None, Unborn}],
         \A f \in Files : entry'[f] \in {w, entry[f]},
         \A x \in Slots : stream'[x] \in {w, stream[x]},
         stream'[<<t, s>>] = w,
         \A u \in Threads, x \in Streams : u # t => stream'[<<u, x>>] = stream[<<u, x>>],
         UNCHANGED <<library, sent, content, errors>>
  PROVE  IInv'
  <1>1. TypeOK'
    <2>1. lib' = lib /\ UNCHANGED <<sessions, layers, fd, content, errors>>
      BY DEF library
    <2>2. sent' \in [Threads -> Nat] /\ lib \in {"down", "starting", "up", "stopping", "closing", "clearing"}
      BY DEF IInv, TypeOK
    <2>3. "flush" \in PCs /\ w # None
      BY Distinct DEF PCs
    <2> QED
      BY <2>1, <2>2, <2>3, GoesTyped DEF IInv
  <1>2. OwnedIsAlive'
    <2>1. \A v \in Workers : worker[v].obj = "alive" => worker'[v].obj = "alive"
      OBVIOUS
    <2>2. ASSUME NEW f \in Files, entry'[f] # None
          PROVE  worker'[entry'[f]].obj = "alive"
      <3>1. entry'[f] = w \/ (entry[f] \in Workers /\ entry'[f] = entry[f])
        BY <2>2 DEF IInv, TypeOK
      <3>2. entry[f] # None => worker[entry[f]].obj = "alive"
        BY DEF IInv, Ownership, OwnedIsAlive
      <3> QED
        BY <2>1, <3>1, <3>2, Distinct
    <2>3. ASSUME NEW x \in Slots, stream'[x] \notin {None, Unborn}
          PROVE  worker'[stream'[x]].obj = "alive"
      <3>1. stream'[x] = w \/ (stream[x] \in Workers /\ stream'[x] = stream[x])
        BY <2>3 DEF IInv, TypeOK
      <3>2. stream[x] \notin {None, Unborn} => worker[stream[x]].obj = "alive"
        BY DEF IInv, Ownership, OwnedIsAlive
      <3> QED
        BY <2>1, <3>1, <3>2, Distinct
    <2> QED
      BY <2>2, <2>3 DEF OwnedIsAlive
  <1>3. LoggerOwns'
    <2> SUFFICES ASSUME NEW u \in Threads, pc'[u] \in {"flush", "wait", "woken"}
                 PROVE  \E x \in Streams : stream'[<<u, x>>] = on'[u]
      BY DEF LoggerOwns
    <2>1. CASE u = t
      BY <2>1 DEF Goes
    <2>2. CASE u # t
      BY <2>2 DEF Goes, IInv, Ownership, LoggerOwns
    <2> QED
      BY <2>1, <2>2
  <1>4. ASSUME NEW u \in Threads, pc'[u] \in {"end", "ended"}
        PROVE  /\ u # t /\ pc'[u] = pc[u] /\ on'[u] = on[u] /\ on[u] # w
               /\ worker'[on[u]] = worker[on[u]]
    <2>1. u # t /\ pc'[u] = pc[u] /\ on'[u] = on[u]
      BY <1>4 DEF Goes
    <2>2. on[u] \in Workers /\ worker[on[u]].obj = "dying"
      BY <1>4, <2>1, UserFacts
    <2> QED
      BY <2>1, <2>2
  <1>5. DestroyerIsLast'
    <2> SUFFICES ASSUME NEW u \in Threads, pc'[u] \in {"end", "ended"}
                 PROVE  /\ worker'[on'[u]].obj = "dying"
                        /\ \A v \in Threads : on'[v] = on'[u] => v = u
      BY DEF DestroyerIsLast
    <2> QED
      BY <1>4 DEF Goes, IInv, Ownership, DestroyerIsLast
  <1>6. DestroyedHasEnded'
    <2>1. ASSUME NEW u \in Threads, pc'[u] = "ended"
          PROVE  worker'[on'[u]].thread = "ended" /\ worker'[on'[u]].queue = << >>
      BY <1>4, <2>1 DEF IInv, Ownership, DestroyedHasEnded
    <2>2. ASSUME NEW v \in Workers, worker'[v].obj = "freed"
          PROVE  worker'[v].thread = "ended" /\ worker'[v].queue = << >>
      BY <2>2 DEF IInv, Ownership, DestroyedHasEnded
    <2> QED
      BY <2>1, <2>2 DEF DestroyedHasEnded
  <1>7. WorkerShape'
    BY DEF IInv, Promises, WorkerShape
  <1>8. \A u \in Threads : pc[u] \in {"wait", "end"} =>
          pc'[u] = pc[u] /\ on'[u] = on[u] /\ sent'[u] = sent[u]
    BY DEF Goes
  <1>9. TaskAwaited'
    <2> SUFFICES ASSUME NEW v \in Workers, Busy(v)'
                 PROVE  Awaited(worker[v].task, v)'
      BY DEF TaskAwaited
    <2>1. worker'[v] = worker[v]
      BY DEF Busy
    <2>2. Awaited(worker[v].task, v)
      BY <2>1 DEF Busy, IInv, Promises, TaskAwaited
    <2> QED
      BY <1>8, <2>1, <2>2 DEF Awaited
  <1>10. QueueAwaited'
    <2> SUFFICES ASSUME NEW v \in Workers, NEW i \in 1 .. Len(worker'[v].queue)
                 PROVE  Awaited(worker[v].queue[i], v)'
      BY DEF QueueAwaited
    <2>1. worker'[v] = worker[v]
      OBVIOUS
    <2>2. Awaited(worker[v].queue[i], v)
      BY <2>1 DEF IInv, Promises, QueueAwaited
    <2> QED
      BY <1>8, <2>1, <2>2 DEF Awaited
  <1>11. QueueDistinct'
    <2> SUFFICES ASSUME NEW v \in Workers, NEW i \in 1 .. Len(worker'[v].queue),
                        NEW j \in 1 .. Len(worker'[v].queue),
                        worker'[v].queue[i].by = worker'[v].queue[j].by
                 PROVE  i = j
      BY DEF QueueDistinct
    <2>1. worker'[v] = worker[v]
      OBVIOUS
    <2> QED
      BY <2>1 DEF IInv, Promises, QueueDistinct
  <1>12. TaskNotQueued'
    <2> SUFFICES ASSUME NEW v \in Workers, NEW i \in 1 .. Len(worker'[v].queue), Busy(v)'
                 PROVE  worker'[v].queue[i].by # worker'[v].task.by
      BY DEF TaskNotQueued
    <2>1. worker'[v] = worker[v]
      OBVIOUS
    <2>2. Busy(v) /\ i \in 1 .. Len(worker[v].queue)
      BY <2>1 DEF Busy
    <2> QED
      BY <2>1, <2>2 DEF IInv, Promises, TaskNotQueued
  <1>13. Lifecycle'
    <2>1. CleanupIsQuiet'
      BY DEF Goes, IInv, Lifecycle, CleanupIsQuiet, library
    <2>2. MainCleans'
      BY DEF IInv, Lifecycle, MainCleans, library
    <2>3. StreamsKept'
      BY Distinct DEF Goes, IInv, Lifecycle, StreamsKept, library, Slots
    <2> QED
      BY <2>1, <2>2, <2>3 DEF Lifecycle
  <1> QED
    BY <1>1, <1>2, <1>3, <1>5, <1>6, <1>7, <1>9, <1>10, <1>11, <1>12, <1>13
    DEF IInv, Ownership, Promises

LEMMA GetOSIInv ==
  ASSUME IInv, NEW t \in Threads, NEW k \in Kinds, GetOS(t, k),
         lib \in {"up", "starting"} \/ (lib = "stopping" /\ t = Main)
  PROVE  IInv'
  <1> DEFINE s == IF fd[k] = None THEN Stderr ELSE k
             f == IF fd[k] = None THEN Stderr ELSE fd[k]
  <1>1. /\ s \in Streams /\ f \in Files /\ <<t, s>> \in Slots
        /\ pc[t] = "idle" /\ pc' = [pc EXCEPT ![t] = "flush"]
        /\ UNCHANGED <<library, sent, content, errors>>
    BY Distinct DEF GetOS, Streams, Slots, IInv, TypeOK
  <1>2. \/ stream[<<t, s>>] = Unborn /\ GetWorker(t, s, f)
        \/ /\ stream[<<t, s>>] # Unborn
           /\ on' = [on EXCEPT ![t] = stream[<<t, s>>]]
           /\ UNCHANGED <<entry, stream, worker>>
    BY DEF GetOS
  <1>3. /\ worker \in [Workers -> WorkerRecords] /\ entry \in [Files -> Workers \cup {None}]
        /\ stream \in [Slots -> Workers \cup {None, Unborn}]
        /\ on \in [Threads -> Workers \cup {None}] /\ pc \in [Threads -> PCs]
    BY WorkerTyped DEF IInv, TypeOK
  <1> HIDE DEF s, f
  <1>4. ASSUME NEW w \in Workers, on' = [on EXCEPT ![t] = w]
        PROVE  Goes(t, "flush", w)
    BY <1>1, <1>3, <1>4 DEF Goes, PCs
  <1>5. ASSUME NEW w \in Workers, stream' = [stream EXCEPT ![<<t, s>>] = w]
        PROVE  /\ stream' \in [Slots -> Workers \cup {None, Unborn}]
               /\ \A x \in Slots : stream'[x] \in {w, stream[x]}
               /\ stream'[<<t, s>>] = w
               /\ \A u \in Threads, x \in Streams : u # t => stream'[<<u, x>>] = stream[<<u, x>>]
    BY <1>1, <1>3, <1>5 DEF Slots
  <1>6. CASE entry[f] # None /\ stream' = [stream EXCEPT ![<<t, s>>] = entry[f]]
             /\ on' = [on EXCEPT ![t] = entry[f]] /\ UNCHANGED <<entry, worker>>
    <2> DEFINE w == entry[f]
    <2>1. w \in Workers /\ worker[w].obj = "alive"
      BY <1>1, <1>3, <1>6 DEF IInv, Ownership, OwnedIsAlive
    <2>2. Goes(t, "flush", w)
      BY <1>4, <1>6, <2>1
    <2>3. \A g \in Files : entry'[g] \in {w, entry[g]}
      BY <1>6
    <2>4. worker' = worker /\ entry' = entry /\ stream' = [stream EXCEPT ![<<t, s>>] = w]
      BY <1>6
    <2> HIDE DEF w
    <2> QED
      BY <1>1, <1>3, <1>5, <2>1, <2>2, <2>3, <2>4, StreamIInv
  <1>7. CASE entry[f] = None /\ NewWorker(t, s, f)
    <2> DEFINE new == [obj |-> "alive", file |-> f, queue |-> << >>, task |-> NoTask,
                       thread |-> "runs"]
    <2>1. PICK w \in Workers :
            /\ worker[w].obj = "none" /\ worker' = [worker EXCEPT ![w] = new]
            /\ entry' = [entry EXCEPT ![f] = w]
            /\ stream' = [stream EXCEPT ![<<t, s>>] = w]
            /\ on' = [on EXCEPT ![t] = w]
      BY <1>7 DEF NewWorker
    <2>2. /\ new \in WorkerRecords /\ new.obj = "alive" /\ new.thread = "runs"
          /\ new.queue = << >> /\ new.file \in Files
      <3>1. NoTask \in Tasks /\ << >> \in Seq(Tasks)
        BY DEF NoTask, Tasks, Stop
      <3> QED
        BY <1>1, <3>1 DEF WorkerRecords
    <2> HIDE DEF new
    <2>3. /\ worker' \in [Workers -> WorkerRecords] /\ worker'[w] = new
          /\ \A v \in Workers : v # w => worker'[v] = worker[v]
      BY <1>3, <2>1, <2>2
    <2>4. /\ entry' \in [Files -> Workers \cup {None}]
          /\ \A g \in Files : entry'[g] \in {w, entry[g]}
      BY <1>1, <1>3, <2>1
    <2>5. Goes(t, "flush", w)
      BY <1>4, <2>1
    <2> QED
      BY <1>1, <1>5, <2>1, <2>2, <2>3, <2>4, <2>5, StreamIInv
  <1>8. CASE stream[<<t, s>>] # Unborn /\ on' = [on EXCEPT ![t] = stream[<<t, s>>]]
             /\ UNCHANGED <<entry, stream, worker>>
    <2> DEFINE w == stream[<<t, s>>]
    <2>1. w \in Workers /\ worker[w].obj = "alive"
      <3>1. w # None
        BY <1>1 DEF IInv, Lifecycle, StreamsKept
      <3> QED
        BY <1>1, <1>3, <1>8, <3>1 DEF IInv, Ownership, OwnedIsAlive
    <2>2. Goes(t, "flush", w)
      BY <1>4, <1>8, <2>1
    <2>3. worker' = worker /\ entry' = entry /\ stream' = stream /\ stream'[<<t, s>>] = w
      BY <1>8
    <2> HIDE DEF w
    <2> QED
      BY <1>1, <1>3, <2>1, <2>2, <2>3, StreamIInv
  <1> QED
    BY <1>2, <1>6, <1>7, <1>8 DEF GetWorker
\* The queue takes the message; the thread still owns the worker.
LEMMA SendIInv ==
  ASSUME IInv, NEW t \in Threads, Send(t)
  PROVE  IInv'
  <1> DEFINE w == on[t]
             q == Append(worker[w].queue, Task(t, sent[t] + 1))
  <1>1. /\ w \in Workers /\ worker[w].obj = "alive" /\ pc[t] = "flush" /\ w # None
    BY UserFacts, Distinct DEF Send
  <1>2. /\ worker' = [worker EXCEPT ![w].queue = Append(@, Task(t, sent[t] + 1))]
        /\ sent' = [sent EXCEPT ![t] = @ + 1] /\ pc' = [pc EXCEPT ![t] = "wait"]
        /\ UNCHANGED <<library, entry, stream, on, content, errors>>
    BY DEF Send
  <1>3. /\ sent[t] + 1 \in Nat /\ sent[t] + 1 # Stop
        /\ sent' \in [Threads -> Nat] /\ sent'[t] = sent[t] + 1
        /\ \A u \in Threads : u # t => sent'[u] = sent[u]
    <2>1. sent \in [Threads -> Nat] /\ sent' = [sent EXCEPT ![t] = @ + 1]
      BY <1>2 DEF IInv, TypeOK
    <2> QED
      BY <2>1 DEF Stop
  <1>4. q \in Seq(Tasks)
    <2>1. worker[w].queue \in Seq(Tasks) /\ Task(t, sent[t] + 1) \in Tasks
      BY <1>1, <1>3, TaskType DEF IInv, TypeOK
    <2> QED
      BY <2>1, AppendFacts
  <1>5. worker' = [worker EXCEPT ![w].queue = q]
    BY <1>2
  <1>6. Turns(w, worker[w].obj, q, worker[w].task, worker[w].thread)
    BY <1>1, <1>4, <1>5, WorkerTyped, QueueTurns DEF IInv
  <1>7. Goes(t, "wait", w)
    BY <1>1, <1>2 DEF Goes, IInv, TypeOK, PCs
  <1>8. Promises'
    BY <1>1, <1>3, <1>6, <1>7, SendKeeps
  <1> HIDE DEF w, q
  <1>9. TypeOK'
    <2>1. "wait" \in PCs /\ worker' \in [Workers -> WorkerRecords]
      BY <1>6 DEF PCs, Turns
    <2>2. /\ entry' \in [Files -> Workers \cup {None}]
          /\ stream' \in [Slots -> Workers \cup {None, Unborn}]
          /\ lib' \in {"down", "starting", "up", "stopping", "closing", "clearing"}
          /\ UNCHANGED <<sessions, layers, fd, content, errors>>
      BY <1>2 DEF IInv, TypeOK, library
    <2> QED
      BY <1>1, <1>3, <1>7, <2>1, <2>2, GoesTyped DEF IInv
  <1>10. \A v \in Workers : worker'[v].obj = worker[v].obj
    BY <1>6 DEF Turns
  <1>11. OwnedIsAlive'
    BY <1>2, <1>10 DEF IInv, TypeOK, Ownership, OwnedIsAlive
  <1>12. LoggerOwns'
    BY <1>1, <1>2, <1>7 DEF Goes, IInv, Ownership, LoggerOwns
  <1>13. \A u \in Threads : pc'[u] \in {"end", "ended"} =>
           /\ pc'[u] = pc[u] /\ on'[u] = on[u] /\ on[u] \in Workers /\ on[u] # w
           /\ worker'[on[u]] = worker[on[u]]
    BY <1>1, <1>6, <1>7, UserFacts DEF Goes, Turns
  <1>14. DestroyerIsLast'
    BY <1>2, <1>13 DEF IInv, Ownership, DestroyerIsLast
  <1>15. DestroyedHasEnded'
    <2>1. \A u \in Threads : pc'[u] = "ended" =>
            worker'[on'[u]].thread = "ended" /\ worker'[on'[u]].queue = << >>
      BY <1>13 DEF IInv, Ownership, DestroyedHasEnded
    <2>2. \A v \in Workers : worker'[v].obj = "freed" =>
            worker'[v].thread = "ended" /\ worker'[v].queue = << >>
      BY <1>1, <1>6, <1>10 DEF Turns, IInv, Ownership, DestroyedHasEnded
    <2> QED
      BY <2>1, <2>2 DEF DestroyedHasEnded
  <1>16. Lifecycle'
    <2>1. CleanupIsQuiet' /\ MainCleans'
      BY <1>1, <1>2, <1>7, Distinct DEF Goes, IInv, Lifecycle, CleanupIsQuiet, MainCleans, library
    <2>2. StreamsKept'
      BY <1>1, <1>2, <1>7 DEF Goes, IInv, Lifecycle, StreamsKept, library
    <2> QED
      BY <2>1, <2>2 DEF Lifecycle
  <1> QED
    BY <1>8, <1>9, <1>11, <1>12, <1>14, <1>15, <1>16 DEF IInv, Ownership

\* A thread that uses no worker any more, and destroys none.
LEMMA LeavesKeeps ==
  ASSUME IInv, NEW t \in Threads, pc[t] \notin {"wait", "end", "ended"},
         NEW at \in {"idle", "exit", "gone"}, Goes(t, at, None),
         UNCHANGED <<entry, stream, worker, sent>>
  PROVE  Ownership' /\ Promises'
  <1>1. OwnedIsAlive'
    BY DEF IInv, Ownership, OwnedIsAlive
  <1>2. LoggerOwns'
    BY DEF Goes, IInv, Ownership, LoggerOwns
  <1>3. \A u \in Threads : pc'[u] \in {"end", "ended"} =>
          u # t /\ pc'[u] = pc[u] /\ on'[u] = on[u] /\ on[u] # None
    BY UserFacts, Distinct DEF Goes
  <1>4. DestroyerIsLast'
    BY <1>3 DEF Goes, IInv, Ownership, DestroyerIsLast
  <1>5. DestroyedHasEnded'
    BY <1>3 DEF IInv, Ownership, DestroyedHasEnded
  <1>6. Promises'
    BY PromisesKept DEF Goes, IInv
  <1> QED
    BY <1>1, <1>2, <1>4, <1>5, <1>6 DEF Ownership

LEMMA SendReturnIInv ==
  ASSUME IInv, NEW t \in Threads, SendReturn(t)
  PROVE  IInv'
  <1>1. pc[t] = "woken" /\ UNCHANGED <<sessions, layers, fd, entry, stream, worker, sent, content, errors>>
    BY DEF SendReturn
  <1>2. Goes(t, "idle", None)
    BY DEF SendReturn, Goes, IInv, TypeOK, PCs
  <1>3. \/ lib' = lib
        \/ t = Main /\ lib = "starting" /\ lib' = "up"
        \/ t = Main /\ lib = "stopping" /\ lib' = "closing"
    BY DEF SendReturn
  <1>4. TypeOK'
    <2>1. "idle" \in PCs
      BY DEF PCs
    <2>2. /\ entry' \in [Files -> Workers \cup {None}] /\ sent' \in [Threads -> Nat]
          /\ stream' \in [Slots -> Workers \cup {None, Unborn}]
          /\ worker' \in [Workers -> WorkerRecords]
      BY <1>1, WorkerTyped DEF IInv, TypeOK
    <2>3. lib' \in {"down", "starting", "up", "stopping", "closing", "clearing"}
      BY <1>3 DEF IInv, TypeOK
    <2> QED
      BY <1>1, <1>2, <2>1, <2>2, <2>3, GoesTyped DEF IInv
  <1>5. CleanupIsQuiet'
    BY <1>1, <1>2, <1>3 DEF Goes, IInv, Lifecycle, CleanupIsQuiet
  <1>6. MainCleans'
    BY <1>1, <1>2, <1>3, Distinct DEF Goes, IInv, Lifecycle, MainCleans
  <1>7. StreamsKept'
    BY <1>1, <1>2, <1>3 DEF Goes, IInv, Lifecycle, StreamsKept
  <1> QED
    BY <1>1, <1>2, <1>4, <1>5, <1>6, <1>7, LeavesKeeps DEF IInv, Lifecycle

\* A thread begins to end, or has ended.
LEMMA ExitIInv ==
  ASSUME IInv, NEW t \in Threads, Exit(t) \/ Gone(t)
  PROVE  IInv'
  <1>1. PICK at \in {"exit", "gone"} : pc' = [pc EXCEPT ![t] = at]
    BY DEF Exit, Gone
  <1>2. /\ (pc[t] = "idle" /\ (t = Main => lib \in {"up", "down"})) \/ pc[t] = "exit"
        /\ UNCHANGED <<library, entry, stream, worker, on, sent, content, errors>>
    BY DEF Exit, Gone
  <1>3. Goes(t, at, None)
    BY <1>1, <1>2 DEF Goes, IInv, TypeOK, PCs
  <1>4. TypeOK'
    <2>1. at \in PCs
      BY DEF PCs
    <2>2. /\ entry' \in [Files -> Workers \cup {None}] /\ sent' \in [Threads -> Nat]
          /\ stream' \in [Slots -> Workers \cup {None, Unborn}]
          /\ worker' \in [Workers -> WorkerRecords]
          /\ lib' \in {"down", "starting", "up", "stopping", "closing", "clearing"}
          /\ UNCHANGED <<sessions, layers, fd, content, errors>>
      BY <1>2, WorkerTyped DEF IInv, TypeOK, library
    <2> QED
      BY <1>3, <2>1, <2>2, GoesTyped DEF IInv
  <1>5. CleanupIsQuiet' /\ MainCleans'
    BY <1>2, <1>3, Distinct DEF Goes, IInv, Lifecycle, CleanupIsQuiet, MainCleans, library
  <1>6. StreamsKept'
    BY <1>2, <1>3 DEF Goes, IInv, Lifecycle, StreamsKept, library
  <1> QED
    BY <1>2, <1>3, <1>4, <1>5, <1>6, LeavesKeeps DEF IInv, Lifecycle

\* The destructor goes on after the empty task.
LEMMA DestroyedIInv ==
  ASSUME IInv, NEW t \in Threads, Destroyed(t)
  PROVE  IInv'
  <1> DEFINE w == on[t]
             at == IF t = Main /\ lib = "clearing" THEN "idle" ELSE "exit"
  <1>1. /\ pc[t] = "ended" /\ w \in Workers /\ worker[w].obj = "dying"
        /\ worker[w].thread = "ended" /\ worker[w].queue = << >>
        /\ UNCHANGED <<library, entry, stream, sent, content, errors>>
        /\ at \in {"idle", "exit"}
    BY UserFacts DEF Destroyed, Free, IInv, Ownership, DestroyedHasEnded
  <1>2. Turns(w, "freed", worker[w].queue, worker[w].task, worker[w].thread)
    BY <1>1, WorkerTyped, FreeTurns DEF Destroyed, Free, IInv
  <1>3. Goes(t, at, None)
    BY DEF Destroyed, Free, Goes, IInv, TypeOK, PCs
  <1>4. \A u \in Threads : on[u] = w => u = t
    BY <1>1 DEF IInv, Ownership, DestroyerIsLast
  <1>5. t = Main /\ lib = "clearing" <=> at = "idle"
    OBVIOUS
  <1> HIDE DEF w, at
  <1>6. TypeOK'
    <2>1. at \in PCs /\ worker' \in [Workers -> WorkerRecords]
      BY <1>1, <1>2 DEF PCs, Turns
    <2>2. /\ entry' \in [Files -> Workers \cup {None}] /\ sent' \in [Threads -> Nat]
          /\ stream' \in [Slots -> Workers \cup {None, Unborn}]
          /\ lib' \in {"down", "starting", "up", "stopping", "closing", "clearing"}
          /\ UNCHANGED <<sessions, layers, fd, content, errors>>
      BY <1>1 DEF IInv, TypeOK, library
    <2> QED
      BY <1>1, <1>3, <2>1, <2>2, GoesTyped DEF IInv
  <1>7. \A v \in Workers : worker[v].obj = "alive" => worker'[v].obj = "alive"
    BY <1>1, <1>2 DEF Turns
  <1>8. OwnedIsAlive'
    BY <1>1, <1>7 DEF IInv, TypeOK, Ownership, OwnedIsAlive
  <1>9. LoggerOwns'
    BY <1>1, <1>3 DEF Goes, IInv, Ownership, LoggerOwns
  <1>10. \A u \in Threads : pc'[u] \in {"end", "ended"} =>
           /\ u # t /\ pc'[u] = pc[u] /\ on'[u] = on[u] /\ on[u] \in Workers /\ on[u] # w
           /\ worker'[on[u]] = worker[on[u]]
    BY <1>1, <1>2, <1>3, <1>4, UserFacts DEF Goes, Turns
  <1>11. DestroyerIsLast'
    BY <1>3, <1>10, Distinct DEF Goes, IInv, Ownership, DestroyerIsLast
  <1>12. DestroyedHasEnded'
    <2>1. \A u \in Threads : pc'[u] = "ended" =>
            worker'[on'[u]].thread = "ended" /\ worker'[on'[u]].queue = << >>
      BY <1>10 DEF IInv, Ownership, DestroyedHasEnded
    <2>2. \A v \in Workers : worker'[v].obj = "freed" =>
            worker'[v].thread = "ended" /\ worker'[v].queue = << >>
      BY <1>1, <1>2 DEF Turns, IInv, Ownership, DestroyedHasEnded
    <2> QED
      BY <2>1, <2>2 DEF DestroyedHasEnded
  <1>13. Promises'
    <2>1. \A v \in Workers :
            /\ worker'[v].task = worker[v].task /\ worker'[v].thread = worker[v].thread
            /\ worker'[v].file = worker[v].file /\ worker'[v].queue = worker[v].queue
            /\ worker'[v].obj = "none" <=> worker[v].obj = "none"
      BY <1>1, <1>2 DEF Turns
    <2>2. \A u \in Threads : pc[u] \in {"wait", "end"} =>
            pc'[u] = pc[u] /\ on'[u] = on[u] /\ sent'[u] = sent[u]
      BY <1>1, <1>3 DEF Goes
    <2> QED
      BY <2>1, <2>2, PromisesKept DEF IInv
  <1>14. Lifecycle'
    <2>1. CleanupIsQuiet' /\ MainCleans'
      BY <1>1, <1>3, <1>5, Distinct DEF Goes, IInv, Lifecycle, CleanupIsQuiet, MainCleans, library
    <2>2. StreamsKept'
      BY <1>1, <1>3, <1>5 DEF Goes, IInv, Lifecycle, StreamsKept, library
    <2> QED
      BY <2>1, <2>2 DEF Lifecycle
  <1> QED
    BY <1>6, <1>8, <1>9, <1>11, <1>12, <1>13, <1>14 DEF IInv, Ownership
------------------------------------------------------------------------------
(* The worker's thread *)

\* The thread of worker w works: no owner changes, and threads that wait are
\* woken at most.
LEMMA WorkKeeps ==
  ASSUME IInv, NEW w \in Workers, worker[w].thread \notin {"none", "ended"},
         NEW queue, NEW task, NEW thread, thread # "none", Turns(w, worker[w].obj, queue, task, thread),
         pc' \in [Threads -> PCs],
         \A u \in Threads : \/ pc'[u] = pc[u]
                            \/ pc[u] = "wait" /\ pc'[u] = "woken"
                            \/ /\ pc[u] = "end" /\ pc'[u] = "ended" /\ on[u] = w
                               /\ thread = "ended" /\ queue = << >>,
         thread = "written" => task.msg # Stop,
         UNCHANGED <<library, entry, stream, on, sent>>
  PROVE  Ownership' /\ Lifecycle' /\ WorkerShape'
  <1>1. \A v \in Workers : worker'[v].obj = worker[v].obj /\ worker'[v].file = worker[v].file
    BY DEF Turns
  <1>2. OwnedIsAlive'
    <2>1. \A f \in Files : entry[f] # None => entry[f] \in Workers /\ worker[entry[f]].obj = "alive"
      BY DEF IInv, TypeOK, Ownership, OwnedIsAlive
    <2>2. \A s \in Slots : stream[s] \notin {None, Unborn} =>
            stream[s] \in Workers /\ worker[stream[s]].obj = "alive"
      BY DEF IInv, TypeOK, Ownership, OwnedIsAlive
    <2> QED
      BY <1>1, <2>1, <2>2 DEF OwnedIsAlive
  <1>3. LoggerOwns'
    BY DEF IInv, Ownership, LoggerOwns
  <1>4. \A u \in Threads : pc'[u] \in {"end", "ended"} => pc[u] \in {"end", "ended"} /\ on[u] \in Workers
    BY UserFacts
  <1>5. DestroyerIsLast'
    BY <1>1, <1>4 DEF IInv, Ownership, DestroyerIsLast
  <1>6. DestroyedHasEnded'
    <2>1. ASSUME NEW u \in Threads, pc'[u] = "ended"
          PROVE  worker'[on'[u]].thread = "ended" /\ worker'[on'[u]].queue = << >>
      <3>1. CASE pc[u] = "ended"
        <4>1. worker[on[u]].thread = "ended" /\ worker[on[u]].queue = << >> /\ on[u] \in Workers
          BY <2>1, <1>4, <3>1 DEF IInv, Ownership, DestroyedHasEnded
        <4> QED
          BY <4>1 DEF Turns
      <3>2. CASE pc[u] # "ended"
        BY <2>1, <3>2 DEF Turns
      <3> QED
        BY <3>1, <3>2
    <2>2. ASSUME NEW v \in Workers, worker'[v].obj = "freed"
          PROVE  worker'[v].thread = "ended" /\ worker'[v].queue = << >>
      <3>1. worker[v].thread = "ended" /\ worker[v].queue = << >>
        BY <1>1, <2>2 DEF IInv, Ownership, DestroyedHasEnded
      <3> QED
        BY <3>1 DEF Turns
    <2> QED
      BY <2>1, <2>2 DEF DestroyedHasEnded
  <1>7. CleanupIsQuiet' /\ MainCleans'
    BY Distinct DEF IInv, Lifecycle, CleanupIsQuiet, MainCleans, library
  <1>8. StreamsKept'
    BY DEF IInv, Lifecycle, StreamsKept, library
  <1>9. WorkerShape'
    BY <1>1 DEF Turns, IInv, Promises, WorkerShape
  <1> QED
    BY <1>2, <1>3, <1>5, <1>6, <1>7, <1>8, <1>9 DEF Ownership, Lifecycle

\* The type invariant after a step of a worker.
LEMMA WorkTyped ==
  ASSUME TypeOK, worker' \in [Workers -> WorkerRecords], pc' \in [Threads -> PCs],
         \A u \in Threads : pc'[u] \in {"idle", "exit", "gone"} <=> pc[u] \in {"idle", "exit", "gone"},
         content' \in [Files -> Seq(Threads \X Nat)], errors' \in 0 .. MaxErrors,
         UNCHANGED <<library, entry, stream, on, sent>>
  PROVE  TypeOK'
  BY DEF TypeOK, library, WorkerRecords

LEMMA TakeIInv ==
  ASSUME IInv, NEW w \in Workers, Take(w)
  PROVE  IInv'
  <1> DEFINE q == worker[w].queue
  <1>1. worker[w].thread = "runs" /\ q # << >> /\ q \in Seq(Tasks)
    BY DEF Take, IInv, TypeOK
  <1>2. UNCHANGED <<library, entry, stream, pc, on, sent, content, errors>>
    BY DEF Take
  <1>3. /\ Tail(q) \in Seq(Tasks) /\ Len(Tail(q)) = Len(q) - 1 /\ Len(q) \in Nat /\ Len(q) >= 1
        /\ \A i \in 1 .. Len(Tail(q)) : Tail(q)[i] = q[i + 1] /\ i + 1 \in 1 .. Len(q)
        /\ Head(q) = q[1] /\ Head(q) \in Tasks
    BY <1>1, TailFacts
  <1>4. worker' = [worker EXCEPT ![w].thread = "has task", ![w].task = Head(q), ![w].queue = Tail(q)]
    BY DEF Take
  <1>5. Turns(w, worker[w].obj, Tail(q), Head(q), "has task")
    BY <1>3, <1>4, WorkerTyped, TakeTurns DEF IInv
  <1>6. 1 \in 1 .. Len(q) /\ \A i \in 1 .. Len(Tail(q)) : i + 1 # 1
    BY <1>3
  <1>7. \A i \in 1 .. Len(q) : Awaited(q[i], w)
    BY DEF IInv, Promises, QueueAwaited
  <1>8. \A i, j \in 1 .. Len(q) : q[i].by = q[j].by => i = j
    BY DEF IInv, Promises, QueueDistinct
  <1> HIDE DEF q
  <1>9. TypeOK'
    <2>1. /\ pc' \in [Threads -> PCs] /\ content' \in [Files -> Seq(Threads \X Nat)]
          /\ errors' \in 0 .. MaxErrors
      BY <1>2 DEF IInv, TypeOK
    <2>2. worker' \in [Workers -> WorkerRecords]
      BY <1>5 DEF Turns
    <2> QED
      BY <1>2, <2>1, <2>2, WorkTyped DEF IInv
  <1>10. Ownership' /\ Lifecycle' /\ WorkerShape'
    <2> DEFINE rest == Tail(q)
               x == Head(q)
    <2>1. pc' \in [Threads -> PCs]
      BY <1>2 DEF IInv, TypeOK
    <2>2. Turns(w, worker[w].obj, rest, x, "has task") /\ worker[w].thread = "runs"
      BY <1>1, <1>5
    <2> HIDE DEF rest, x
    <2> QED
      BY <1>2, <2>1, <2>2, WorkKeeps
  <1>11. TaskAwaited'
    <2> SUFFICES ASSUME NEW v \in Workers, Busy(v)'
                 PROVE  Awaited(worker[v].task, v)'
      BY DEF TaskAwaited
    <2>1. CASE v = w
      <3>1. worker'[w].task = q[1] /\ Awaited(q[1], w)
        BY <1>3, <1>5, <1>6, <1>7 DEF Turns
      <3> QED
        BY <1>2, <2>1, <3>1 DEF Awaited
    <2>2. CASE v # w
      <3>1. worker'[v] = worker[v]
        BY <1>5, <2>2 DEF Turns
      <3>2. Awaited(worker[v].task, v)
        BY <3>1 DEF Busy, IInv, Promises, TaskAwaited
      <3> QED
        BY <1>2, <3>1, <3>2 DEF Awaited
    <2> QED
      BY <2>1, <2>2
  <1>12. QueueAwaited'
    <2> SUFFICES ASSUME NEW v \in Workers, NEW i \in 1 .. Len(worker'[v].queue)
                 PROVE  Awaited(worker[v].queue[i], v)'
      BY DEF QueueAwaited
    <2>1. CASE v = w
      <3>1. worker'[w].queue[i] = q[i + 1] /\ Awaited(q[i + 1], w)
        BY <1>3, <1>5, <1>7, <2>1 DEF Turns
      <3> QED
        BY <1>2, <2>1, <3>1 DEF Awaited
    <2>2. CASE v # w
      <3>1. worker'[v] = worker[v]
        BY <1>5, <2>2 DEF Turns
      <3>2. Awaited(worker[v].queue[i], v)
        BY <3>1 DEF IInv, Promises, QueueAwaited
      <3> QED
        BY <1>2, <3>1, <3>2 DEF Awaited
    <2> QED
      BY <2>1, <2>2
  <1>13. QueueDistinct'
    <2> SUFFICES ASSUME NEW v \in Workers, NEW i \in 1 .. Len(worker'[v].queue),
                        NEW j \in 1 .. Len(worker'[v].queue),
                        worker'[v].queue[i].by = worker'[v].queue[j].by
                 PROVE  i = j
      BY DEF QueueDistinct
    <2>1. CASE v = w
      <3>1. worker'[w].queue = Tail(q)
        BY <1>5 DEF Turns
      <3>2. i + 1 = j + 1
        BY <1>3, <1>8, <2>1, <3>1
      <3> QED
        BY <3>2
    <2>2. CASE v # w
      <3>1. worker'[v] = worker[v]
        BY <1>5, <2>2 DEF Turns
      <3> QED
        BY <3>1 DEF IInv, Promises, QueueDistinct
    <2> QED
      BY <2>1, <2>2
  <1>14. TaskNotQueued'
    <2> SUFFICES ASSUME NEW v \in Workers, NEW i \in 1 .. Len(worker'[v].queue), Busy(v)'
                 PROVE  worker'[v].queue[i].by # worker'[v].task.by
      BY DEF TaskNotQueued
    <2>1. CASE v = w
      <3>1. worker'[w].queue = Tail(q) /\ worker'[w].task = q[1]
        BY <1>3, <1>5 DEF Turns
      <3> QED
        BY <1>3, <1>6, <1>8, <2>1, <3>1
    <2>2. CASE v # w
      <3>1. worker'[v] = worker[v]
        BY <1>5, <2>2 DEF Turns
      <3>2. Busy(v)
        BY <3>1 DEF Busy
      <3> QED
        BY <3>1, <3>2 DEF IInv, Promises, TaskNotQueued
    <2> QED
      BY <2>1, <2>2
  <1> QED
    BY <1>9, <1>10, <1>11, <1>12, <1>13, <1>14 DEF IInv, Promises
LEMMA WriteIInv ==
  ASSUME IInv, NEW w \in Workers, Write(w)
  PROVE  IInv'
  <1>1. /\ worker[w].thread = "has task" /\ worker[w].task.msg # Stop
        /\ UNCHANGED <<library, entry, stream, pc, on, sent, errors>>
    BY DEF Write
  <1>2. Turns(w, worker[w].obj, worker[w].queue, worker[w].task, "written")
    BY WorkerTyped, WriteTurns DEF Write, IInv
  <1>3. worker[w].task.by \in Threads /\ worker[w].task.msg \in Nat
    BY <1>1 DEF IInv, TypeOK, Tasks, Promises, TaskAwaited, Busy, Awaited
  <1>4. content' \in [Files -> Seq(Threads \X Nat)]
    <2> DEFINE x == <<worker[w].task.by, worker[w].task.msg>>
               S == Threads \X Nat
    <2>1. content' = [content EXCEPT ![worker[w].file] = Append(@, x)]
      BY DEF Write
    <2>2. x \in S /\ content \in [Files -> Seq(S)]
      BY <1>3 DEF IInv, TypeOK
    <2> HIDE DEF x, S
    <2>3. \A f \in Files : Append(content[f], x) \in Seq(S)
      BY <2>2, AppendFacts
    <2>4. content' \in [Files -> Seq(S)]
      BY <2>1, <2>2, <2>3
    <2> QED
      BY <2>4 DEF S
  <1>5. TypeOK'
    <2>1. pc' \in [Threads -> PCs] /\ errors' \in 0 .. MaxErrors
      BY <1>1 DEF IInv, TypeOK
    <2>2. worker' \in [Workers -> WorkerRecords]
      BY <1>2 DEF Turns
    <2> QED
      BY <1>1, <1>4, <2>1, <2>2, WorkTyped DEF IInv
  <1>6. Ownership' /\ Lifecycle' /\ WorkerShape'
    <2>1. pc' \in [Threads -> PCs]
      BY <1>1 DEF IInv, TypeOK
    <2> QED
      BY <1>1, <1>2, <2>1, WorkKeeps
  <1>7. \A v \in Workers : /\ worker'[v].task = worker[v].task /\ worker'[v].queue = worker[v].queue
                           /\ Busy(v)' <=> Busy(v)
    BY <1>1, <1>2 DEF Turns, Busy
  <1>8. TaskAwaited'
    <2> SUFFICES ASSUME NEW v \in Workers, Busy(v)'
                 PROVE  Awaited(worker[v].task, v)'
      BY DEF TaskAwaited
    <2>1. Awaited(worker[v].task, v)
      BY <1>7 DEF IInv, Promises, TaskAwaited
    <2> QED
      BY <1>1, <1>7, <2>1 DEF Awaited
  <1>9. QueueAwaited'
    <2> SUFFICES ASSUME NEW v \in Workers, NEW i \in 1 .. Len(worker'[v].queue)
                 PROVE  Awaited(worker[v].queue[i], v)'
      BY DEF QueueAwaited
    <2>1. Awaited(worker[v].queue[i], v)
      BY <1>7 DEF IInv, Promises, QueueAwaited
    <2> QED
      BY <1>1, <1>7, <2>1 DEF Awaited
  <1>10. QueueDistinct'
    BY <1>7 DEF IInv, Promises, QueueDistinct
  <1>11. TaskNotQueued'
    BY <1>7 DEF IInv, Promises, TaskNotQueued
  <1> QED
    BY <1>5, <1>6, <1>8, <1>9, <1>10, <1>11 DEF IInv, Promises

\* The thread of worker w is done with its task: the one that waits for it is
\* woken.  After an empty task the queue is empty, because the thread that sent
\* it is the last to use the worker.
LEMMA DoneIInv ==
  ASSUME IInv, NEW w \in Workers, Busy(w), NEW thread \in {"runs", "ended"},
         worker' = [worker EXCEPT ![w].thread = thread, ![w].task = NoTask],
         worker[w].task.msg = Stop => thread = "ended",
         pc' = Woken(worker[w].task.by), errors' \in 0 .. MaxErrors,
         UNCHANGED <<library, entry, stream, on, sent, content>>
  PROVE  IInv'
  <1> DEFINE t == worker[w].task.by
  <1>1. Turns(w, worker[w].obj, worker[w].queue, NoTask, thread)
    BY WorkerTyped, DoneTurns DEF IInv
  <1>2. /\ t \in Threads /\ on[t] = w
        /\ \/ pc[t] = "wait"
           \/ pc[t] = "end" /\ worker[w].task.msg = Stop
    BY DEF IInv, Promises, TaskAwaited, Awaited
  <1>3. /\ \A i \in 1 .. Len(worker[w].queue) :
             worker[w].queue[i].by # t /\ Awaited(worker[w].queue[i], w)
        /\ worker[w].queue \in Seq(Tasks)
    BY DEF IInv, TypeOK, Promises, TaskNotQueued, QueueAwaited
  <1>4. pc \in [Threads -> PCs] /\ pc' = Woken(t)
    BY DEF IInv, TypeOK
  <1> HIDE DEF t
  <1>5. /\ pc' \in [Threads -> PCs] /\ \A u \in Threads : u # t => pc'[u] = pc[u]
        /\ pc[t] = "wait" => pc'[t] = "woken"
        /\ pc[t] = "end" => pc'[t] = "ended"
    BY <1>2, <1>4 DEF Woken, PCs
  <1>6. pc[t] = "end" => thread = "ended" /\ worker[w].queue = << >>
    <2> SUFFICES ASSUME pc[t] = "end", worker[w].queue # << >>
                 PROVE  FALSE
      BY <1>2
    <2>1. 1 \in 1 .. Len(worker[w].queue)
      BY <1>3
    <2>2. /\ worker[w].queue[1].by # t /\ worker[w].queue[1].by \in Threads
          /\ on[worker[w].queue[1].by] = w
      BY <1>3, <2>1 DEF Awaited
    <2> QED
      BY <1>2, <2>2 DEF IInv, Ownership, DestroyerIsLast
  <1>7. TypeOK'
    <2>1. worker' \in [Workers -> WorkerRecords] /\ content' \in [Files -> Seq(Threads \X Nat)]
      BY <1>1 DEF Turns, IInv, TypeOK
    <2>2. \A u \in Threads : pc'[u] \in {"idle", "exit", "gone"} <=> pc[u] \in {"idle", "exit", "gone"}
      BY <1>2, <1>5
    <2> QED
      BY <1>5, <2>1, <2>2, WorkTyped DEF IInv
  <1>8. Ownership' /\ Lifecycle' /\ WorkerShape'
    <2>1. \A u \in Threads : \/ pc'[u] = pc[u]
                             \/ pc[u] = "wait" /\ pc'[u] = "woken"
                             \/ /\ pc[u] = "end" /\ pc'[u] = "ended" /\ on[u] = w
                                /\ thread = "ended" /\ worker[w].queue = << >>
      BY <1>2, <1>5, <1>6
    <2>2. worker[w].thread \notin {"none", "ended"} /\ thread \notin {"none", "written"}
      BY DEF Busy
    <2> QED
      BY <1>1, <1>5, <2>1, <2>2, WorkKeeps
  <1>9. \A v \in Workers : /\ Busy(v)' => v # w /\ worker'[v] = worker[v] /\ Busy(v)
                           /\ worker'[v].queue = worker[v].queue
    BY <1>1 DEF Turns, Busy
  <1>10. TaskAwaited'
    <2> SUFFICES ASSUME NEW v \in Workers, Busy(v)'
                 PROVE  Awaited(worker[v].task, v)'
      BY DEF TaskAwaited
    <2>1. /\ Awaited(worker[v].task, v) /\ v # w /\ worker'[v] = worker[v]
      BY <1>9 DEF IInv, Promises, TaskAwaited
    <2>2. worker[v].task.by # t
      BY <1>2, <2>1 DEF Awaited
    <2> QED
      BY <1>5, <2>1, <2>2 DEF Awaited
  <1>11. QueueAwaited'
    <2> SUFFICES ASSUME NEW v \in Workers, NEW i \in 1 .. Len(worker'[v].queue)
                 PROVE  Awaited(worker[v].queue[i], v)'
      BY DEF QueueAwaited
    <2>1. Awaited(worker[v].queue[i], v) /\ worker'[v].queue[i] = worker[v].queue[i]
      BY <1>9 DEF IInv, Promises, QueueAwaited
    <2>2. worker[v].queue[i].by # t
      <3>1. CASE v = w
        <4>1. i \in 1 .. Len(worker[w].queue)
          BY <1>9, <3>1
        <4> QED
          BY <1>3, <3>1, <4>1
      <3>2. CASE v # w
        BY <1>2, <2>1, <3>2 DEF Awaited
      <3> QED
        BY <3>1, <3>2
    <2> QED
      BY <1>5, <2>1, <2>2 DEF Awaited
  <1>12. QueueDistinct'
    BY <1>9 DEF IInv, Promises, QueueDistinct
  <1>13. TaskNotQueued'
    BY <1>9 DEF IInv, Promises, TaskNotQueued
  <1> QED
    BY <1>7, <1>8, <1>10, <1>11, <1>12, <1>13 DEF IInv, Promises

LEMMA WorkerStepIInv ==
  ASSUME IInv, NEW w \in Workers, WorkerStep(w)
  PROVE  IInv'
  <1>1. CASE Take(w) \/ Write(w)
    BY <1>1, TakeIInv, WriteIInv
  <1>2. CASE SetValue(w)
    <2>1. Busy(w) /\ worker[w].task.msg # Stop /\ errors' \in 0 .. MaxErrors
      BY <1>2 DEF SetValue, Busy, IInv, TypeOK, Promises, WorkerShape
    <2> QED
      BY <1>2, <2>1, DoneIInv DEF SetValue
  <1>3. CASE WriteFails(w)
    <2>1. errors \in 0 .. MaxErrors /\ errors' = errors + 1 /\ errors < MaxErrors
      BY <1>3 DEF WriteFails, IInv, TypeOK
    <2>2. errors' \in 0 .. MaxErrors
      BY <2>1, Bounds
    <2>3. Busy(w)
      BY <1>3 DEF WriteFails, Busy
    <2> QED
      BY <1>3, <2>2, <2>3, DoneIInv DEF WriteFails
  <1>4. CASE Close(w)
    <2>1. Busy(w) /\ errors' \in 0 .. MaxErrors
      BY <1>4 DEF Close, Busy, IInv, TypeOK
    <2> QED
      BY <1>4, <2>1, DoneIInv DEF Close
  <1> QED
    BY <1>1, <1>2, <1>3, <1>4 DEF WorkerStep

------------------------------------------------------------------------------
(* The invariant, and the first theorems *)

LEMMA StepIInv == IInv /\ [Next]_vars => IInv'
  <1> SUFFICES ASSUME IInv, [Next]_vars PROVE IInv'
    OBVIOUS
  <1>1. CASE Setup \/ Cleanup
    BY <1>1, SetupIInv, LibraryIInv
  <1>2. CASE MainStep
    <2>1. CASE LibraryLog
      BY <2>1, GetOSIInv, Distinct DEF LibraryLog
    <2> QED
      BY <1>2, <2>1, LibraryIInv, ClearEntryIInv DEF MainStep
  <1>3. ASSUME NEW t \in Threads, NEW k \in Kinds, LogCall(t, k)
        PROVE  IInv'
    BY <1>3, GetOSIInv DEF LogCall
  <1>4. ASSUME NEW t \in Threads, Exit(t) \/ ThreadStep(t)
        PROVE  IInv'
    BY <1>4, ExitIInv, SendIInv, SendReturnIInv, DestroyedIInv, DestroyStreamIInv DEF ThreadStep
  <1>5. CASE Over \/ UNCHANGED vars
    BY <1>5, StutterIInv DEF Over
  <1> QED
    BY <1>1, <1>2, <1>3, <1>4, <1>5, WorkerStepIInv DEF Next

\* The invariant holds over any number of sessions: who shares a worker, who
\* waits for the tasks in it, and what rocfft_cleanup can rely on.
THEOREM Inductive == Spec => []IInv
  BY InitIInv, StepIInv, PTL DEF Spec

\* A thread points to a worker exactly while it sends to it or destroys it,
\* and no message is sent or written that is not a message.
THEOREM TypeCorrect == Spec => []TypeOK
  <1>1. IInv => TypeOK
    BY DEF IInv
  <1> QED
    BY <1>1, Inductive, PTL

\* A worker of rocfft_ostream is not used after its destructor has freed it,
\* whichever thread drops the last pointer to it and in whichever session.
THEOREM NoUseAfterFree == Spec => []FreedIsUnused
  BY Inductive, IInvFreed, PTL
------------------------------------------------------------------------------
(* The refinement: what a step does to the flushes of the abstract log *)

Call(at, f, n) == [at |-> at, file |-> f, msg |-> n]

\* The worker's thread has written the message of u, and u does not know yet.
WrittenFor(u) == worker[on[u]].thread = "written" /\ worker[on[u]].task.by = u

LEMMA CallIs ==
  ASSUME NEW u \in Threads
  PROVE  /\ pc[u] # "wait" => CallOf(u) = Call("none", None, 0)
         /\ pc[u] = "wait" /\ WrittenFor(u) => CallOf(u) = Call("written", worker[on[u]].file, sent[u])
         /\ pc[u] = "wait" /\ ~WrittenFor(u) => CallOf(u) = Call("started", worker[on[u]].file, sent[u])
  BY DEF CallOf, Call, WrittenFor

LEMMA CallIsNext ==
  ASSUME NEW u \in Threads
  PROVE  /\ pc'[u] # "wait" => CallOf(u)' = Call("none", None, 0)
         /\ pc'[u] = "wait" /\ WrittenFor(u)' =>
              CallOf(u)' = Call("written", worker'[on'[u]].file, sent'[u])
         /\ pc'[u] = "wait" /\ ~WrittenFor(u)' =>
              CallOf(u)' = Call("started", worker'[on'[u]].file, sent'[u])
  BY DEF CallOf, Call, WrittenFor

\* A thread that waits before and after a step that its worker does not notice.
SeesNothing(u) ==
  /\ pc'[u] = "wait" <=> pc[u] = "wait"
  /\ pc[u] = "wait" => /\ on'[u] = on[u] /\ sent'[u] = sent[u]
                       /\ worker'[on[u]].file = worker[on[u]].file
                       /\ WrittenFor(u)' <=> WrittenFor(u)

LEMMA CallKept ==
  ASSUME NEW u \in Threads, SeesNothing(u)
  PROVE  CallOf(u)' = CallOf(u)
  BY CallIs, CallIsNext DEF SeesNothing

LEMMA LogStutters ==
  ASSUME \A u \in Threads : SeesNothing(u), UNCHANGED <<content, sent>>
  PROVE  UNCHANGED AbstractLog!logVars
  <1>1. \A u \in Threads : CallOf(u)' = CallOf(u)
    BY CallKept
  <1>2. [u \in Threads |-> CallOf(u)]' = [u \in Threads |-> CallOf(u)]
    BY <1>1
  <1> QED
    BY <1>2 DEF AbstractLog!logVars

\* The flush of thread t, and no other, changes.
LEMMA CallChanges ==
  ASSUME NEW t \in Threads, NEW c, CallOf(t)' = c,
         \A u \in Threads : u # t => SeesNothing(u)
  PROVE  [u \in Threads |-> CallOf(u)]' = [[u \in Threads |-> CallOf(u)] EXCEPT ![t] = c]
  <1>1. \A u \in Threads : u # t => CallOf(u)' = CallOf(u)
    BY CallKept
  <1> QED
    BY <1>1

LEMMA InitRefines == Init => AbstractLog!Init
  <1> SUFFICES ASSUME Init PROVE AbstractLog!Init
    OBVIOUS
  <1>1. \A u \in Threads : CallOf(u) = Call("none", None, 0)
    BY CallIs DEF Init
  <1> QED
    BY <1>1 DEF Init, Call, AbstractLog!Init, AbstractLog!Quiet, AbstractLog!Flush

LEMMA SetupRefines ==
  ASSUME IInv, Setup
  PROVE  AbstractLog!Truncate
  <1>1. \A u \in Threads : CallOf(u) = AbstractLog!Quiet
    <2>1. \A u \in Threads : pc[u] # "wait"
      BY DEF Setup, IInv, Lifecycle, CleanupIsQuiet
    <2> QED
      BY <2>1, CallIs DEF Call, AbstractLog!Quiet, AbstractLog!Flush
  <1>2. \E F \in SUBSET Files : content' = [f \in Files |-> IF f \in F THEN << >> ELSE content[f]]
    <2>1. PICK L \in SUBSET Kinds : \E o \in [L -> (Files \ {Stderr}) \cup {None}] :
            content' = [f \in Files |-> IF \E k \in L : o[k] = f THEN << >> ELSE content[f]]
      BY DEF Setup
    <2>2. PICK o \in [L -> (Files \ {Stderr}) \cup {None}] :
            content' = [f \in Files |-> IF \E k \in L : o[k] = f THEN << >> ELSE content[f]]
      BY <2>1
    <2> DEFINE F == {f \in Files : \E k \in L : o[k] = f}
    <2>3. content' = [f \in Files |-> IF f \in F THEN << >> ELSE content[f]]
      BY <2>2
    <2>4. F \in SUBSET Files
      OBVIOUS
    <2> QED
      BY <2>3, <2>4
  <1>3. UNCHANGED <<sent, [u \in Threads |-> CallOf(u)]>>
    <2>1. \A u \in Threads : SeesNothing(u)
      BY DEF Setup, SeesNothing, WrittenFor
    <2>2. \A u \in Threads : CallOf(u)' = CallOf(u)
      BY <2>1, CallKept
    <2> QED
      BY <2>2 DEF Setup
  <1> QED
    BY <1>1, <1>2, <1>3 DEF AbstractLog!Truncate

\* Steps that leave the workers' threads alone, and nobody begins to wait.
LEMMA ElsewhereRefines ==
  ASSUME \A v \in Workers : /\ worker'[v].file = worker[v].file /\ worker'[v].task = worker[v].task
                            /\ worker'[v].thread = worker[v].thread,
         IInv,
         \A u \in Threads : pc'[u] = "wait" <=> pc[u] = "wait",
         \A u \in Threads : pc[u] = "wait" => on'[u] = on[u],
         UNCHANGED <<content, sent>>
  PROVE  UNCHANGED AbstractLog!logVars
  <1>1. \A u \in Threads : pc[u] = "wait" => on[u] \in Workers
    BY UserFacts
  <1>2. \A u \in Threads : SeesNothing(u)
    BY <1>1 DEF SeesNothing, WrittenFor
  <1> QED
    BY <1>2, LogStutters

LEMMA DropRefines ==
  ASSUME IInv, NEW t \in Threads, NEW w \in Workers, NEW last, Drop(t, w, last),
         pc[t] # "wait", UNCHANGED <<content, sent>>
  PROVE  UNCHANGED AbstractLog!logVars
  <1>1. CASE ~last
    BY <1>1, ElsewhereRefines DEF Drop
  <1>2. CASE last
    <2>1. worker[w].queue \in Seq(Tasks) /\ Stop \in Nat
      BY DEF IInv, TypeOK, Stop
    <2>2. Append(worker[w].queue, Task(t, Stop)) \in Seq(Tasks)
      BY <2>1, TaskType, AppendFacts
    <2>3. Turns(w, "dying", Append(worker[w].queue, Task(t, Stop)), worker[w].task, worker[w].thread)
      BY <1>2, <2>2, WorkerTyped, DropTurns DEF Drop, IInv
    <2>4. \A v \in Workers : /\ worker'[v].file = worker[v].file /\ worker'[v].task = worker[v].task
                             /\ worker'[v].thread = worker[v].thread
      BY <2>3 DEF Turns
    <2>5. /\ pc'[t] = "end" /\ \A u \in Threads : u # t => pc'[u] = pc[u] /\ on'[u] = on[u]
      BY <1>2 DEF Drop, IInv, TypeOK
    <2> QED
      BY <2>4, <2>5, ElsewhereRefines
  <1> QED
    BY <1>1, <1>2

\* A thread's stream is found or made; a new worker has no task.
LEMMA GetOSRefines ==
  ASSUME IInv, NEW t \in Threads, NEW k \in Kinds, GetOS(t, k)
  PROVE  UNCHANGED AbstractLog!logVars
  <1>1. /\ pc[t] = "idle" /\ pc' = [pc EXCEPT ![t] = "flush"] /\ UNCHANGED <<content, sent>>
        /\ \E w : on' = [on EXCEPT ![t] = w]
    BY DEF GetOS, GetWorker, NewWorker
  <1>2. \A v \in Workers : worker[v].obj # "none" => worker'[v] = worker[v]
    BY DEF GetOS, GetWorker, NewWorker, IInv, TypeOK
  <1>3. \A u \in Threads : /\ pc'[u] = "wait" <=> pc[u] = "wait"
                           /\ pc[u] = "wait" => /\ on'[u] = on[u] /\ on[u] \in Workers
                                                /\ worker[on[u]].obj # "none"
    BY <1>1, UserFacts DEF IInv, TypeOK
  <1>4. \A u \in Threads : SeesNothing(u)
    BY <1>1, <1>2, <1>3 DEF SeesNothing, WrittenFor
  <1> QED
    BY <1>1, <1>4, LogStutters
\* rocfft_cleanup, the ends of flushes, and threads that end.
LEMMA OutsideRefines ==
  ASSUME IInv, NEW t \in Threads,
         Cleanup \/ CloseLogs \/ CleanupReturn \/ SendReturn(t) \/ Exit(t) \/ Gone(t) \/ UNCHANGED vars
  PROVE  UNCHANGED AbstractLog!logVars
  <1> USE DEF Cleanup, CloseLogs, CleanupReturn, SendReturn, Exit, Gone, vars
  <1>1. worker' = worker /\ UNCHANGED <<content, sent>>
    OBVIOUS
  <1>2. \A u \in Threads : /\ pc'[u] = "wait" <=> pc[u] = "wait"
                           /\ pc[u] = "wait" => on'[u] = on[u]
    BY DEF IInv, TypeOK
  <1> QED
    BY <1>1, <1>2, ElsewhereRefines

LEMMA DestroyedRefines ==
  ASSUME IInv, NEW t \in Threads, Destroyed(t)
  PROVE  UNCHANGED AbstractLog!logVars
  <1>1. on[t] \in Workers /\ pc[t] = "ended"
    BY UserFacts DEF Destroyed
  <1>2. Turns(on[t], "freed", worker[on[t]].queue, worker[on[t]].task, worker[on[t]].thread)
    BY <1>1, WorkerTyped, FreeTurns DEF Destroyed, Free, IInv
  <1>3. \A v \in Workers : /\ worker'[v].file = worker[v].file /\ worker'[v].task = worker[v].task
                           /\ worker'[v].thread = worker[v].thread
    BY <1>1, <1>2 DEF Turns
  <1>4. \A u \in Threads : /\ pc'[u] = "wait" <=> pc[u] = "wait"
                           /\ pc[u] = "wait" => on'[u] = on[u]
    BY <1>1 DEF Destroyed, Free, IInv, TypeOK
  <1>5. UNCHANGED <<content, sent>>
    BY DEF Destroyed, Free
  <1> QED
    BY <1>3, <1>4, <1>5, ElsewhereRefines

\* The thread of worker w goes on with a task that is not written, or is empty.
LEMMA TakeRefines ==
  ASSUME IInv, NEW w \in Workers, Take(w) \/ Close(w)
  PROVE  UNCHANGED AbstractLog!logVars
  <1>1. UNCHANGED <<on, content, sent>> /\ worker[w].thread # "written"
    BY DEF Take, Close
  <1>2. /\ worker'[w].thread # "written" /\ worker'[w].file = worker[w].file
        /\ \A v \in Workers : v # w => worker'[v] = worker[v]
    <2>1. CASE Take(w)
      <3>1. worker[w].queue \in Seq(Tasks) /\ worker[w].queue # << >>
        BY <2>1 DEF Take, IInv, TypeOK
      <3>2. Head(worker[w].queue) \in Tasks /\ Tail(worker[w].queue) \in Seq(Tasks)
        BY <3>1
      <3>3. Turns(w, worker[w].obj, Tail(worker[w].queue), Head(worker[w].queue), "has task")
        BY <2>1, <3>2, WorkerTyped, TakeTurns DEF Take, IInv
      <3> QED
        BY <3>3 DEF Turns
    <2>2. CASE Close(w)
      <3>1. Turns(w, worker[w].obj, worker[w].queue, NoTask, "ended")
        BY <2>2, WorkerTyped, DoneTurns DEF Close, IInv
      <3> QED
        BY <3>1 DEF Turns
    <2> QED
      BY <2>1, <2>2
  <1>3. \A u \in Threads : pc'[u] = "wait" <=> pc[u] = "wait"
    <2>1. CASE Take(w)
      BY <2>1 DEF Take
    <2>2. CASE Close(w)
      <3>1. worker[w].task.by \in Threads /\ pc[worker[w].task.by] = "end"
        BY <2>2 DEF Close, IInv, Promises, TaskAwaited, Busy, Awaited
      <3> QED
        BY <2>2, <3>1 DEF Close, Woken, IInv, TypeOK
    <2> QED
      BY <2>1, <2>2
  <1>4. \A u \in Threads : pc[u] = "wait" => on[u] \in Workers
    BY UserFacts
  <1>5. \A u \in Threads : SeesNothing(u)
    BY <1>1, <1>2, <1>3, <1>4 DEF SeesNothing, WrittenFor
  <1> QED
    BY <1>1, <1>5, LogStutters

LEMMA SendRefines ==
  ASSUME IInv, NEW t \in Threads, Send(t)
  PROVE  AbstractLog!Start(t)
  <1> DEFINE w == on[t]
             f == worker[w].file
  <1>1. w \in Workers /\ f \in Files /\ pc[t] = "flush"
    BY UserFacts DEF Send
  <1>2. /\ UNCHANGED <<on, content>> /\ sent' = [sent EXCEPT ![t] = @ + 1]
        /\ pc' = [pc EXCEPT ![t] = "wait"]
    BY DEF Send
  <1>3. \A v \in Workers : /\ worker'[v].file = worker[v].file /\ worker'[v].task = worker[v].task
                           /\ worker'[v].thread = worker[v].thread
    BY <1>1 DEF Send, IInv, TypeOK
  <1>4. /\ pc'[t] = "wait" /\ sent'[t] = sent[t] + 1
        /\ \A u \in Threads : u # t => pc'[u] = pc[u] /\ sent'[u] = sent[u]
    BY <1>2 DEF IInv, TypeOK
  <1>5. ~WrittenFor(t)'
    <2>1. worker[w].thread = "written" => worker[w].task.by # t
      BY <1>1 DEF IInv, Promises, TaskAwaited, Busy, Awaited
    <2> QED
      BY <1>1, <1>2, <1>3, <2>1 DEF WrittenFor
  <1>6. CallOf(t)' = Call("started", f, sent[t] + 1)
    BY <1>1, <1>2, <1>3, <1>4, <1>5, CallIsNext
  <1>7. \A u \in Threads : u # t => SeesNothing(u)
    <2>1. \A u \in Threads : pc[u] = "wait" => on[u] \in Workers
      BY UserFacts
    <2> QED
      BY <1>2, <1>3, <1>4, <2>1 DEF SeesNothing, WrittenFor
  <1>8. [u \in Threads |-> CallOf(u)]' =
          [[u \in Threads |-> CallOf(u)] EXCEPT ![t] = Call("started", f, sent[t] + 1)]
    BY <1>6, <1>7, CallChanges
  <1>9. CallOf(t).at = "none"
    BY <1>1, CallIs DEF Call
  <1> HIDE DEF f, w
  <1> QED
    BY <1>1, <1>2, <1>8, <1>9 DEF Call, AbstractLog!Start, AbstractLog!Flush

\* What a worker's thread has, and what it does to the flush of the thread
\* that sent it.
LEMMA TaskCall ==
  ASSUME IInv, NEW w \in Workers, Busy(w), worker[w].task.msg # Stop
  PROVE  /\ worker[w].task.by \in Threads /\ on[worker[w].task.by] = w
         /\ pc[worker[w].task.by] = "wait" /\ worker[w].task.msg = sent[worker[w].task.by]
         /\ worker[w].file \in Files
         /\ CallOf(worker[w].task.by) =
              Call(IF worker[w].thread = "written" THEN "written" ELSE "started",
                   worker[w].file, worker[w].task.msg)
  <1> DEFINE t == worker[w].task.by
  <1>1. t \in Threads /\ on[t] = w /\ pc[t] = "wait" /\ worker[w].task.msg = sent[t]
    BY DEF IInv, Promises, TaskAwaited, Awaited
  <1>2. worker[w].file \in Files
    BY <1>1, UserFacts
  <1>3. WrittenFor(t) <=> worker[w].thread = "written"
    BY <1>1 DEF WrittenFor
  <1> QED
    BY <1>1, <1>2, <1>3, CallIs

LEMMA WriteRefines ==
  ASSUME IInv, NEW w \in Workers, Write(w)
  PROVE  \E t \in Threads : AbstractLog!Append1(t)
  <1>0. PICK t \in Threads, f \in Files, n \in {worker[w].task.msg} :
          t = worker[w].task.by /\ f = worker[w].file
    BY TaskCall DEF Write, Busy
  <1>1. /\ on[t] = w /\ pc[t] = "wait" /\ n = sent[t] /\ n = worker[w].task.msg
        /\ CallOf(t) = Call("started", f, n)
    BY <1>0, TaskCall DEF Write, Busy
  <1>2. /\ UNCHANGED <<pc, on, sent>>
        /\ content' = [content EXCEPT ![f] = Append(@, <<t, n>>)]
    BY <1>0, <1>1 DEF Write
  <1>3. Turns(w, worker[w].obj, worker[w].queue, worker[w].task, "written")
    BY WorkerTyped, WriteTurns DEF Write, IInv
  <1>4. /\ worker'[w].thread = "written" /\ worker'[w].task.by = t /\ worker'[w].file = f
        /\ \A v \in Workers : v # w => worker'[v] = worker[v]
    BY <1>0, <1>3 DEF Turns
  <1>5. CallOf(t)' = Call("written", f, n)
    <2>1. WrittenFor(t)'
      BY <1>1, <1>2, <1>4 DEF WrittenFor
    <2> QED
      BY <1>1, <1>2, <1>4, <2>1, CallIsNext
  <1>6. \A u \in Threads : u # t => SeesNothing(u)
    <2>1. \A u \in Threads : pc[u] = "wait" => on[u] \in Workers
      BY UserFacts
    <2>2. worker[w].thread # "written"
      BY DEF Write
    <2> QED
      BY <1>0, <1>2, <1>4, <2>1, <2>2 DEF SeesNothing, WrittenFor
  <1>7. [u \in Threads |-> CallOf(u)]' =
          [[u \in Threads |-> CallOf(u)] EXCEPT ![t] = Call("written", f, n)]
    BY <1>1, <1>5, <1>6, CallChanges
  <1>8. CallOf(t).at = "started" /\ CallOf(t).file = f /\ CallOf(t).msg = n
    BY <1>1 DEF Call
  <1>9. AbstractLog!Append1(t)
    BY <1>1, <1>2, <1>7, <1>8 DEF Call, AbstractLog!Append1, AbstractLog!Flush
  <1> QED
    BY <1>1, <1>9

\* SetValue returns a flush; WriteFails loses its message.
LEMMA DoneRefines ==
  ASSUME IInv, NEW w \in Workers, SetValue(w) \/ WriteFails(w)
  PROVE  \E t \in Threads : AbstractLog!Return(t) \/ AbstractLog!Lose(t)
  <1>0. Busy(w) /\ worker[w].task.msg # Stop
    BY DEF SetValue, WriteFails, Busy, IInv, Promises, WorkerShape
  <1> PICK t \in Threads : t = worker[w].task.by
    BY <1>0, TaskCall
  <1>1. UNCHANGED <<on, sent, content>> /\ pc' = Woken(t)
    BY DEF SetValue, WriteFails
  <1>2. /\ on[t] = w /\ pc[t] = "wait"
        /\ CallOf(t) = Call(IF worker[w].thread = "written" THEN "written" ELSE "started",
                            worker[w].file, worker[w].task.msg)
    BY <1>0, TaskCall
  <1>3. PICK thread \in {"runs", "ended"} :
          worker' = [worker EXCEPT ![w].thread = thread, ![w].task = NoTask]
    BY DEF SetValue, WriteFails
  <1>4. Turns(w, worker[w].obj, worker[w].queue, NoTask, thread)
    BY <1>3, WorkerTyped, DoneTurns DEF IInv
  <1>5. /\ worker'[w].thread # "written" /\ worker'[w].file = worker[w].file
        /\ \A v \in Workers : v # w => worker'[v] = worker[v]
    BY <1>4 DEF Turns
  <1>6. pc'[t] = "woken" /\ \A u \in Threads : u # t => pc'[u] = pc[u]
    BY <1>1, <1>2 DEF Woken, IInv, TypeOK
  <1>7. CallOf(t)' = Call("none", None, 0)
    BY <1>2, <1>6, CallIsNext
  <1>8. \A u \in Threads : u # t => SeesNothing(u)
    <2>1. \A u \in Threads : pc[u] = "wait" => on[u] \in Workers
      BY UserFacts
    <2>2. \A u \in Threads : u # t => (on[u] = w => ~WrittenFor(u))
      BY DEF WrittenFor
    <2> QED
      BY <1>1, <1>5, <1>6, <2>1, <2>2 DEF SeesNothing, WrittenFor
  <1>9. [u \in Threads |-> CallOf(u)]' =
          [[u \in Threads |-> CallOf(u)] EXCEPT ![t] = Call("none", None, 0)]
    BY <1>2, <1>7, <1>8, CallChanges
  <1>10. CallOf(t).at \in {"written", "started"}
    BY <1>2 DEF Call
  <1>11. AbstractLog!Return(t) \/ AbstractLog!Lose(t)
    BY <1>1, <1>2, <1>9, <1>10
    DEF Call, AbstractLog!Return, AbstractLog!Lose, AbstractLog!Quiet, AbstractLog!Flush
  <1> QED
    BY <1>2, <1>11

LEMMA StepRefines == IInv /\ [Next]_vars => [AbstractLog!Next]_(AbstractLog!logVars)
  <1> SUFFICES ASSUME IInv, [Next]_vars PROVE AbstractLog!Next \/ UNCHANGED AbstractLog!logVars
    OBVIOUS
  <1>1. CASE Setup
    BY <1>1, SetupRefines DEF AbstractLog!Next
  <1>2. CASE Cleanup \/ CloseLogs \/ CleanupReturn \/ UNCHANGED vars \/ Over
    BY <1>2, OutsideRefines, Distinct DEF Over
  <1>3. CASE LibraryLog
    BY <1>3, GetOSRefines, Distinct DEF LibraryLog
  <1>4. ASSUME NEW f \in Files, ClearEntry(f)
        PROVE  UNCHANGED AbstractLog!logVars
    <2>1. /\ Main \in Threads /\ entry[f] \in Workers /\ pc[Main] # "wait"
          /\ Drop(Main, entry[f], Owners(entry[f]) = {f}) /\ UNCHANGED <<content, sent>>
      BY <1>4, Distinct DEF ClearEntry, IInv, TypeOK
    <2> QED
      BY <2>1, DropRefines
  <1>5. ASSUME NEW t \in Threads, NEW k \in Kinds, LogCall(t, k)
        PROVE  UNCHANGED AbstractLog!logVars
    BY <1>5, GetOSRefines DEF LogCall
  <1>6. ASSUME NEW t \in Threads, Exit(t) \/ SendReturn(t) \/ Destroyed(t) \/ Gone(t)
        PROVE  UNCHANGED AbstractLog!logVars
    BY <1>6, OutsideRefines, DestroyedRefines
  <1>7. ASSUME NEW t \in Threads, NEW s \in Streams, DestroyStream(t, s)
        PROVE  UNCHANGED AbstractLog!logVars
    <2> DEFINE w == stream[<<t, s>>]
    <2>1. w \in Workers \cup {Unborn} /\ pc[t] = "exit" /\ UNCHANGED <<content, sent>>
      BY <1>7 DEF DestroyStream, IInv, TypeOK, Slots
    <2>2. CASE w = Unborn
      BY <1>7, <2>1, <2>2, ElsewhereRefines DEF DestroyStream
    <2>3. CASE w # Unborn
      <3>1. w \in Workers /\ Drop(t, w, Owners(w) = {<<t, s>>})
        BY <1>7, <2>1, <2>3 DEF DestroyStream
      <3> QED
        BY <2>1, <3>1, DropRefines
    <2> QED
      BY <2>2, <2>3
  <1>8. ASSUME NEW t \in Threads, Send(t)
        PROVE  AbstractLog!Next
    BY <1>8, SendRefines DEF AbstractLog!Next
  <1>9. ASSUME NEW w \in Workers, WorkerStep(w)
        PROVE  AbstractLog!Next \/ UNCHANGED AbstractLog!logVars
    <2>1. CASE Take(w) \/ Close(w)
      BY <2>1, TakeRefines
    <2>2. CASE Write(w)
      BY <2>2, WriteRefines DEF AbstractLog!Next
    <2>3. CASE SetValue(w) \/ WriteFails(w)
      BY <2>3, DoneRefines DEF AbstractLog!Next
    <2> QED
      BY <1>9, <2>1, <2>2, <2>3 DEF WorkerStep
  <1> QED
    BY <1>1, <1>2, <1>3, <1>4, <1>5, <1>6, <1>7, <1>8, <1>9 DEF Next, MainStep, ThreadStep

\* The streams, their workers and the library around them do what Log says: a
\* flush puts its message in its file, whole and once, before it returns, or
\* meets an error; files are emptied by rocfft_setup only, when nobody logs.
THEOREM StreamsImplementLog == Spec => ImplementsLog
  BY InitRefines, StepRefines, Inductive, PTL DEF Spec, ImplementsLog, AbstractLog!Safe

LogFacts == INSTANCE Log_proofs WITH call <- [t \in Threads |-> CallOf(t)]

\* So the log files of the library have the messages of every thread in the
\* order of its log calls, none of them twice, over any number of sessions.
THEOREM LogFilesAreRight ==
  Spec => [](LogFacts!Ordered /\ LogFacts!Once /\ LogFacts!WrittenIsThere)
  <1>1. AbstractLog!Init => LogFacts!Init
    BY DEF AbstractLog!Init, LogFacts!Init, AbstractLog!Quiet, LogFacts!Quiet,
           AbstractLog!Flush, LogFacts!Flush
  <1>2. [AbstractLog!Next]_(AbstractLog!logVars) => [LogFacts!Next]_(LogFacts!logVars)
    BY DEF AbstractLog!Next, LogFacts!Next, AbstractLog!logVars, LogFacts!logVars,
           AbstractLog!Start, LogFacts!Start, AbstractLog!Append1, LogFacts!Append1,
           AbstractLog!Lose, LogFacts!Lose, AbstractLog!Return, LogFacts!Return,
           AbstractLog!Truncate, LogFacts!Truncate, AbstractLog!Quiet, LogFacts!Quiet,
           AbstractLog!Flush, LogFacts!Flush
  <1>3. ImplementsLog => LogFacts!Safe
    BY <1>1, <1>2, PTL DEF ImplementsLog, AbstractLog!Safe, LogFacts!Safe
  <1> QED
    BY <1>3, StreamsImplementLog, LogFacts!FilesAreRight, PTL
==============================================================================
