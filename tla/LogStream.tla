------------------------------- MODULE LogStream -------------------------------
(***************************************************************************)
(* The log streams of the library (class rocfft_ostream).  Every thread    *)
(* has a stream of its own for each kind of log, made at its first use and *)
(* kept until the thread ends.  A stream holds a shared pointer to the     *)
(* worker of its file; so does the map of workers, from rocfft_setup to    *)
(* rocfft_cleanup.  A flush gives the worker's thread a task and waits for *)
(* its future.  The worker is destroyed by whoever drops the last pointer: *)
(* the destructor sends an empty task, which ends the worker's thread, and *)
(* waits for it.                                                           *)
(*                                                                         *)
(* As its comment asks, rocfft_cleanup is called when no other thread is   *)
(* in the library; the threads, and their streams, may well live on, or    *)
(* end while it runs.                                                      *)
(***************************************************************************)
EXTENDS Naturals, Sequences, FiniteSets

CONSTANTS
  Threads,     \* threads of the application
  Main,        \* the one that calls rocfft_setup and rocfft_cleanup
  Kinds,       \* kinds of log: trace, bench, plan, ...
  Trace,       \* the kind rocfft_setup and rocfft_cleanup write to
  Files,       \* files, told apart by device and inode
  Stderr,      \* the file of rocfft_cerr
  None,        \* no worker, no file, no task
  Unborn,      \* a thread_local stream that is not constructed yet
  MaxSends,    \* bound: messages a thread sends of its own accord
  MaxSessions, \* bound: calls of rocfft_setup
  MaxErrors    \* bound: writes that fail

\* A worker is made for a map entry, so a session makes at most one per file.
Workers == 1 .. MaxSessions * Cardinality(Files)

ASSUME LogAssumption ==
  /\ Main \in Threads /\ Stderr \in Files /\ Trace \in Kinds /\ Stderr \notin Kinds
  /\ IsFiniteSet(Threads) /\ IsFiniteSet(Kinds) /\ IsFiniteSet(Files)
  /\ Files \cap (Threads \X (Kinds \cup {Stderr})) = {}
  /\ None \notin Files \cup Workers \cup Threads /\ Unborn \notin Workers /\ None # Unborn
  /\ MaxSends \in Nat /\ MaxSessions \in Nat /\ MaxErrors \in Nat

VARIABLES
  lib,      \* "down", "starting", "up", "stopping", "closing" or "clearing"
  sessions, \* calls of rocfft_setup so far
  layers,   \* the layer mode: the kinds of log that are on
  fd,       \* fd[k]: the file of log_trace_fd, ..., or None for -1
  entry,    \* worker_map
  stream,   \* stream[<<t, s>>]: the worker of a thread's stream
  worker,   \* worker[w]: [obj, file, queue, task, thread]
  pc,       \* pc[t]: where thread t is
  on,       \* on[t]: the worker thread t is sending to
  sent,     \* sent[t]: messages sent by thread t
  content,  \* content[f]: what is in file f
  errors    \* writes that failed so far

library == <<lib, sessions, layers, fd>>
vars == <<lib, sessions, layers, fd, entry, stream, worker, pc, on, sent, content, errors>>

\* A thread's streams: one per kind of log, and rocfft_cerr.
Streams == Kinds \cup {Stderr}
Slots == Threads \X Streams

\* An empty string: the worker's thread is to end.
Stop == 0

Task(t, msg) == [by |-> t, msg |-> msg]
NoTask == [by |-> None, msg |-> Stop]

NoWorker == [obj |-> "none", file |-> None, queue |-> << >>, task |-> NoTask, thread |-> "none"]

Init ==
  /\ lib = "down" /\ sessions = 0 /\ layers = {} /\ errors = 0
  /\ fd = [k \in Kinds |-> None]
  /\ entry = [f \in Files |-> None]
  /\ stream = [s \in Slots |-> Unborn]
  /\ worker = [w \in Workers |-> NoWorker]
  /\ pc = [t \in Threads |-> "idle"]
  /\ on = [t \in Threads |-> None]
  /\ sent = [t \in Threads |-> 0]
  /\ content = [f \in Files |-> << >>]

\* What shares the ownership of worker w.
Owners(w) == {f \in Files : entry[f] = w} \cup {s \in Slots : stream[s] = w}

------------------------------------------------------------------------------
(* rocfft_setup and rocfft_cleanup. *)

\* The map is made and the log files of the layers that are on are opened,
\* with O_TRUNC.  A kind that has no path, or whose file cannot be opened,
\* has fd -1.  Last comes a log_trace.
Setup ==
  /\ lib = "down" /\ pc[Main] = "idle" /\ sessions < MaxSessions
  /\ sessions' = sessions + 1
  /\ \E L \in SUBSET Kinds :
       /\ layers' = L
       /\ lib' = IF Trace \in L THEN "starting" ELSE "up"
       /\ \E o \in [L -> (Files \ {Stderr}) \cup {None}] :
            /\ fd' = [k \in Kinds |-> IF k \in L THEN o[k] ELSE None]
            /\ content' = [f \in Files |-> IF \E k \in L : o[k] = f THEN << >> ELSE content[f]]
  /\ UNCHANGED <<entry, stream, worker, pc, on, sent, errors>>

\* rocfft_cleanup begins, with a log_trace.
Cleanup ==
  /\ lib = "up" /\ pc[Main] = "idle" /\ \A t \in Threads : pc[t] \notin {"flush", "wait", "woken"}
  /\ lib' = IF Trace \in layers THEN "stopping" ELSE "closing"
  /\ UNCHANGED <<sessions, layers, fd, entry, stream, worker, pc, on, sent, content, errors>>

\* It turns the layers off and closes the files.
CloseLogs ==
  /\ lib = "closing"
  /\ lib' = "clearing"
  /\ layers' = {}
  /\ fd' = [k \in Kinds |-> None]
  /\ UNCHANGED <<sessions, entry, stream, worker, pc, on, sent, content, errors>>

\* Thread t drops a pointer to w; nobody else holds one if last.  The
\* destructor of the worker sends the empty string.
Drop(t, w, last) ==
  IF last
  THEN /\ worker' = [worker EXCEPT ![w].obj = "dying", ![w].queue = Append(@, Task(t, Stop))]
       /\ on' = [on EXCEPT ![t] = w]
       /\ pc' = [pc EXCEPT ![t] = "end"]
  ELSE UNCHANGED <<worker, on, pc>>

\* Resetting the map drops its pointers, one after the other.
ClearEntry(f) ==
  /\ lib = "clearing" /\ pc[Main] = "idle" /\ entry[f] # None
  /\ entry' = [entry EXCEPT ![f] = None]
  /\ Drop(Main, entry[f], Owners(entry[f]) = {f})
  /\ UNCHANGED <<library, stream, sent, content, errors>>

\* The map is empty: its mutex is reset and rocfft_cleanup returns.
CleanupReturn ==
  /\ lib = "clearing" /\ pc[Main] = "idle" /\ \A f \in Files : entry[f] = None
  /\ lib' = "down"
  /\ UNCHANGED <<sessions, layers, fd, entry, stream, worker, pc, on, sent, content, errors>>

------------------------------------------------------------------------------
(* A thread logs. *)

\* The worker constructor, for an entry of the map: it starts a thread.
NewWorker(t, s, f) ==
  \E w \in Workers :
    /\ worker[w].obj = "none" /\ \A v \in Workers : v < w => worker[v].obj # "none"
    /\ worker' = [worker EXCEPT ![w] =
                    [obj |-> "alive", file |-> f, queue |-> << >>, task |-> NoTask,
                     thread |-> "runs"]]
    /\ entry' = [entry EXCEPT ![f] = w]
    /\ stream' = [stream EXCEPT ![<<t, s>>] = w]
    /\ on' = [on EXCEPT ![t] = w]

\* get_worker: the worker of the file, under the mutex of the map.
GetWorker(t, s, f) ==
  \/ /\ entry[f] # None
     /\ stream' = [stream EXCEPT ![<<t, s>>] = entry[f]]
     /\ on' = [on EXCEPT ![t] = entry[f]]
     /\ UNCHANGED <<entry, worker>>
  \/ entry[f] = None /\ NewWorker(t, s, f)

\* A log call of kind k gets the thread's stream, which is constructed if
\* this is its first use.  Logs without a file go to rocfft_cerr.
GetOS(t, k) ==
  /\ pc[t] = "idle" /\ k \in layers
  /\ LET s == IF fd[k] = None THEN Stderr ELSE k
         f == IF fd[k] = None THEN Stderr ELSE fd[k]
     IN \/ stream[<<t, s>>] = Unborn /\ GetWorker(t, s, f)
        \/ /\ stream[<<t, s>>] # Unborn
           /\ on' = [on EXCEPT ![t] = stream[<<t, s>>]]
           /\ UNCHANGED <<entry, stream, worker>>
  /\ pc' = [pc EXCEPT ![t] = "flush"]
  /\ UNCHANGED <<library, sent, content, errors>>

LogCall(t, k) == lib = "up" /\ sent[t] < MaxSends /\ GetOS(t, k)

LibraryLog == lib \in {"starting", "stopping"} /\ GetOS(Main, Trace)

\* worker::send: the task goes to the queue, under the mutex of the worker.
Send(t) ==
  /\ pc[t] = "flush"
  /\ worker' = [worker EXCEPT ![on[t]].queue = Append(@, Task(t, sent[t] + 1))]
  /\ sent' = [sent EXCEPT ![t] = @ + 1]
  /\ pc' = [pc EXCEPT ![t] = "wait"]
  /\ UNCHANGED <<library, entry, stream, on, content, errors>>

\* The future is ready: the flush returns, and the buffer is cleared.
SendReturn(t) ==
  /\ pc[t] = "woken"
  /\ pc' = [pc EXCEPT ![t] = "idle"]
  /\ on' = [on EXCEPT ![t] = None]
  /\ lib' = CASE t = Main /\ lib = "starting" -> "up"
              [] t = Main /\ lib = "stopping" -> "closing"
              [] OTHER -> lib
  /\ UNCHANGED <<sessions, layers, fd, entry, stream, worker, sent, content, errors>>

\* The thread ends: its streams, whose buffers are empty, are destroyed, while
\* another may be in rocfft_setup or rocfft_cleanup.
Exit(t) ==
  /\ pc[t] = "idle" /\ (t = Main => lib \in {"up", "down"})
  /\ pc' = [pc EXCEPT ![t] = "exit"]
  /\ UNCHANGED <<library, entry, stream, worker, on, sent, content, errors>>

DestroyStream(t, s) ==
  /\ pc[t] = "exit" /\ stream[<<t, s>>] # None
  /\ stream' = [stream EXCEPT ![<<t, s>>] = None]
  /\ LET w == stream[<<t, s>>]
     IN IF w = Unborn
        THEN UNCHANGED <<worker, on, pc>>
        ELSE Drop(t, w, Owners(w) = {<<t, s>>})
  /\ UNCHANGED <<library, entry, sent, content, errors>>

Gone(t) ==
  /\ pc[t] = "exit" /\ \A s \in Streams : stream[<<t, s>>] = None
  /\ pc' = [pc EXCEPT ![t] = "gone"]
  /\ UNCHANGED <<library, entry, stream, worker, on, sent, content, errors>>

\* The destructor goes on: the file is closed and the worker freed.
Free(t) ==
  /\ worker' = [worker EXCEPT ![on[t]].obj = "freed"]
  /\ pc' = [pc EXCEPT ![t] = IF t = Main /\ lib = "clearing" THEN "idle" ELSE "exit"]
  /\ on' = [on EXCEPT ![t] = None]
  /\ UNCHANGED <<library, entry, stream, sent, content, errors>>

\* Mutation: the destructor does not wait for the empty task, as in the
\* branch for Windows.
DestroyedAtOnce(t) == pc[t] \in {"end", "ended"} /\ Free(t)

\* The destructor's empty task is done.
Destroyed(t) == pc[t] = "ended" /\ Free(t)

------------------------------------------------------------------------------
(* The worker's thread (thread_function). *)

\* set_value on the promise of a task wakes the thread that sent it.
Woken(t) ==
  [pc EXCEPT ![t] = CASE @ = "wait" -> "woken"
                      [] @ = "end" -> "ended"
                      [] OTHER -> @]

Take(w) ==
  /\ worker[w].thread = "runs" /\ worker[w].queue # << >>
  /\ worker' = [worker EXCEPT ![w].thread = "has task", ![w].task = Head(worker[w].queue),
                              ![w].queue = Tail(@)]
  /\ UNCHANGED <<library, entry, stream, pc, on, sent, content, errors>>

\* Mutation: the promise is kept before the data is written.
WriteLater(w) ==
  /\ worker[w].thread = "has task" /\ worker[w].task.msg # Stop
  /\ worker' = [worker EXCEPT ![w].thread = "written"]
  /\ pc' = Woken(worker[w].task.by)
  /\ UNCHANGED <<library, entry, stream, on, sent, content, errors>>

\* Mutation: a task is put back, as if to write it again after an interruption.
WriteAgain(w) ==
  /\ worker[w].thread = "has task" /\ worker[w].task.msg # Stop
  /\ worker' = [worker EXCEPT ![w].thread = "runs", ![w].task = NoTask,
                              ![w].queue = Append(@, worker[w].task)]
  /\ UNCHANGED <<library, entry, stream, pc, on, sent, content, errors>>

\* fwrite and fflush.
Write(w) ==
  /\ worker[w].thread = "has task" /\ worker[w].task.msg # Stop
  /\ content' = [content EXCEPT ![worker[w].file] =
                   Append(@, <<worker[w].task.by, worker[w].task.msg>>)]
  /\ worker' = [worker EXCEPT ![w].thread = "written"]
  /\ UNCHANGED <<library, entry, stream, pc, on, sent, errors>>

SetValue(w) ==
  /\ worker[w].thread = "written"
  /\ pc' = Woken(worker[w].task.by)
  /\ worker' = [worker EXCEPT ![w].thread = "runs", ![w].task = NoTask]
  /\ UNCHANGED <<library, entry, stream, on, sent, content, errors>>

\* An error: the future is told to wake up, and the thread ends.
WriteFails(w) ==
  /\ worker[w].thread = "has task" /\ worker[w].task.msg # Stop
  /\ errors < MaxErrors
  /\ errors' = errors + 1
  /\ pc' = Woken(worker[w].task.by)
  /\ worker' = [worker EXCEPT ![w].thread = "ended", ![w].task = NoTask]
  /\ UNCHANGED <<library, entry, stream, on, sent, content>>

\* Mutation: the empty task is put back, to come after the other tasks.
CloseLater(w) ==
  /\ worker[w].thread = "has task" /\ worker[w].task.msg = Stop
  /\ worker' = [worker EXCEPT ![w].thread = "runs", ![w].task = NoTask,
                              ![w].queue = Append(@, worker[w].task)]
  /\ UNCHANGED <<library, entry, stream, pc, on, sent, content, errors>>

\* The empty task.
Close(w) ==
  /\ worker[w].thread = "has task" /\ worker[w].task.msg = Stop
  /\ pc' = Woken(worker[w].task.by)
  /\ worker' = [worker EXCEPT ![w].thread = "ended", ![w].task = NoTask]
  /\ UNCHANGED <<library, entry, stream, on, sent, content, errors>>

------------------------------------------------------------------------------
ThreadStep(t) ==
  \/ Send(t) \/ SendReturn(t) \/ Destroyed(t) \/ Gone(t)
  \/ \E s \in Streams : DestroyStream(t, s)

MainStep == LibraryLog \/ CloseLogs \/ CleanupReturn \/ \E f \in Files : ClearEntry(f)

WorkerStep(w) == Take(w) \/ Write(w) \/ SetValue(w) \/ WriteFails(w) \/ Close(w)

\* Everything is over: the threads have ended.  After a write error others may
\* wait for ever.
Over ==
  /\ errors > 0 \/ \A t \in Threads : pc[t] = "gone"
  /\ UNCHANGED vars

Next ==
  \/ Setup \/ Cleanup \/ MainStep
  \/ \E t \in Threads : (\E k \in Kinds : LogCall(t, k)) \/ Exit(t) \/ ThreadStep(t)
  \/ \E w \in Workers : WorkerStep(w)
  \/ Over

\* What has begun goes on: the threads are scheduled, the application's as
\* well as the workers'.  Nothing makes the application log, exit or clean up.
Fairness ==
  /\ WF_vars(MainStep)
  /\ \A t \in Threads : WF_vars(ThreadStep(t))
  /\ \A w \in Workers : WF_vars(WorkerStep(w))

Spec == Init /\ [][Next]_vars /\ Fairness

------------------------------------------------------------------------------
PCs == {"idle", "flush", "wait", "woken", "exit", "gone", "end", "ended"}

Tasks == [by : Threads \cup {None}, msg : Nat]

\* The type invariant; a thread points to a worker exactly while it uses one.
TypeOK ==
  /\ lib \in {"down", "starting", "up", "stopping", "closing", "clearing"}
  /\ layers \subseteq Kinds /\ sessions \in 0 .. MaxSessions /\ errors \in 0 .. MaxErrors
  /\ fd \in [Kinds -> Files \cup {None}]
  /\ entry \in [Files -> Workers \cup {None}]
  /\ stream \in [Slots -> Workers \cup {None, Unborn}]
  /\ worker \in [Workers -> [obj : {"none", "alive", "dying", "freed"},
                             file : Files \cup {None}, queue : Seq(Tasks), task : Tasks,
                             thread : {"none", "runs", "has task", "written", "ended"}]]
  /\ pc \in [Threads -> PCs]
  /\ on \in [Threads -> Workers \cup {None}]
  /\ \A t \in Threads : pc[t] \in {"idle", "exit", "gone"} <=> on[t] = None
  /\ sent \in [Threads -> Nat]
  /\ content \in [Files -> Seq(Threads \X Nat)]

\* A worker that is freed is not used again: its thread has ended, its queue
\* is empty, no stream and no map entry holds it, and nobody sends to it.
FreedIsUnused ==
  \A w \in Workers : worker[w].obj = "freed" =>
    /\ worker[w].thread = "ended" /\ worker[w].queue = << >>
    /\ Owners(w) = {}
    /\ \A t \in Threads : on[t] # w

\* No write has failed so far, and none will.
NoErrors == [](errors = 0)

\* rocfft_cleanup returns: it comes back from its log_trace, and every
\* destructor it runs comes back from the empty task.
CleanupReturns == lib = "stopping" ~> lib = "down"
CleanupReturnsNoErrors == NoErrors => CleanupReturns

\* The flush of thread t, as the abstract log sees it.
CallOf(t) ==
  IF pc[t] # "wait" THEN [at |-> "none", file |-> None, msg |-> 0]
  ELSE [at |-> IF worker[on[t]].thread = "written" /\ worker[on[t]].task.by = t
               THEN "written" ELSE "started",
        file |-> worker[on[t]].file, msg |-> sent[t]]

AbstractLog == INSTANCE Log WITH call <- [t \in Threads |-> CallOf(t)]

\* The streams implement the abstract log (see Log): a flush that has returned
\* has written its message, whole, once and in its file, or has met an error.
ImplementsLog == AbstractLog!Safe

\* Without errors every flush returns, as the abstract log promises.
EveryFlushReturns == NoErrors => AbstractLog!Live
==============================================================================
