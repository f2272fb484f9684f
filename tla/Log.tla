---------------------------------- MODULE Log ----------------------------------
(***************************************************************************)
(* What logging promises to the threads of a program: a flushed message is *)
(* appended to its file as a whole, once, before the flush returns, and    *)
(* every flush returns.  The messages of one thread are in the order in    *)
(* which it sent them.  A write that fails loses that one message.         *)
(***************************************************************************)
EXTENDS Naturals, Sequences

CONSTANTS
  Threads, \* threads of the application
  Files,   \* files, told apart by device and inode
  None     \* no file

VARIABLES
  content, \* content[f]: the messages of file f
  call,    \* call[t]: the flush of thread t, [at, file, msg]
  sent     \* sent[t]: the number of messages thread t has sent

logVars == <<content, call, sent>>

Flush(at, f, n) == [at |-> at, file |-> f, msg |-> n]

Quiet == Flush("none", None, 0)

Init ==
  /\ content = [f \in Files |-> << >>]
  /\ call = [t \in Threads |-> Quiet]
  /\ sent = [t \in Threads |-> 0]

Start(t) ==
  /\ call[t].at = "none"
  /\ \E f \in Files :
       call' = [call EXCEPT ![t] = Flush("started", f, sent[t] + 1)]
  /\ sent' = [sent EXCEPT ![t] = @ + 1]
  /\ UNCHANGED content

Append1(t) ==
  /\ call[t].at = "started"
  /\ content' = [content EXCEPT ![call[t].file] = Append(@, <<t, call[t].msg>>)]
  /\ call' = [call EXCEPT ![t] = Flush("written", call[t].file, call[t].msg)]
  /\ UNCHANGED sent

Lose(t) ==
  /\ call[t].at = "started"
  /\ call' = [call EXCEPT ![t] = Quiet]
  /\ UNCHANGED <<content, sent>>

Return(t) ==
  /\ call[t].at = "written"
  /\ call' = [call EXCEPT ![t] = Quiet]
  /\ UNCHANGED <<content, sent>>

\* The library is set up: log files are opened, and so emptied, while no
\* thread logs.
Truncate ==
  /\ \A t \in Threads : call[t] = Quiet
  /\ \E F \in SUBSET Files :
       content' = [f \in Files |-> IF f \in F THEN << >> ELSE content[f]]
  /\ UNCHANGED <<call, sent>>

Next ==
  \/ \E t \in Threads : Start(t) \/ Append1(t) \/ Lose(t) \/ Return(t)
  \/ Truncate

Safe == Init /\ [][Next]_logVars

Live == \A t \in Threads : WF_logVars(Append1(t) \/ Lose(t)) /\ WF_logVars(Return(t))

Spec == Safe /\ Live
==============================================================================
