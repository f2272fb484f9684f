-------------------------------- MODULE Log_proofs --------------------------------
(***************************************************************************)
(* What Log means for those who read the files, for any number of threads  *)
(* and files: every message is there once and in order.                    *)
(***************************************************************************)
EXTENDS Log, TLAPS

Entries == Threads \X Nat

\* content[f][i] is message content[f][i][2] of thread content[f][i][1].
Places(f) == 1 .. Len(content[f])

\* In a file the messages of one thread are in the order it sent them.
Ordered ==
  \A f \in Files : \A i, j \in Places(f) :
    i < j /\ content[f][i][1] = content[f][j][1] => content[f][i][2] < content[f][j][2]

\* No message is in two files, nor, being ordered, twice in one.
Once ==
  \A f, g \in Files : \A i \in Places(f), j \in Places(g) : content[f][i] = content[g][j] => f = g

\* A flush that returns without an error has put its message in its file.
WrittenIsThere ==
  \A t \in Threads : call[t].at = "written" =>
    \E i \in Places(call[t].file) : content[call[t].file][i] = <<t, call[t].msg>>

------------------------------------------------------------------------------
(* The inductive invariant *)

LogType ==
  /\ content \in [Files -> Seq(Entries)] /\ sent \in [Threads -> Nat]
  /\ call \in [Threads -> [at : {"none", "started", "written"}, file : Files \cup {None}, msg : Nat]]

\* A flush is for the thread's last message, which is not in a file while it
\* is being written.
LastSent ==
  /\ \A t \in Threads : call[t].at # "none" => call[t].file \in Files /\ call[t].msg = sent[t]
  /\ \A f \in Files : \A i \in Places(f) :
       /\ content[f][i][2] <= sent[content[f][i][1]]
       /\ call[content[f][i][1]].at = "started" => content[f][i][2] < sent[content[f][i][1]]

LogInv == LogType /\ LastSent /\ Ordered /\ Once /\ WrittenIsThere

------------------------------------------------------------------------------
(* Every step preserves the invariant *)

LEMMA InitLogInv == Init => LogInv
  <1> SUFFICES ASSUME Init PROVE LogInv
    OBVIOUS
  <1>1. LogType
    <2>1. << >> \in Seq(Entries)
      OBVIOUS
    <2> QED
      BY <2>1 DEF Init, LogType, Quiet, Flush
  <1>2. \A f \in Files : Places(f) = {}
    BY DEF Init, Places
  <1>3. LastSent /\ Ordered /\ Once /\ WrittenIsThere
    BY <1>2 DEF Init, LastSent, Ordered, Once, WrittenIsThere, Quiet, Flush
  <1> QED
    BY <1>1, <1>3 DEF LogInv

\* A step that writes nothing: thread t starts a flush, or ends it.
LEMMA CallLogInv ==
  ASSUME LogInv, NEW t \in Threads, Start(t) \/ Lose(t) \/ Return(t)
  PROVE  LogInv'
  <1>1. content' = content
    BY DEF Start, Lose, Return
  <1>2. PICK c \in [at : {"none", "started", "written"}, file : Files \cup {None}, msg : Nat] :
          /\ call' = [call EXCEPT ![t] = c] /\ c.at \in {"none", "started"}
          /\ c.at = "started" => c.file \in Files /\ c.msg = sent[t] + 1 /\ sent' = [sent EXCEPT ![t] = @ + 1]
          /\ c.at = "none" => sent' = sent
    <2>1. CASE Start(t)
      <3>1. PICK f \in Files : call' = [call EXCEPT ![t] = Flush("started", f, sent[t] + 1)]
        BY <2>1 DEF Start
      <3>2. Flush("started", f, sent[t] + 1) \in
              [at : {"none", "started", "written"}, file : Files \cup {None}, msg : Nat]
        BY DEF Flush, LogInv, LogType
      <3>3. Flush("started", f, sent[t] + 1).at = "started" /\ Flush("started", f, sent[t] + 1).file = f
            /\ Flush("started", f, sent[t] + 1).msg = sent[t] + 1
        BY DEF Flush
      <3> QED
        BY <2>1, <3>1, <3>2, <3>3 DEF Start
    <2>2. CASE Lose(t) \/ Return(t)
      <3>1. Quiet \in [at : {"none", "started", "written"}, file : Files \cup {None}, msg : Nat]
            /\ Quiet.at = "none"
        BY DEF Quiet, Flush
      <3> QED
        BY <2>2, <3>1 DEF Lose, Return
    <2> QED
      BY <2>1, <2>2
  <1>3. LogType'
    BY <1>1, <1>2 DEF LogInv, LogType
  <1>4. /\ call'[t] = c /\ \A u \in Threads : u # t => call'[u] = call[u] /\ sent'[u] = sent[u]
        /\ sent'[t] \in Nat /\ sent[t] \in Nat
        /\ IF c.at = "started" THEN sent'[t] = sent[t] + 1 ELSE sent'[t] = sent[t]
    BY <1>2 DEF LogInv, LogType
  <1>5. \A u \in Threads : call'[u].at # "none" => call'[u].file \in Files /\ call'[u].msg = sent'[u]
    BY <1>2, <1>4 DEF LogInv, LastSent
  <1>6. ASSUME NEW f \in Files, NEW i \in Places(f)
        PROVE  /\ content[f][i][2] <= sent'[content[f][i][1]]
               /\ call'[content[f][i][1]].at = "started" => content[f][i][2] < sent'[content[f][i][1]]
    <2> DEFINE u == content[f][i][1]
               n == content[f][i][2]
    <2>1. u \in Threads /\ n \in Nat
      BY DEF LogInv, LogType, Entries, Places
    <2>2. n <= sent[u] /\ (call[u].at = "started" => n < sent[u])
      BY DEF LogInv, LastSent
    <2> HIDE DEF u, n
    <2>3. n <= sent'[u] /\ (call'[u].at = "started" => n < sent'[u])
      <3>1. CASE u = t
        BY <1>4, <2>1, <2>2, <3>1
      <3>2. CASE u # t
        BY <1>4, <2>1, <2>2, <3>2
      <3> QED
        BY <3>1, <3>2
    <2> QED
      BY <2>3 DEF u, n
  <1>7. LastSent'
    BY <1>1, <1>5, <1>6 DEF LastSent, Places
  <1>8. Ordered' /\ Once'
    BY <1>1 DEF LogInv, Ordered, Once, Places
  <1>9. WrittenIsThere'
    <2>1. \A u \in Threads : call'[u].at = "written" => call'[u] = call[u]
      BY <1>2, <1>4
    <2> QED
      BY <1>1, <2>1 DEF LogInv, WrittenIsThere, Places
  <1> QED
    BY <1>3, <1>7, <1>8, <1>9 DEF LogInv

\* The entry of thread t is later than all its other entries, in every file.
LEMMA AppendLogInv ==
  ASSUME LogInv, NEW t \in Threads, Append1(t)
  PROVE  LogInv'
  <1> DEFINE g == call[t].file
             x == <<t, sent[t]>>
  <1>1. /\ call[t].at = "started" /\ call[t].msg = sent[t] /\ g \in Files /\ sent' = sent
        /\ content' = [content EXCEPT ![g] = Append(@, x)]
        /\ call' = [call EXCEPT ![t] = Flush("written", g, sent[t])]
    BY DEF Append1, LogInv, LastSent
  <1>2. /\ content \in [Files -> Seq(Entries)] /\ sent \in [Threads -> Nat] /\ x \in Entries
        /\ call \in [Threads -> [at : {"none", "started", "written"}, file : Files \cup {None}, msg : Nat]]
        /\ x[1] = t /\ x[2] = sent[t] /\ sent[t] \in Nat
    BY DEF LogInv, LogType, Entries
  <1> HIDE DEF g, x
  <1>3. /\ content' \in [Files -> Seq(Entries)]
        /\ Len(content'[g]) = Len(content[g]) + 1 /\ content'[g][Len(content[g]) + 1] = x
        /\ \A f \in Files : Len(content[f]) \in Nat
        /\ \A i \in Places(g) : content'[g][i] = content[g][i]
        /\ \A f \in Files : f # g => content'[f] = content[f]
    BY <1>1, <1>2 DEF Places
  <1>4. \A f \in Files : \A i \in 1 .. Len(content'[f]) :
          \/ i \in Places(f) /\ content'[f][i] = content[f][i]
          \/ f = g /\ i = Len(content[g]) + 1 /\ content'[f][i] = x
    BY <1>3 DEF Places
  <1>5. \A f \in Files : \A i \in Places(f) :
          /\ content[f][i][1] \in Threads /\ content[f][i][2] \in Nat
          /\ content[f][i][2] <= sent[content[f][i][1]]
          /\ content[f][i][1] = t => content[f][i][2] < sent[t]
    <2> SUFFICES ASSUME NEW f \in Files, NEW i \in Places(f)
                 PROVE  /\ content[f][i][1] \in Threads /\ content[f][i][2] \in Nat
                        /\ content[f][i][2] <= sent[content[f][i][1]]
                        /\ content[f][i][1] = t => content[f][i][2] < sent[t]
      OBVIOUS
    <2>1. content[f][i] \in Entries
      BY <1>2 DEF Places
    <2> QED
      BY <1>1, <2>1 DEF LogInv, LastSent, Entries
  <1>6. /\ call' \in [Threads -> [at : {"none", "started", "written"}, file : Files \cup {None}, msg : Nat]]
        /\ call'[t].at = "written" /\ call'[t].file = g /\ call'[t].msg = sent[t]
        /\ \A u \in Threads : u # t => call'[u] = call[u]
    <2>1. Flush("written", g, sent[t]) \in
            [at : {"none", "started", "written"}, file : Files \cup {None}, msg : Nat]
      BY <1>1, <1>2 DEF Flush
    <2>2. /\ Flush("written", g, sent[t]).at = "written" /\ Flush("written", g, sent[t]).file = g
          /\ Flush("written", g, sent[t]).msg = sent[t]
      BY DEF Flush
    <2> QED
      BY <1>1, <1>2, <2>1, <2>2
  <1>7. LogType'
    BY <1>1, <1>2, <1>3, <1>6 DEF LogType
  <1>8. LastSent'
    <2>1. \A u \in Threads : call'[u].at # "none" => call'[u].file \in Files /\ call'[u].msg = sent'[u]
      BY <1>1, <1>6 DEF LogInv, LastSent
    <2>2. ASSUME NEW f \in Files, NEW i \in 1 .. Len(content'[f])
          PROVE  /\ content'[f][i][2] <= sent[content'[f][i][1]]
                 /\ call'[content'[f][i][1]].at = "started" => content'[f][i][2] < sent[content'[f][i][1]]
      <3>1. CASE i \in Places(f) /\ content'[f][i] = content[f][i]
        <4>1. /\ content[f][i][2] <= sent[content[f][i][1]]
              /\ call[content[f][i][1]].at = "started" => content[f][i][2] < sent[content[f][i][1]]
          BY <3>1 DEF LogInv, LastSent
        <4> QED
          BY <1>5, <1>6, <3>1, <4>1
      <3>2. CASE content'[f][i] = x
        BY <1>2, <1>6, <3>2
      <3> QED
        BY <1>4, <3>1, <3>2
    <2> QED
      BY <1>1, <2>1, <2>2 DEF LastSent, Places
  <1>9. Ordered'
    <2> SUFFICES ASSUME NEW f \in Files, NEW i \in 1 .. Len(content'[f]), NEW j \in 1 .. Len(content'[f]),
                        i < j, content'[f][i][1] = content'[f][j][1]
                 PROVE  content'[f][i][2] < content'[f][j][2]
      BY DEF Ordered, Places
    <2>1. i \in Places(f) /\ content'[f][i] = content[f][i]
      BY <1>3, <1>4 DEF Places
    <2>2. CASE j \in Places(f) /\ content'[f][j] = content[f][j]
      BY <2>1, <2>2 DEF LogInv, Ordered
    <2>3. CASE content'[f][j] = x
      BY <1>2, <1>5, <2>1, <2>3
    <2> QED
      BY <1>4, <2>2, <2>3
  <1>10. Once'
    <2> SUFFICES ASSUME NEW f \in Files, NEW h \in Files,
                        NEW i \in 1 .. Len(content'[f]), NEW j \in 1 .. Len(content'[h]),
                        content'[f][i] = content'[h][j]
                 PROVE  f = h
      BY DEF Once, Places
    <2>1. \A k \in Files : \A m \in Places(k) : content[k][m] # x
      BY <1>2, <1>5
    <2> QED
      BY <1>4, <2>1 DEF LogInv, Once
  <1>11. WrittenIsThere'
    <2> SUFFICES ASSUME NEW u \in Threads, call'[u].at = "written"
                 PROVE  \E i \in 1 .. Len(content'[call'[u].file]) :
                          content'[call'[u].file][i] = <<u, call'[u].msg>>
      BY DEF WrittenIsThere, Places
    <2>1. CASE u = t
      <3>1. Len(content[g]) + 1 \in 1 .. Len(content'[g]) /\ content'[g][Len(content[g]) + 1] = <<t, sent[t]>>
        BY <1>1, <1>3 DEF x
      <3> QED
        BY <1>6, <2>1, <3>1
    <2>2. CASE u # t
      <3>1. call'[u] = call[u] /\ call[u].file \in Files
        BY <1>6, <2>2 DEF LogInv, LastSent
      <3>2. PICK i \in Places(call[u].file) : content[call[u].file][i] = <<u, call[u].msg>>
        BY <3>1 DEF LogInv, WrittenIsThere
      <3>3. i \in 1 .. Len(content'[call[u].file]) /\ content'[call[u].file][i] = content[call[u].file][i]
        BY <1>1, <1>3, <3>1 DEF Places
      <3> QED
        BY <3>1, <3>2, <3>3
    <2> QED
      BY <2>1, <2>2
  <1> QED
    BY <1>7, <1>8, <1>9, <1>10, <1>11 DEF LogInv

\* Whole files are emptied, while nobody waits for a message.
LEMMA TruncateLogInv ==
  ASSUME LogInv, Truncate
  PROVE  LogInv'
  <1>1. PICK F \in SUBSET Files : content' = [f \in Files |-> IF f \in F THEN << >> ELSE content[f]]
    BY DEF Truncate
  <1>2. \A t \in Threads : call[t].at = "none"
    BY DEF Truncate, Quiet, Flush
  <1>3. call' = call /\ sent' = sent
    BY DEF Truncate
  <1>4. LogType'
    <2>1. << >> \in Seq(Entries)
      OBVIOUS
    <2> QED
      BY <1>1, <1>3, <2>1 DEF LogInv, LogType
  <1>5. \A f \in Files : \A i \in 1 .. Len(content'[f]) :
          f \notin F /\ content'[f] = content[f] /\ i \in Places(f)
    BY <1>1 DEF Places
  <1>6. LastSent'
    BY <1>2, <1>3, <1>5 DEF LogInv, LastSent, Places
  <1>7. Ordered'
    BY <1>5 DEF LogInv, Ordered, Places
  <1>8. Once'
    BY <1>5 DEF LogInv, Once, Places
  <1>9. WrittenIsThere'
    BY <1>2, <1>3 DEF WrittenIsThere
  <1> QED
    BY <1>4, <1>6, <1>7, <1>8, <1>9 DEF LogInv

------------------------------------------------------------------------------
\* Whatever threads log, wherever and in whatever order, and whichever writes
\* fail: each file has the messages of a thread in the order of its flushes, no
\* message is written twice, and a flush returns after its message is written.
THEOREM FilesAreRight == Safe => [](Ordered /\ Once /\ WrittenIsThere)
  <1>1. LogInv /\ [Next]_logVars => LogInv'
    <2> SUFFICES ASSUME LogInv, [Next]_logVars PROVE LogInv'
      OBVIOUS
    <2>1. CASE UNCHANGED logVars
      <3>1. LogType' /\ LastSent'
        BY <2>1 DEF logVars, LogInv, LogType, LastSent, Places
      <3>2. Ordered' /\ Once' /\ WrittenIsThere'
        BY <2>1 DEF logVars, LogInv, Ordered, Once, WrittenIsThere, Places
      <3> QED
        BY <3>1, <3>2 DEF LogInv
    <2> QED
      BY <2>1, CallLogInv, AppendLogInv, TruncateLogInv DEF Next
  <1>2. LogInv => Ordered /\ Once /\ WrittenIsThere
    BY DEF LogInv
  <1> QED
    BY <1>1, <1>2, InitLogInv, PTL DEF Safe
==============================================================================
