------------------------------ MODULE MCRTCCache ------------------------------
(***************************************************************************)
(* RTCCache for two processes with different versions of the library.      *)
(***************************************************************************)
EXTENDS RTCCache, TLC

CONSTANTS p1, p2, t1, t2, t3, k1, k2, v1, v2
MCProcs == {p1, p2}
MCThreads == {t1, t2, t3}
MCProcOf == t1 :> p1 @@ t2 :> p1 @@ t3 :> p2
MCVersionOf == p1 :> v1 @@ p2 :> v2
MCKernels == {k1, k2}
MCMaxRequests == t1 :> 2 @@ t2 :> 2 @@ t3 :> 1
MCUses == t1 :> {k1, k2} @@ t2 :> {k1} @@ t3 :> {k1}
MCBuffers == {{<<k1, v1>>, <<k1, v2>>}}
MCSysRows == {<<k2, v1>>}

\* Nobody has to ask for anything.
Resting == (\A t \in Threads : want[t] = None) /\ UNCHANGED vars
MCSpec == Init /\ [][Next \/ Resting]_vars /\ Fairness
==============================================================================
