-------------------------------- MODULE MCRepo --------------------------------
(***************************************************************************)
(* Repo for a few nodes and tables.                                        *)
(***************************************************************************)
EXTENDS Repo, TLC

CONSTANTS n1, n2, n3, a1, a2, a3, a4

MCNodes == {n1, n2, n3}

MCAddrs == {a1, a2, a3, a4}

Table(map, args, half) == [map |-> map, args |-> args, half |-> half]

\* Two 1D tables that differ in attach_halfN, a large twiddle table, a table
\* for one radix, which has no elements, a 2D table and a chirp.
T1 == Table("1D", 1, FALSE)
T1Half == Table("1D", 1, TRUE)
L1 == Table("1D", 2, FALSE)
T0 == Table("1D", 3, FALSE)
T2 == Table("2D", 1, FALSE)
C1 == Table("chirp", 1, FALSE)

MCTables == {T1, T1Half, L1, T0, T2, C1}

MCEmptyTables == {T0}

Need(chirp, twiddles1, large) ==
  [k \in Kinds |-> CASE k = "chirp" -> chirp [] k = "twiddles" -> twiddles1 [] k = "large" -> large]

\* Stockham nodes of complex and real transforms, a node of a Bluestein
\* transform with chirp and large twiddles, one with a single radix, and a 2D
\* kernel.
MCNeeds ==
  {Need(None, T1, None), Need(None, T1Half, None), Need(C1, T1, L1), Need(None, T0, L1),
   Need(None, T2, None)}

\* Plans of complex and of real 2D transforms whose kernels have the same
\* lengths.
T2Half == Table("2D", 1, TRUE)

Tables2D == {T2, T2Half}

Needs2D == {Need(None, t, None) : t \in Tables2D}

Symmetry == Permutations(MCNodes) \cup Permutations(MCAddrs)
==============================================================================
