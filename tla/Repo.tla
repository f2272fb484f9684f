--------------------------------- MODULE Repo ---------------------------------
(***************************************************************************)
(* The repository of twiddle and chirp tables (class Repo) and the leaf    *)
(* nodes of plans that share them.  A table is in device memory; the Repo  *)
(* counts the references to it and frees it when the last one is released. *)
(* Plans are created and destroyed by any number of threads: the mutex of  *)
(* the Repo makes every Get and every Release one step, and the steps of   *)
(* different nodes interleave in any way.                                  *)
(*                                                                         *)
(* The code has the same pair of maps three times, for 1D twiddles, 2D     *)
(* twiddles and chirps.  Here a key says which of the three it is in.      *)
(***************************************************************************)
EXTENDS Integers, FiniteSets

CONSTANTS
  Nodes,       \* leaf nodes of plans
  Addrs,       \* device addresses
  Tables,      \* the tables a node may ask for: [map, args, half]
  EmptyTables, \* those for which no memory is needed
  Needs,       \* what a node may need: a table, or None, for each pointer
  None         \* no address, no key, no table

Maps == {"1D", "2D", "chirp"}

\* The three table pointers of a node.
Kinds == {"chirp", "twiddles", "large"}

\* Mutation: tables that differ in attach_halfN share a key.
KeyOfNoHalf(t) == [map |-> t.map, args |-> t.args, half |-> FALSE]

\* The key of a table: the arguments it is created from.  The key of a 2D
\* table has no attach_halfN.
KeyOf(t) == [map |-> t.map, args |-> t.args, half |-> IF t.map = "2D" THEN FALSE ELSE t.half]

Keys == {KeyOf(t) : t \in Tables}

ASSUME RepoAssumption ==
  /\ IsFiniteSet(Nodes)
  /\ None \notin Addrs /\ None \notin Tables /\ None \notin Keys
  /\ \A t \in Tables : t.map \in Maps /\ t = [map |-> t.map, args |-> t.args, half |-> t.half]
  /\ Needs \subseteq [Kinds -> Tables \cup {None}]

VARIABLES
  twiddles,  \* twiddles[key]: the forward maps, Absent where there is no entry
  reverse,   \* reverse[<<map, address>>]: the reverse maps, None where there is no entry
  destroyed, \* repoDestroyed
  st,        \* st[n]: "none", "create", "ready" or "destroy"
  need,      \* need[<<n, kind>>]: the tables node n needs
  got,       \* the pointers CreateDeviceResources has asked the Repo for
  ptr,       \* ptr[<<n, kind>>]: the pointers of node n
  old        \* ghost: the pointers that are older than the last Clear

repo == <<twiddles, reverse, destroyed>>
vars == <<twiddles, reverse, destroyed, st, need, got, ptr, old>>

Refs == Nodes \X Kinds

Absent == [addr |-> None, made |-> None, count |-> 0]

Held == {r \in Refs : ptr[r] # None}

Key(r) == KeyOf(need[r])

\* The pointers of node n still to be asked for.
Pending(n) == {k \in Kinds : need[<<n, k>>] # None /\ <<n, k>> \notin got}

\* The order in which CreateDeviceResources asks for the tables, and that in
\* which the destructor releases them.
CreateOrder == [k \in Kinds |-> IF k = "chirp" THEN 1 ELSE IF k = "twiddles" THEN 2 ELSE 3]
DestroyOrder == [k \in Kinds |-> IF k = "twiddles" THEN 1 ELSE IF k = "large" THEN 2 ELSE 3]

FirstOf(k, S, order) == k \in S /\ \A j \in S : order[k] <= order[j]

------------------------------------------------------------------------------
Init ==
  /\ twiddles = [key \in Keys |-> Absent]
  /\ reverse = [x \in Maps \X Addrs |-> None]
  /\ destroyed = FALSE
  /\ st = [n \in Nodes |-> "none"]
  /\ need = [r \in Refs |-> None]
  /\ got = {}
  /\ ptr = [r \in Refs |-> None]
  /\ old = {}

\* PlanPowX comes to a leaf node.  The library is not used between cleanup
\* and the next setup, and the plans from before cleanup are destroyed before
\* new ones are created (rocfft_cleanup is "called once in program after end
\* of library use").
CreateNode(n, f) ==
  /\ st[n] = "none" /\ old = {}
  /\ st' = [st EXCEPT ![n] = "create"]
  /\ need' = [r \in Refs |-> IF r[1] = n THEN f[r[2]] ELSE need[r]]
  /\ UNCHANGED <<repo, got, ptr, old>>

\* The node asks for its next table.
CanGet(n, k) == st[n] = "create" /\ FirstOf(k, Pending(n), CreateOrder)

\* Mutation: a table that is there is handed out without being counted.
TableFoundUncounted(n, k) ==
  LET r == <<n, k>>
  IN  /\ CanGet(n, k) /\ ~ destroyed
      /\ twiddles[Key(r)] # Absent
      /\ ptr' = [ptr EXCEPT ![r] = twiddles[Key(r)].addr]
      /\ got' = got \cup {r}
      /\ UNCHANGED <<repo, st, need, old>>

\* GetTwiddlesInternal, GetChirpInternal: the table is there.
TableFound(n, k) ==
  LET r == <<n, k>>
  IN  /\ CanGet(n, k) /\ ~ destroyed
      /\ twiddles[Key(r)] # Absent
      /\ twiddles' = [twiddles EXCEPT ![Key(r)].count = @ + 1]
      /\ ptr' = [ptr EXCEPT ![r] = twiddles[Key(r)].addr]
      /\ got' = got \cup {r}
      /\ UNCHANGED <<reverse, destroyed, st, need, old>>

\* The table is not there: it is created at an address that is free, and
\* entered into both maps.  (insert leaves an entry that exists as it is.)
TableCreated(n, k, a) ==
  LET r == <<n, k>>
  IN  /\ CanGet(n, k) /\ ~ destroyed
      /\ twiddles[Key(r)] = Absent /\ need[r] \notin EmptyTables
      /\ \A key \in Keys : twiddles[key].addr # a
      /\ twiddles' = [twiddles EXCEPT ![Key(r)] = [addr |-> a, made |-> need[r], count |-> 1]]
      /\ reverse' = [reverse EXCEPT ![<<Key(r).map, a>>] = IF @ = None THEN Key(r) ELSE @]
      /\ ptr' = [ptr EXCEPT ![r] = a]
      /\ got' = got \cup {r}
      /\ UNCHANGED <<destroyed, st, need, old>>

\* The table has no elements: the node's pointer stays null.
TableEmpty(n, k) ==
  LET r == <<n, k>>
  IN  /\ CanGet(n, k) /\ ~ destroyed
      /\ twiddles[Key(r)] = Absent /\ need[r] \in EmptyTables
      /\ got' = got \cup {r}
      /\ UNCHANGED <<repo, st, need, ptr, old>>

\* The Repo is destroyed, or the allocation fails: an exception ends plan
\* creation, which destroys the nodes.
GetThrows(n, k) ==
  /\ CanGet(n, k)
  /\ destroyed \/ twiddles[Key(<<n, k>>)] = Absent
  /\ st' = [st EXCEPT ![n] = "destroy"]
  /\ UNCHANGED <<repo, need, got, ptr, old>>

CreateDone(n) ==
  /\ st[n] = "create" /\ Pending(n) = {}
  /\ st' = [st EXCEPT ![n] = "ready"]
  /\ UNCHANGED <<repo, need, got, ptr, old>>

\* The plan of the node is destroyed, or its creation fails elsewhere.
DestroyNode(n) ==
  /\ st[n] = "ready"
  /\ st' = [st EXCEPT ![n] = "destroy"]
  /\ UNCHANGED <<repo, need, got, ptr, old>>

\* Mutation: the reverse entry of a table that is freed is forgotten.
ReleaseInMapsForgets(x) ==
  LET key == reverse[x]
  IN  /\ key # None
      /\ twiddles' = [twiddles EXCEPT ![key] = IF @.count > 1 THEN [@ EXCEPT !.count = @ - 1] ELSE Absent]
      /\ UNCHANGED reverse

\* ReleaseTwiddlesInternal, ReleaseChirpInternal for a pointer the reverse
\* maps know: an orphan is erased; a table that nobody else refers to is
\* erased from both maps.
ReleaseInMaps(x) ==
  LET key == reverse[x]
      erased == [reverse EXCEPT ![x] = None]
  IN  /\ key # None
      /\ \/ /\ twiddles[key] = Absent
            /\ reverse' = erased
            /\ UNCHANGED twiddles
         \/ /\ twiddles[key] # Absent /\ twiddles[key].count # 1
            /\ twiddles' = [twiddles EXCEPT ![key].count = @ - 1]
            /\ UNCHANGED reverse
         \/ /\ twiddles[key] # Absent /\ twiddles[key].count = 1
            /\ twiddles' = [twiddles EXCEPT ![key] = Absent]
            /\ reverse' = erased

\* TreeNode::~TreeNode releases the next pointer that is not null, which the
\* Repo ignores if it is destroyed or does not know the pointer.
ReleaseTable(n, k) ==
  LET r == <<n, k>>
      x == <<Key(r).map, ptr[r]>>
  IN  /\ st[n] = "destroy"
      /\ FirstOf(k, {j \in Kinds : ptr[<<n, j>>] # None}, DestroyOrder)
      /\ \/ ~ destroyed /\ ReleaseInMaps(x)
         \/ (destroyed \/ reverse[x] = None) /\ UNCHANGED <<twiddles, reverse>>
      /\ ptr' = [ptr EXCEPT ![r] = None]
      /\ old' = old \ {r}
      /\ UNCHANGED <<destroyed, st, need, got>>

NodeGone(n) ==
  /\ st[n] = "destroy" /\ \A k \in Kinds : ptr[<<n, k>>] = None
  /\ st' = [st EXCEPT ![n] = "none"]
  /\ need' = [r \in Refs |-> IF r[1] = n THEN None ELSE need[r]]
  /\ got' = {r \in got : r[1] # n}
  /\ UNCHANGED <<repo, ptr, old>>

\* Repo::Clear, from rocfft_cleanup: the tables are freed; the reverse maps
\* are left as they are.  No plan is being created.
Clear ==
  /\ ~ destroyed /\ \A n \in Nodes : st[n] # "create"
  /\ twiddles' = [key \in Keys |-> Absent]
  /\ old' = Held
  /\ UNCHANGED <<reverse, destroyed, st, need, got, ptr>>

\* The program ends: the Repo is a static object and is destroyed, perhaps
\* before the last plans.
DestroyRepo ==
  /\ ~ destroyed
  /\ destroyed' = TRUE
  /\ twiddles' = [key \in Keys |-> Absent]
  /\ reverse' = [x \in Maps \X Addrs |-> None]
  /\ UNCHANGED <<st, need, got, ptr, old>>

NodeStep(n) ==
  \/ \E f \in Needs : CreateNode(n, f)
  \/ \E k \in Kinds : TableFound(n, k)
  \/ \E k \in Kinds, a \in Addrs : TableCreated(n, k, a)
  \/ \E k \in Kinds : TableEmpty(n, k)
  \/ \E k \in Kinds : GetThrows(n, k)
  \/ CreateDone(n)
  \/ DestroyNode(n)
  \/ \E k \in Kinds : ReleaseTable(n, k)
  \/ NodeGone(n)

Next == (\E n \in Nodes : NodeStep(n)) \/ Clear \/ DestroyRepo

Spec == Init /\ [][Next]_vars

------------------------------------------------------------------------------
(* Properties *)

Entries == [addr : Addrs, made : Tables, count : Nat \ {0}]

\* The maps, the pointers and the states of the nodes have their types.
TypeOK ==
  /\ twiddles \in [Keys -> Entries \cup {Absent}]
  /\ reverse \in [Maps \X Addrs -> Keys \cup {None}]
  /\ destroyed \in BOOLEAN
  /\ st \in [Nodes -> {"none", "create", "ready", "destroy"}]
  /\ need \in [Refs -> Tables \cup {None}]
  /\ got \in SUBSET Refs
  /\ ptr \in [Refs -> Addrs \cup {None}]
  /\ old \in SUBSET Refs

\* While a node has a pointer to a table, the table is in the Repo, at that
\* address: however plans that share tables come, go and fail, none is freed
\* while a node uses it.  (Unless the library was cleaned up or the program
\* has ended since.)
TablesAvailable ==
  ~ destroyed => \A r \in Held \ old : twiddles[Key(r)].addr = ptr[r]

\* The table a node points to was created from what the node asked for.
TablesAsAsked ==
  ~ destroyed => \A r \in Held \ old : twiddles[Key(r)].made = need[r]

\* When no node has a pointer, the Repo has no table, and no entry is left in
\* the reverse maps, even if the library was cleaned up in between.
NothingLeaks ==
  ~ destroyed /\ Held = {} =>
    /\ \A key \in Keys : twiddles[key] = Absent
    /\ \A x \in Maps \X Addrs : reverse[x] = None
==============================================================================
