------------------------------ MODULE Repo_proofs ------------------------------
(***************************************************************************)
(* Proofs about Repo: for any number of nodes, tables and addresses, a     *)
(* table is in the Repo as long as a node has a pointer to it, it is the   *)
(* table the node asked for, except that a 2D table may be with or without *)
(* half tables, and nothing is left when the last node is gone.            *)
(***************************************************************************)
EXTENDS Repo, FiniteSetTheorems, TLAPS

------------------------------------------------------------------------------
(* The inductive invariant *)

Holders(key) == {r \in Held \ old : Key(r) = key}

\* A table has as many references as are counted, its address leads back to
\* its key, and it was created from arguments with that key.
EntriesCounted ==
  \A key \in Keys : twiddles[key] # Absent =>
    /\ twiddles[key].count = Cardinality(Holders(key))
    /\ reverse[<<key.map, twiddles[key].addr>>] = key
    /\ KeyOf(twiddles[key].made) = key

\* No two tables share an address.
AddressesDiffer ==
  \A key1, key2 \in Keys :
    twiddles[key1] # Absent /\ twiddles[key2] # Absent /\ twiddles[key1].addr = twiddles[key2].addr
      => key1 = key2

\* An entry of the reverse maps belongs to a table, or to a pointer from
\* before Clear.
ReverseExplained ==
  \A x \in Maps \X Addrs : reverse[x] # None =>
    \/ twiddles[reverse[x]] # Absent /\ reverse[x].map = x[1] /\ twiddles[reverse[x]].addr = x[2]
    \/ \E r \in old : Key(r).map = x[1] /\ ptr[r] = x[2]

\* While pointers from before Clear are left, there is no table.
OldAlone ==
  /\ old \subseteq Held
  /\ old # {} => /\ \A key \in Keys : twiddles[key] = Absent
                 /\ \A n \in Nodes : st[n] # "create"

\* A node has pointers to what it needs and has asked for, and a node that
\* does not exist has none.
HeldNeeded ==
  /\ \A r \in Held : need[r] # None /\ r \in got
  /\ \A r \in Refs : st[r[1]] = "none" => ptr[r] = None /\ r \notin got

\* The maps agree with each other and with the pointers of the nodes.
Consistent ==
  /\ \A r \in Held \ old : twiddles[Key(r)].addr = ptr[r]
  /\ EntriesCounted
  /\ AddressesDiffer
  /\ ReverseExplained
  /\ OldAlone

IInv == TypeOK /\ HeldNeeded /\ (~ destroyed => Consistent)

------------------------------------------------------------------------------
(* Facts about keys, entries and references *)

\* A table's key is a key of one of the three maps.
LEMMA KeyFacts ==
  ASSUME NEW t \in Tables
  PROVE  KeyOf(t) \in Keys /\ KeyOf(t).map \in Maps
  BY RepoAssumption DEF Keys, KeyOf

LEMMA KeyMap ==
  ASSUME NEW key \in Keys
  PROVE  key.map \in Maps
  BY KeyFacts DEF Keys

\* An entry has an address and a positive count; where there is none, neither.
LEMMA EntryFacts ==
  ASSUME TypeOK, NEW key \in Keys
  PROVE  /\ twiddles[key] = Absent <=> twiddles[key].addr = None
         /\ twiddles[key] = Absent <=> twiddles[key].count = 0
         /\ twiddles[key] # Absent => /\ twiddles[key] \in Entries
                                      /\ twiddles[key].addr \in Addrs
                                      /\ twiddles[key].made \in Tables
                                      /\ twiddles[key].count \in Nat \ {0}
  BY RepoAssumption DEF TypeOK, Entries, Absent

\* A pointer that is not null leads to a table of a node that needs it.
LEMMA HeldFacts ==
  ASSUME TypeOK, HeldNeeded, NEW r \in Held
  PROVE  /\ r \in Refs /\ r \in got
         /\ ptr[r] \in Addrs
         /\ need[r] \in Tables
         /\ Key(r) \in Keys /\ Key(r).map \in Maps
         /\ <<Key(r).map, ptr[r]>> \in Maps \X Addrs
  BY KeyFacts DEF TypeOK, HeldNeeded, Held, Key

\* A node asks for a table that it needs and has no pointer to, and no
\* pointers are left from before Clear.
LEMMA GetFacts ==
  ASSUME IInv, NEW n \in Nodes, NEW k \in Kinds, CanGet(n, k)
  PROVE  /\ <<n, k>> \in Refs /\ <<n, k>> \notin Held
         /\ need[<<n, k>>] \in Tables
         /\ Key(<<n, k>>) \in Keys /\ Key(<<n, k>>).map \in Maps
         /\ st[n] = "create"
         /\ ~ destroyed => old = {}
  <1>1. /\ <<n, k>> \in Refs
        /\ need[<<n, k>>] # None /\ <<n, k>> \notin got /\ st[n] = "create"
    BY DEF CanGet, FirstOf, Pending, Refs
  <1>2. need[<<n, k>>] \in Tables
    BY <1>1 DEF IInv, TypeOK
  <1>3. ~ destroyed => old = {}
    BY <1>1 DEF IInv, Consistent, OldAlone
  <1>4. <<n, k>> \notin Held
    BY <1>1 DEF IInv, HeldNeeded
  <1> QED
    BY <1>1, <1>2, <1>3, <1>4, KeyFacts DEF Key

LEMMA RefsFinite == IsFiniteSet(Refs)
  <1>1. IsFiniteSet(Kinds)
    <2>1. Kinds = ({"chirp"} \cup {"twiddles"}) \cup {"large"}
      BY DEF Kinds
    <2> QED
      BY <2>1, FS_Singleton, FS_AddElement
  <1> QED
    BY <1>1, FS_Product, RepoAssumption DEF Refs

LEMMA HoldersFinite ==
  ASSUME NEW key
  PROVE  IsFiniteSet(Holders(key)) /\ Cardinality(Holders(key)) \in Nat
  <1>1. Holders(key) \in SUBSET Refs
    BY DEF Holders, Held
  <1> QED
    BY <1>1, RefsFinite, FS_Subset, FS_CardinalityType

------------------------------------------------------------------------------
(* Every step preserves the invariant *)

LEMMA InitIInv == Init => IInv
  <1> SUFFICES ASSUME Init PROVE IInv
    OBVIOUS
  <1>1. TypeOK
    BY DEF Init, TypeOK, Absent
  <1>2. Held = {}
    BY DEF Init, Held
  <1>3. HeldNeeded
    BY <1>2 DEF Init, HeldNeeded
  <1>4. Consistent
    BY <1>2 DEF Init, Consistent, EntriesCounted, AddressesDiffer, ReverseExplained, OldAlone
  <1> QED
    BY <1>1, <1>3, <1>4 DEF IInv

\* A step that leaves the maps, the pointers and what they are for as they
\* are keeps the maps consistent.
LEMMA SameTables ==
  ASSUME IInv, ~ destroyed, UNCHANGED <<repo, ptr, old>>,
         \A r \in Held : need'[r] = need[r],
         old # {} => \A n \in Nodes : st'[n] # "create"
  PROVE  Consistent'
  <1>1. Held' = Held /\ \A r \in Held : Key(r)' = Key(r)
    BY DEF Held, Key
  <1>2. \A key : Holders(key)' = Holders(key)
    BY <1>1 DEF Holders
  <1>3. /\ twiddles' = twiddles /\ reverse' = reverse /\ ptr' = ptr /\ old' = old
        /\ old \subseteq Held
    BY DEF repo, IInv, Consistent, OldAlone
  <1>4. EntriesCounted' /\ AddressesDiffer'
    BY <1>2, <1>3 DEF IInv, Consistent, EntriesCounted, AddressesDiffer
  <1>5. ReverseExplained'
    BY <1>1, <1>3 DEF IInv, Consistent, ReverseExplained
  <1>6. OldAlone'
    BY <1>1, <1>3 DEF IInv, Consistent, OldAlone
  <1> QED
    BY <1>1, <1>3, <1>4, <1>5, <1>6 DEF IInv, Consistent

LEMMA CreateNodeStep ==
  ASSUME IInv, NEW n \in Nodes, NEW f \in Needs, CreateNode(n, f)
  PROVE  IInv'
  <1>1. /\ st[n] = "none" /\ old = {} /\ UNCHANGED <<repo, got, ptr, old>>
        /\ st' = [st EXCEPT ![n] = "create"]
        /\ need' = [r \in Refs |-> IF r[1] = n THEN f[r[2]] ELSE need[r]]
    BY DEF CreateNode
  <1>2. \A r \in Refs : r[1] \in Nodes /\ r[2] \in Kinds
    BY DEF Refs
  <1>3. f \in [Kinds -> Tables \cup {None}]
    BY RepoAssumption
  <1>4. TypeOK'
    BY <1>1, <1>2, <1>3 DEF IInv, TypeOK, repo
  <1>5. \A r \in Held : r[1] # n
    BY <1>1 DEF Held, IInv, HeldNeeded
  <1>6. \A r \in Held : need'[r] = need[r]
    BY <1>1, <1>5 DEF Held
  <1>7. HeldNeeded'
    BY <1>1, <1>2, <1>6 DEF IInv, HeldNeeded, Held, TypeOK
  <1>8. ~ destroyed => Consistent'
    BY <1>1, <1>6, SameTables
  <1> QED
    BY <1>1, <1>4, <1>7, <1>8 DEF IInv, repo

\* The steps that change only a node's state, or what it has asked for.
LEMMA NodeStateStep ==
  ASSUME IInv, NEW n \in Nodes,
         \/ \E k \in Kinds : TableEmpty(n, k)
         \/ \E k \in Kinds : GetThrows(n, k)
         \/ CreateDone(n)
         \/ DestroyNode(n)
  PROVE  IInv'
  <1>1. CASE \E k \in Kinds : TableEmpty(n, k)
    <2> PICK k \in Kinds : TableEmpty(n, k)
      BY <1>1
    <2>1. /\ CanGet(n, k) /\ UNCHANGED <<repo, st, need, ptr, old>>
          /\ got' = got \cup {<<n, k>>}
      BY DEF TableEmpty
    <2>2. <<n, k>> \in Refs /\ st[n] = "create"
      BY <2>1, GetFacts
    <2>3. TypeOK'
      BY <2>1, <2>2 DEF IInv, TypeOK, repo
    <2>4. HeldNeeded'
      BY <2>1, <2>2 DEF IInv, HeldNeeded, Held
    <2>5. ~ destroyed => Consistent'
      BY <2>1, SameTables DEF IInv, Consistent, OldAlone
    <2> QED
      BY <2>1, <2>3, <2>4, <2>5 DEF IInv, repo
  <1>2. CASE (\E k \in Kinds : GetThrows(n, k)) \/ CreateDone(n) \/ DestroyNode(n)
    <2>1. /\ st[n] \in {"create", "ready"} /\ UNCHANGED <<repo, need, got, ptr, old>>
          /\ \/ st' = [st EXCEPT ![n] = "destroy"]
             \/ st' = [st EXCEPT ![n] = "ready"]
      BY <1>2 DEF GetThrows, CreateDone, DestroyNode, CanGet
    <2>2. TypeOK'
      BY <2>1 DEF IInv, TypeOK, repo
    <2>3. HeldNeeded'
      <3>1. \A r \in Refs : r[1] \in Nodes
        BY DEF Refs
      <3>2. \A m \in Nodes : st'[m] = "none" => st[m] = "none"
        BY <2>1 DEF IInv, TypeOK
      <3> QED
        BY <2>1, <3>1, <3>2 DEF IInv, HeldNeeded, Held
    <2>4. old # {} /\ ~ destroyed => \A m \in Nodes : st'[m] # "create"
      BY <2>1 DEF IInv, Consistent, OldAlone, TypeOK
    <2>5. ~ destroyed => Consistent'
      BY <2>1, <2>4, SameTables
    <2> QED
      BY <2>1, <2>2, <2>3, <2>5 DEF IInv, repo
  <1> QED
    BY <1>1, <1>2

LEMMA NodeGoneStep ==
  ASSUME IInv, NEW n \in Nodes, NodeGone(n)
  PROVE  IInv'
  <1>1. /\ \A k \in Kinds : ptr[<<n, k>>] = None
        /\ UNCHANGED <<repo, ptr, old>>
        /\ st' = [st EXCEPT ![n] = "none"]
        /\ need' = [r \in Refs |-> IF r[1] = n THEN None ELSE need[r]]
        /\ got' = {r \in got : r[1] # n}
    BY DEF NodeGone
  <1>2. \A r \in Refs : r[1] = n => ptr[r] = None
    BY <1>1 DEF Refs
  <1>3. TypeOK'
    BY <1>1 DEF IInv, TypeOK, repo
  <1>4. \A r \in Held : r[1] # n /\ need'[r] = need[r]
    BY <1>1, <1>2 DEF Held
  <1>5. HeldNeeded'
    BY <1>1, <1>2, <1>4 DEF IInv, HeldNeeded, Held, TypeOK, Refs
  <1>6. old # {} /\ ~ destroyed => \A m \in Nodes : st'[m] # "create"
    BY <1>1 DEF IInv, Consistent, OldAlone, TypeOK
  <1>7. ~ destroyed => Consistent'
    BY <1>1, <1>4, <1>6, SameTables
  <1> QED
    BY <1>1, <1>3, <1>5, <1>7 DEF IInv, repo

\* A node gets a pointer to a table, found or created: it becomes one more
\* holder of its key, and of no other.
LEMMA OneMoreHolder ==
  ASSUME IInv, ~ destroyed, NEW n \in Nodes, NEW k \in Kinds, CanGet(n, k),
         NEW a \in Addrs, ptr' = [ptr EXCEPT ![<<n, k>>] = a],
         got' = got \cup {<<n, k>>}, UNCHANGED <<st, need, old>>
  PROVE  /\ Held' = Held \cup {<<n, k>>}
         /\ HeldNeeded'
         /\ \A r \in Held' : Key(r)' = Key(r)
         /\ \A key : Holders(key)' = IF key = Key(<<n, k>>) THEN Holders(key) \cup {<<n, k>>}
                                     ELSE Holders(key)
         /\ \A key : <<n, k>> \notin Holders(key)
  <1> DEFINE r == <<n, k>>
  <1>1. /\ r \in Refs /\ r \notin Held /\ need[r] \in Tables /\ st[n] = "create"
        /\ old = {} /\ a # None
    BY GetFacts, RepoAssumption
  <1>2. ptr'[r] = a /\ \A x \in Refs : x # r => ptr'[x] = ptr[x]
    BY <1>1 DEF IInv, TypeOK
  <1> HIDE DEF r
  <1>3. Held' = Held \cup {r}
    BY <1>1, <1>2 DEF Held
  <1>4. \A x : Key(x)' = Key(x)
    BY DEF Key
  <1>5. \A key : key = Key(r) => Holders(key)' = Holders(key) \cup {r}
    BY <1>1, <1>3, <1>4 DEF Holders
  <1>6. \A key : key # Key(r) => Holders(key)' = Holders(key)
    BY <1>1, <1>3, <1>4 DEF Holders
  <1>7. HeldNeeded'
    <2>1. need[r] # None
      BY <1>1, RepoAssumption
    <2>2. \A x \in Held' : need'[x] # None /\ x \in got'
      BY <1>3, <2>1 DEF IInv, HeldNeeded, r
    <2>3. \A x \in Refs : st'[x[1]] = "none" => ptr'[x] = None /\ x \notin got'
      <3> SUFFICES ASSUME NEW x \in Refs, st[x[1]] = "none"
                   PROVE  ptr'[x] = None /\ x \notin got'
        OBVIOUS
      <3>1. x # r
        BY <1>1 DEF r
      <3> QED
        BY <1>2, <3>1 DEF IInv, HeldNeeded, r
    <2> QED
      BY <2>2, <2>3 DEF HeldNeeded
  <1>8. \A key : r \notin Holders(key)
    BY <1>1 DEF Holders
  <1> QED
    BY <1>3, <1>4, <1>5, <1>6, <1>7, <1>8 DEF r

LEMMA TableFoundStep ==
  ASSUME IInv, NEW n \in Nodes, NEW k \in Kinds, TableFound(n, k)
  PROVE  IInv'
  <1> DEFINE r == <<n, k>>
             K == Key(r)
             e == twiddles[K]
  <1>1. /\ CanGet(n, k) /\ ~ destroyed /\ e # Absent
        /\ twiddles' = [twiddles EXCEPT ![K].count = @ + 1]
        /\ ptr' = [ptr EXCEPT ![r] = e.addr]
        /\ got' = got \cup {r}
        /\ UNCHANGED <<reverse, destroyed, st, need, old>>
    BY DEF TableFound
  <1>2. /\ r \in Refs /\ r \notin Held /\ need[r] \in Tables /\ K \in Keys
        /\ K.map \in Maps /\ old = {}
    BY <1>1, GetFacts
  <1>3. e \in Entries /\ e.addr \in Addrs /\ e.count \in Nat \ {0}
    BY <1>1, <1>2, EntryFacts DEF IInv
  <1>4. /\ twiddles'[K].addr = e.addr /\ twiddles'[K].made = e.made
        /\ twiddles'[K].count = e.count + 1 /\ twiddles'[K] \in Entries
        /\ \A key \in Keys : key # K => twiddles'[key] = twiddles[key]
    BY <1>1, <1>2, <1>3 DEF IInv, TypeOK, Entries
  <1>5. TypeOK'
    <2>1. twiddles' \in [Keys -> Entries \cup {Absent}]
      BY <1>1, <1>2, <1>4 DEF IInv, TypeOK
    <2> QED
      BY <1>1, <1>2, <1>3, <2>1 DEF IInv, TypeOK
  <1>6. /\ Held' = Held \cup {r} /\ HeldNeeded'
        /\ \A x \in Held' : Key(x)' = Key(x)
        /\ \A key : Holders(key)' = IF key = K THEN Holders(key) \cup {r} ELSE Holders(key)
        /\ \A key : r \notin Holders(key)
    BY <1>1, <1>3, OneMoreHolder
  <1>7. \A x \in Held : ptr'[x] = ptr[x]
    BY <1>1, <1>2 DEF Held, IInv, TypeOK
  <1>8. ptr'[r] = e.addr
    BY <1>1, <1>2 DEF IInv, TypeOK
  <1>9. twiddles'[K] # Absent
    BY <1>4, RepoAssumption DEF Absent, Entries
  <1>10. K \in Keys /\ \A key \in Keys : /\ twiddles'[key].addr = twiddles[key].addr
                                         /\ twiddles'[key] # Absent <=> twiddles[key] # Absent
                                         /\ twiddles'[key].made = twiddles[key].made
    BY <1>1, <1>2, <1>4, <1>9
  <1> HIDE DEF r, K, e
  <1>11. \A x \in Held' \ old' : twiddles'[Key(x)'].addr = ptr'[x]
    <2> SUFFICES ASSUME NEW x \in Held' \ old'
                 PROVE  twiddles'[Key(x)'].addr = ptr'[x]
      OBVIOUS
    <2>1. CASE x = r
      BY <1>4, <1>6, <1>8, <2>1 DEF K
    <2>2. CASE x \in Held
      <3>1. twiddles[Key(x)].addr = ptr[x] /\ Key(x) \in Keys
        BY <1>1, <1>2, <2>2, HeldFacts DEF IInv, Consistent
      <3> QED
        BY <1>6, <1>7, <1>10, <2>2, <3>1
    <2> QED
      BY <1>6, <2>1, <2>2
  <1>12. EntriesCounted'
    <2> SUFFICES ASSUME NEW key \in Keys, twiddles'[key] # Absent
                 PROVE  /\ twiddles'[key].count = Cardinality(Holders(key)')
                        /\ reverse'[<<key.map, twiddles'[key].addr>>] = key
                        /\ KeyOf(twiddles'[key].made) = key
      BY DEF EntriesCounted
    <2>1. /\ twiddles[key].count = Cardinality(Holders(key))
          /\ reverse[<<key.map, twiddles[key].addr>>] = key
          /\ KeyOf(twiddles[key].made) = key
      BY <1>1, <1>10 DEF IInv, Consistent, EntriesCounted
    <2>2. twiddles'[key].count = Cardinality(Holders(key)')
      <3>1. CASE key = K
        <4>1. Cardinality(Holders(key) \cup {r}) = Cardinality(Holders(key)) + 1
          BY <1>6, HoldersFinite, FS_AddElement
        <4> QED
          BY <1>4, <1>6, <2>1, <3>1, <4>1 DEF e
      <3>2. CASE key # K
        BY <1>4, <1>6, <2>1, <3>2
      <3> QED
        BY <3>1, <3>2
    <2> QED
      BY <1>1, <1>10, <2>1, <2>2
  <1>13. AddressesDiffer'
    BY <1>1, <1>10 DEF IInv, Consistent, AddressesDiffer
  <1>14. ReverseExplained'
    <2> SUFFICES ASSUME NEW x \in Maps \X Addrs, reverse[x] # None
                 PROVE  /\ twiddles'[reverse[x]] # Absent
                        /\ reverse[x].map = x[1] /\ twiddles'[reverse[x]].addr = x[2]
      BY <1>1 DEF ReverseExplained
    <2>1. reverse[x] \in Keys
      BY DEF IInv, TypeOK
    <2> QED
      BY <1>1, <1>2, <1>10, <2>1 DEF IInv, Consistent, ReverseExplained
  <1>15. OldAlone'
    BY <1>1, <1>2 DEF OldAlone
  <1> QED
    BY <1>1, <1>5, <1>6, <1>11, <1>12, <1>13, <1>14, <1>15 DEF IInv, Consistent

LEMMA TableCreatedStep ==
  ASSUME IInv, NEW n \in Nodes, NEW k \in Kinds, NEW a \in Addrs, TableCreated(n, k, a)
  PROVE  IInv'
  <1> DEFINE r == <<n, k>>
             K == Key(r)
             x0 == <<K.map, a>>
  <1>1. /\ CanGet(n, k) /\ ~ destroyed /\ twiddles[K] = Absent
        /\ \A key \in Keys : twiddles[key].addr # a
        /\ twiddles' = [twiddles EXCEPT ![K] = [addr |-> a, made |-> need[r], count |-> 1]]
        /\ reverse' = [reverse EXCEPT ![x0] = IF @ = None THEN K ELSE @]
        /\ ptr' = [ptr EXCEPT ![r] = a]
        /\ got' = got \cup {r}
        /\ UNCHANGED <<destroyed, st, need, old>>
    BY DEF TableCreated
  <1>2. /\ r \in Refs /\ r \notin Held /\ need[r] \in Tables /\ K \in Keys
        /\ K.map \in Maps /\ old = {} /\ x0 \in Maps \X Addrs
    BY <1>1, GetFacts
  <1>3. /\ twiddles'[K].addr = a /\ twiddles'[K].made = need[r]
        /\ twiddles'[K].count = 1 /\ twiddles'[K] \in Entries
        /\ \A key \in Keys : key # K => twiddles'[key] = twiddles[key]
    BY <1>1, <1>2 DEF IInv, TypeOK, Entries
  <1>4. reverse[x0] = None
    \* With no pointer from before Clear, an entry would belong to a table at
    \* this address.
    <2> SUFFICES ASSUME reverse[x0] # None PROVE FALSE
      OBVIOUS
    <2>1. reverse[x0] \in Keys
      BY <1>2 DEF IInv, TypeOK
    <2>2. twiddles[reverse[x0]].addr = x0[2]
      BY <1>1, <1>2 DEF IInv, Consistent, ReverseExplained
    <2> QED
      BY <1>1, <2>1, <2>2
  <1>5. /\ reverse'[x0] = K
        /\ \A x \in Maps \X Addrs : x # x0 => reverse'[x] = reverse[x]
    BY <1>1, <1>2, <1>4 DEF IInv, TypeOK
  <1>6. TypeOK'
    <2>1. twiddles' \in [Keys -> Entries \cup {Absent}]
      BY <1>1, <1>2, <1>3 DEF IInv, TypeOK
    <2>2. reverse' \in [Maps \X Addrs -> Keys \cup {None}]
      BY <1>1, <1>2 DEF IInv, TypeOK
    <2> QED
      BY <1>1, <1>2, <2>1, <2>2 DEF IInv, TypeOK
  <1>7. /\ Held' = Held \cup {r} /\ HeldNeeded'
        /\ \A x \in Held' : Key(x)' = Key(x)
        /\ \A key : Holders(key)' = IF key = K THEN Holders(key) \cup {r} ELSE Holders(key)
        /\ \A key : r \notin Holders(key)
    BY <1>1, OneMoreHolder
  <1>8. (\A x \in Held : ptr'[x] = ptr[x]) /\ ptr'[r] = a
    BY <1>1, <1>2 DEF Held, IInv, TypeOK
  \* Nobody has a pointer to a table that is not there.
  <1>9. \A x \in Held : Key(x) # K /\ Key(x) \in Keys /\ twiddles[Key(x)].addr = ptr[x]
    <2> SUFFICES ASSUME NEW x \in Held
                 PROVE  Key(x) # K /\ Key(x) \in Keys /\ twiddles[Key(x)].addr = ptr[x]
      OBVIOUS
    <2>1. Key(x) \in Keys /\ ptr[x] \in Addrs /\ twiddles[Key(x)].addr = ptr[x]
      BY <1>1, <1>2, HeldFacts DEF IInv, Consistent
    <2> QED
      BY <1>1, <2>1, RepoAssumption DEF Absent
  <1>10. K = KeyOf(need[r]) /\ x0[1] = K.map /\ x0[2] = a
    BY DEF Key
  <1>11. twiddles'[K] # Absent
    BY <1>3, RepoAssumption DEF Absent, Entries
  <1> HIDE DEF r, K
  <1>12. \A x \in Held' \ old' : twiddles'[Key(x)'].addr = ptr'[x]
    <2> SUFFICES ASSUME NEW x \in Held' \ old'
                 PROVE  twiddles'[Key(x)'].addr = ptr'[x]
      OBVIOUS
    <2>1. CASE x = r
      BY <1>3, <1>7, <1>8, <2>1 DEF K
    <2>2. CASE x \in Held
      BY <1>3, <1>7, <1>8, <1>9, <2>2
    <2> QED
      BY <1>7, <2>1, <2>2
  <1>13. EntriesCounted'
    <2> SUFFICES ASSUME NEW key \in Keys, twiddles'[key] # Absent
                 PROVE  /\ twiddles'[key].count = Cardinality(Holders(key)')
                        /\ reverse'[<<key.map, twiddles'[key].addr>>] = key
                        /\ KeyOf(twiddles'[key].made) = key
      BY DEF EntriesCounted
    <2>1. CASE key = K
      <3>1. Holders(key) = {}
        BY <1>9, <2>1 DEF Holders
      <3>2. Cardinality(Holders(key)') = 1
        <4>1. Holders(key)' = {r}
          BY <1>7, <2>1, <3>1
        <4> QED
          BY <4>1, FS_Singleton
      <3>3. reverse'[<<key.map, twiddles'[key].addr>>] = key
        BY <1>3, <1>5, <2>1
      <3>4. KeyOf(twiddles'[key].made) = key
        BY <1>3, <1>10, <2>1
      <3> QED
        BY <1>3, <2>1, <3>2, <3>3, <3>4
    <2>2. CASE key # K
      <3>1. /\ twiddles[key] # Absent /\ twiddles[key].count = Cardinality(Holders(key))
            /\ reverse[<<key.map, twiddles[key].addr>>] = key
            /\ KeyOf(twiddles[key].made) = key
        BY <1>1, <1>3, <2>2 DEF IInv, Consistent, EntriesCounted
      <3>2. /\ <<key.map, twiddles[key].addr>> \in Maps \X Addrs
            /\ <<key.map, twiddles[key].addr>> # x0
        BY <1>1, <3>1, KeyMap, EntryFacts DEF IInv
      <3> QED
        BY <1>3, <1>5, <1>7, <2>2, <3>1, <3>2
    <2> QED
      BY <2>1, <2>2
  <1>14. AddressesDiffer'
    BY <1>1, <1>3 DEF IInv, Consistent, AddressesDiffer
  <1>15. ReverseExplained'
    <2> SUFFICES ASSUME NEW x \in Maps \X Addrs, reverse'[x] # None
                 PROVE  /\ twiddles'[reverse'[x]] # Absent
                        /\ reverse'[x].map = x[1] /\ twiddles'[reverse'[x]].addr = x[2]
      BY DEF ReverseExplained
    <2>1. CASE x = x0
      BY <1>3, <1>5, <1>10, <1>11, <2>1
    <2>2. CASE x # x0
      <3>1. reverse'[x] = reverse[x] /\ reverse[x] \in Keys
        BY <1>5, <2>2 DEF IInv, TypeOK
      <3>2. /\ twiddles[reverse[x]] # Absent /\ reverse[x].map = x[1]
            /\ twiddles[reverse[x]].addr = x[2]
        BY <1>1, <1>2, <3>1 DEF IInv, Consistent, ReverseExplained
      <3> QED
        BY <1>1, <1>3, <3>1, <3>2
    <2> QED
      BY <2>1, <2>2
  <1>16. OldAlone'
    BY <1>1, <1>2 DEF OldAlone
  <1> QED
    BY <1>1, <1>6, <1>7, <1>12, <1>13, <1>14, <1>15, <1>16 DEF IInv, Consistent

\* A node gives a pointer up: only that pointer is gone, and it is no holder
\* of its key any more.
LEMMA OneHolderLess ==
  ASSUME IInv, NEW r \in Held, ptr' = [ptr EXCEPT ![r] = None], old' = old \ {r},
         UNCHANGED <<st, need, got>>
  PROVE  /\ Held' = Held \ {r}
         /\ \A x \in Held' : ptr'[x] = ptr[x] /\ Key(x)' = Key(x)
         /\ \A x : Key(x)' = Key(x)
         /\ HeldNeeded'
         /\ \A key : Holders(key)' = Holders(key) \ {r}
  <1>1. /\ r \in Refs /\ ptr'[r] = None /\ \A x \in Refs : x # r => ptr'[x] = ptr[x]
    BY DEF Held, IInv, TypeOK
  <1>2. Held' = Held \ {r}
    BY <1>1 DEF Held
  <1>3. \A x : Key(x)' = Key(x)
    BY DEF Key
  <1>4. \A x \in Held' : ptr'[x] = ptr[x] /\ Key(x)' = Key(x)
    BY <1>1, <1>2, <1>3 DEF Held
  <1>5. HeldNeeded'
    BY <1>1, <1>2 DEF IInv, HeldNeeded
  <1>6. \A key : Holders(key)' = Holders(key) \ {r}
    BY <1>2, <1>3 DEF Holders
  <1> QED
    BY <1>2, <1>3, <1>4, <1>5, <1>6

\* The release of a pointer from before Clear: an orphan is erased, or there
\* is nothing to do.
LEMMA ReleaseOld ==
  ASSUME IInv, ~ destroyed, NEW r \in old, r \in Held,
         ptr' = [ptr EXCEPT ![r] = None], old' = old \ {r},
         UNCHANGED <<destroyed, st, need, got>>,
         \/ ReleaseInMaps(<<Key(r).map, ptr[r]>>)
         \/ reverse[<<Key(r).map, ptr[r]>>] = None /\ UNCHANGED <<twiddles, reverse>>
  PROVE  IInv'
  <1> DEFINE x0 == <<Key(r).map, ptr[r]>>
  <1>1. x0 \in Maps \X Addrs
    BY HeldFacts DEF IInv
  <1>2. /\ \A key \in Keys : twiddles[key] = Absent
        /\ \A n \in Nodes : st[n] # "create"
        /\ old \subseteq Held
    BY DEF IInv, Consistent, OldAlone
  <1>3. /\ twiddles' = twiddles
        /\ reverse' = [reverse EXCEPT ![x0] = None] \/ (reverse[x0] = None /\ reverse' = reverse)
    <2>1. reverse[x0] # None => twiddles[reverse[x0]] = Absent
      BY <1>1, <1>2 DEF IInv, TypeOK
    <2> QED
      BY <2>1 DEF ReleaseInMaps
  <1>4. reverse'[x0] = None /\ \A x \in Maps \X Addrs : x # x0 => reverse'[x] = reverse[x]
    BY <1>1, <1>3 DEF IInv, TypeOK
  <1>5. /\ Held' = Held \ {r} /\ HeldNeeded'
        /\ \A x \in Held' : ptr'[x] = ptr[x] /\ Key(x)' = Key(x)
        /\ \A x : Key(x)' = Key(x)
    BY OneHolderLess
  <1>6. TypeOK'
    BY <1>1, <1>3 DEF IInv, TypeOK, Held
  <1>7. \A x \in Held : x \in old
    <2> SUFFICES ASSUME NEW x \in Held, x \notin old PROVE FALSE
      OBVIOUS
    <2>1. twiddles[Key(x)].addr = ptr[x] /\ ptr[x] \in Addrs /\ Key(x) \in Keys
      BY HeldFacts DEF IInv, Consistent
    <2> QED
      BY <1>2, <2>1, RepoAssumption DEF Absent
  <1>8. Held' \ old' = {}
    BY <1>5, <1>7
  <1>9. EntriesCounted' /\ AddressesDiffer'
    BY <1>2, <1>3 DEF EntriesCounted, AddressesDiffer
  <1>10. ReverseExplained'
    <2> SUFFICES ASSUME NEW x \in Maps \X Addrs, reverse'[x] # None
                 PROVE  \E y \in old' : Key(y)'.map = x[1] /\ ptr'[y] = x[2]
      BY DEF ReverseExplained
    <2>1. x # x0 /\ reverse[x] # None /\ reverse[x] \in Keys
      BY <1>4 DEF IInv, TypeOK
    <2>2. PICK y \in old : Key(y).map = x[1] /\ ptr[y] = x[2]
      BY <1>2, <2>1 DEF IInv, Consistent, ReverseExplained
    <2>3. y # r
      BY <2>1, <2>2
    <2>4. y \in old' /\ y \in Held'
      BY <1>2, <1>5, <2>3
    <2> QED
      BY <1>5, <2>2, <2>4
  <1>11. OldAlone'
    BY <1>2, <1>3, <1>5 DEF OldAlone
  <1> QED
    BY <1>5, <1>6, <1>8, <1>9, <1>10, <1>11 DEF IInv, Consistent

\* The release of a pointer to a table in the Repo: the reverse map leads to
\* its key, and the table is freed if the pointer was its last holder.
LEMMA ReleaseNew ==
  ASSUME IInv, ~ destroyed, NEW r \in Held, r \notin old,
         ptr' = [ptr EXCEPT ![r] = None], old' = old \ {r},
         UNCHANGED <<destroyed, st, need, got>>,
         \/ ReleaseInMaps(<<Key(r).map, ptr[r]>>)
         \/ reverse[<<Key(r).map, ptr[r]>>] = None /\ UNCHANGED <<twiddles, reverse>>
  PROVE  IInv'
  <1> DEFINE K == Key(r)
             x0 == <<K.map, ptr[r]>>
             e == twiddles[K]
  <1>1. /\ x0 \in Maps \X Addrs /\ K \in Keys /\ K # None
        /\ ptr[r] \in Addrs /\ ptr[r] # None
    BY HeldFacts, RepoAssumption DEF IInv
  <1>2. e.addr = ptr[r] /\ e # Absent
    BY <1>1, EntryFacts DEF IInv, Consistent
  <1>3. /\ e \in Entries /\ e.count \in Nat \ {0} /\ e.count = Cardinality(Holders(K))
        /\ reverse[x0] = K
    BY <1>1, <1>2, EntryFacts DEF IInv, Consistent, EntriesCounted
  <1>4. old = {} /\ old' = {}
    BY <1>1, <1>2 DEF IInv, Consistent, OldAlone
  <1>5. \/ /\ e.count # 1
           /\ twiddles' = [twiddles EXCEPT ![K].count = @ - 1]
           /\ reverse' = reverse
        \/ /\ e.count = 1
           /\ twiddles' = [twiddles EXCEPT ![K] = Absent]
           /\ reverse' = [reverse EXCEPT ![x0] = None]
    BY <1>1, <1>2, <1>3 DEF ReleaseInMaps
  <1>6. /\ Held' = Held \ {r} /\ HeldNeeded'
        /\ \A x \in Held' : ptr'[x] = ptr[x] /\ Key(x)' = Key(x)
        /\ \A key : Holders(key)' = Holders(key) \ {r}
    BY OneHolderLess
  <1>7. \A key \in Keys : key # K => twiddles'[key] = twiddles[key] /\ Holders(key)' = Holders(key)
    <2>1. \A key \in Keys : key # K => twiddles'[key] = twiddles[key]
      BY <1>5 DEF IInv, TypeOK
    <2>2. \A key : key # K => r \notin Holders(key)
      BY DEF Holders
    <2> QED
      BY <1>6, <2>1, <2>2
  <1>8. r \in Holders(K)
    BY DEF Holders
  <1>9. OldAlone'
    BY <1>4 DEF OldAlone
  <1>10. K.map = x0[1] /\ ptr[r] = x0[2]
    OBVIOUS
  <1>11. CASE e.count # 1
    <2>1. /\ twiddles'[K].addr = e.addr /\ twiddles'[K].made = e.made
          /\ twiddles'[K].count = e.count - 1 /\ twiddles'[K] \in Entries
          /\ twiddles' \in [Keys -> Entries \cup {Absent}]
          /\ reverse' = reverse
      <3>1. e.count - 1 \in Nat \ {0}
        BY <1>3, <1>11
      <3>2. /\ reverse' = reverse
            /\ twiddles'[K] = [e EXCEPT !.count = @ - 1]
        BY <1>1, <1>5, <1>11 DEF IInv, TypeOK
      <3>3. [e EXCEPT !.count = @ - 1] = [addr |-> e.addr, made |-> e.made, count |-> e.count - 1]
        BY <1>3 DEF Entries
      <3>4. twiddles'[K] \in Entries
        BY <1>3, <3>1, <3>2, <3>3 DEF Entries
      <3>5. twiddles' \in [Keys -> Entries \cup {Absent}]
        BY <1>1, <1>5, <1>11, <3>4 DEF IInv, TypeOK
      <3> QED
        BY <3>2, <3>3, <3>4, <3>5
    <2>2. twiddles'[K] # Absent
      BY <2>1, RepoAssumption DEF Absent, Entries
    <2>3. \A key \in Keys : /\ twiddles'[key].addr = twiddles[key].addr
                            /\ twiddles'[key] # Absent <=> twiddles[key] # Absent
                            /\ twiddles'[key].made = twiddles[key].made
      BY <1>2, <1>7, <2>1, <2>2
    <2>4. TypeOK'
      BY <2>1 DEF IInv, TypeOK, Held
    <2> HIDE DEF K, e
    <2>5. \A x \in Held' \ old' : twiddles'[Key(x)'].addr = ptr'[x]
      <3> SUFFICES ASSUME NEW x \in Held' PROVE twiddles'[Key(x)'].addr = ptr'[x]
        OBVIOUS
      <3>1. x \in Held /\ x \notin old
        BY <1>4, <1>6
      <3>2. twiddles[Key(x)].addr = ptr[x] /\ Key(x) \in Keys
        BY <3>1, HeldFacts DEF IInv, Consistent
      <3> QED
        BY <1>6, <2>3, <3>2
    <2>6. EntriesCounted'
      <3> SUFFICES ASSUME NEW key \in Keys, twiddles'[key] # Absent
                   PROVE  /\ twiddles'[key].count = Cardinality(Holders(key)')
                          /\ reverse'[<<key.map, twiddles'[key].addr>>] = key
                          /\ KeyOf(twiddles'[key].made) = key
        BY DEF EntriesCounted
      <3>1. /\ twiddles[key].count = Cardinality(Holders(key))
            /\ reverse[<<key.map, twiddles[key].addr>>] = key
            /\ KeyOf(twiddles[key].made) = key
        BY <2>3 DEF IInv, Consistent, EntriesCounted
      <3>2. twiddles'[key].count = Cardinality(Holders(key)')
        <4>1. CASE key = K
          <5>1. Cardinality(Holders(key) \ {r}) = Cardinality(Holders(key)) - 1
            BY <1>8, <4>1, HoldersFinite, FS_RemoveElement
          <5>2. Cardinality(Holders(key)') = Cardinality(Holders(key)) - 1
            BY <1>6, <5>1
          <5> QED
            BY <2>1, <3>1, <4>1, <5>2 DEF e
        <4>2. CASE key # K
          BY <1>7, <3>1, <4>2
        <4> QED
          BY <4>1, <4>2
      <3> QED
        BY <2>1, <2>3, <3>1, <3>2
    <2>7. AddressesDiffer'
      BY <2>3 DEF IInv, Consistent, AddressesDiffer
    <2>8. ReverseExplained'
      <3> SUFFICES ASSUME NEW x \in Maps \X Addrs, reverse[x] # None
                   PROVE  /\ twiddles'[reverse[x]] # Absent
                          /\ reverse[x].map = x[1] /\ twiddles'[reverse[x]].addr = x[2]
        BY <2>1 DEF ReverseExplained
      <3>1. reverse[x] \in Keys
        BY DEF IInv, TypeOK
      <3> QED
        BY <1>4, <2>3, <3>1 DEF IInv, Consistent, ReverseExplained
    <2> QED
      BY <1>6, <1>9, <2>4, <2>5, <2>6, <2>7, <2>8 DEF IInv, Consistent
  <1>12. CASE e.count = 1
    <2>1. /\ twiddles'[K] = Absent /\ reverse'[x0] = None
          /\ \A x \in Maps \X Addrs : x # x0 => reverse'[x] = reverse[x]
      BY <1>1, <1>5, <1>12 DEF IInv, TypeOK
    <2>2. TypeOK'
      BY <1>1, <1>5, <1>12 DEF IInv, TypeOK, Held
    \* The pointer was the last one.
    <2>3. \A x \in Held : Key(x) = K => x = r
      <3>1. Cardinality(Holders(K)) = 1
        BY <1>3, <1>12
      <3>2. PICK y : Holders(K) = {y}
        BY <3>1, HoldersFinite, FS_Singleton
      <3>3. \A x \in Held : Key(x) = K => x \in Holders(K)
        BY <1>4 DEF Holders
      <3> QED
        BY <1>8, <3>2, <3>3
    <2> HIDE DEF K, e
    <2>4. \A x \in Held' \ old' : twiddles'[Key(x)'].addr = ptr'[x]
      <3> SUFFICES ASSUME NEW x \in Held' PROVE twiddles'[Key(x)'].addr = ptr'[x]
        OBVIOUS
      <3>1. x \in Held /\ x # r /\ x \notin old
        BY <1>4, <1>6
      <3>2. twiddles[Key(x)].addr = ptr[x] /\ Key(x) \in Keys
        BY <3>1, HeldFacts DEF IInv, Consistent
      <3> QED
        BY <1>6, <1>7, <2>3, <3>1, <3>2
    <2>5. \A key \in Keys : twiddles'[key] # Absent =>
            key # K /\ twiddles'[key] = twiddles[key] /\ Holders(key)' = Holders(key)
      BY <1>7, <2>1
    \* No other table is at its address.
    <2>6. \A key \in Keys : twiddles'[key] # Absent => twiddles[key].addr # ptr[r]
      BY <1>1, <1>2, <2>5 DEF IInv, Consistent, AddressesDiffer, e
    <2>7. EntriesCounted'
      <3> SUFFICES ASSUME NEW key \in Keys, twiddles'[key] # Absent
                   PROVE  /\ twiddles'[key].count = Cardinality(Holders(key)')
                          /\ reverse'[<<key.map, twiddles'[key].addr>>] = key
                          /\ KeyOf(twiddles'[key].made) = key
        BY DEF EntriesCounted
      <3>1. /\ twiddles[key] # Absent /\ twiddles[key].count = Cardinality(Holders(key))
            /\ reverse[<<key.map, twiddles[key].addr>>] = key
            /\ KeyOf(twiddles[key].made) = key
        BY <2>5 DEF IInv, Consistent, EntriesCounted
      <3>2. /\ <<key.map, twiddles[key].addr>> \in Maps \X Addrs
            /\ <<key.map, twiddles[key].addr>> # x0
        BY <2>6, <3>1, KeyMap, EntryFacts DEF IInv
      <3> QED
        BY <2>1, <2>5, <3>1, <3>2
    <2>8. AddressesDiffer'
      BY <2>5 DEF IInv, Consistent, AddressesDiffer
    <2>9. ReverseExplained'
      <3> SUFFICES ASSUME NEW x \in Maps \X Addrs, reverse'[x] # None
                   PROVE  /\ twiddles'[reverse'[x]] # Absent
                          /\ reverse'[x].map = x[1] /\ twiddles'[reverse'[x]].addr = x[2]
        BY DEF ReverseExplained
      <3>1. x # x0 /\ reverse'[x] = reverse[x] /\ reverse[x] # None /\ reverse[x] \in Keys
        BY <2>1 DEF IInv, TypeOK
      <3>2. /\ twiddles[reverse[x]] # Absent /\ reverse[x].map = x[1]
            /\ twiddles[reverse[x]].addr = x[2]
        BY <1>4, <3>1 DEF IInv, Consistent, ReverseExplained
      <3>3. reverse[x] # K
        BY <1>2, <3>1, <3>2 DEF e
      <3> QED
        BY <1>7, <3>1, <3>2, <3>3
    <2> QED
      BY <1>6, <1>9, <2>2, <2>4, <2>7, <2>8, <2>9 DEF IInv, Consistent
  <1> QED
    BY <1>11, <1>12

LEMMA ReleaseTableStep ==
  ASSUME IInv, NEW n \in Nodes, NEW k \in Kinds, ReleaseTable(n, k)
  PROVE  IInv'
  <1> DEFINE r == <<n, k>>
             x0 == <<Key(r).map, ptr[r]>>
  <1>1. /\ r \in Held
        /\ ptr' = [ptr EXCEPT ![r] = None] /\ old' = old \ {r}
        /\ UNCHANGED <<destroyed, st, need, got>>
        /\ \/ ~ destroyed /\ ReleaseInMaps(x0)
           \/ (destroyed \/ reverse[x0] = None) /\ UNCHANGED <<twiddles, reverse>>
    BY DEF ReleaseTable, FirstOf, Held, Refs
  <1> HIDE DEF r
  <1>2. CASE destroyed
    <2>1. HeldNeeded'
      BY <1>1, OneHolderLess
    <2>2. TypeOK'
      BY <1>1, <1>2 DEF IInv, TypeOK, Held
    <2> QED
      BY <1>1, <1>2, <2>1, <2>2 DEF IInv
  <1>3. CASE ~ destroyed /\ r \in old
    BY <1>1, <1>3, ReleaseOld
  <1>4. CASE ~ destroyed /\ r \notin old
    BY <1>1, <1>4, ReleaseNew
  <1> QED
    BY <1>2, <1>3, <1>4

LEMMA ClearStep ==
  ASSUME IInv, Clear
  PROVE  IInv'
  <1>1. /\ ~ destroyed /\ \A n \in Nodes : st[n] # "create"
        /\ twiddles' = [key \in Keys |-> Absent]
        /\ old' = Held
        /\ UNCHANGED <<reverse, destroyed, st, need, got, ptr>>
    BY DEF Clear
  <1>2. Held' = Held /\ \A x : Key(x)' = Key(x)
    BY <1>1 DEF Held, Key
  <1>3. TypeOK' /\ HeldNeeded'
    BY <1>1, <1>2 DEF IInv, TypeOK, HeldNeeded, Held
  <1>4. EntriesCounted' /\ AddressesDiffer' /\ OldAlone'
    BY <1>1, <1>2 DEF EntriesCounted, AddressesDiffer, OldAlone
  \* The entry of a table that is freed has a holder, which is now old.
  <1>5. ReverseExplained'
    <2> SUFFICES ASSUME NEW x \in Maps \X Addrs, reverse[x] # None
                 PROVE  \E y \in Held : Key(y).map = x[1] /\ ptr[y] = x[2]
      BY <1>1, <1>2 DEF ReverseExplained
    <2>1. reverse[x] \in Keys
      BY DEF IInv, TypeOK
    <2>2. CASE \E y \in old : Key(y).map = x[1] /\ ptr[y] = x[2]
      BY <1>1, <2>2 DEF IInv, Consistent, OldAlone
    <2>3. CASE /\ twiddles[reverse[x]] # Absent /\ reverse[x].map = x[1]
               /\ twiddles[reverse[x]].addr = x[2]
      <3>1. Cardinality(Holders(reverse[x])) # 0
        BY <1>1, <2>1, <2>3, EntryFacts DEF IInv, Consistent, EntriesCounted
      <3>2. Holders(reverse[x]) # {}
        BY <3>1, FS_EmptySet
      <3>3. PICK y \in Held \ old : Key(y) = reverse[x]
        BY <3>2 DEF Holders
      <3>4. twiddles[Key(y)].addr = ptr[y]
        BY <1>1 DEF IInv, Consistent
      <3> QED
        BY <2>3, <3>3, <3>4
    <2> QED
      BY <1>1, <2>2, <2>3 DEF IInv, Consistent, ReverseExplained
  <1> QED
    BY <1>1, <1>2, <1>3, <1>4, <1>5 DEF IInv, Consistent

LEMMA DestroyRepoStep ==
  ASSUME IInv, DestroyRepo
  PROVE  IInv'
  <1>1. TypeOK' /\ HeldNeeded' /\ destroyed'
    BY DEF DestroyRepo, IInv, TypeOK, HeldNeeded, Held
  <1> QED
    BY <1>1 DEF IInv

LEMMA NextIInv == IInv /\ [Next]_vars => IInv'
  <1> SUFFICES ASSUME IInv, [Next]_vars PROVE IInv'
    OBVIOUS
  <1>1. CASE UNCHANGED vars
    <2>1. TypeOK' /\ HeldNeeded'
      BY <1>1 DEF vars, IInv, TypeOK, HeldNeeded, Held
    <2>2. ~ destroyed => Consistent'
      BY <1>1, SameTables DEF vars, repo, IInv, Consistent, OldAlone
    <2> QED
      BY <1>1, <2>1, <2>2 DEF vars, IInv
  <1>2. CASE \E n \in Nodes : NodeStep(n)
    <2> PICK n \in Nodes : NodeStep(n)
      BY <1>2
    <2> QED
      BY CreateNodeStep, TableFoundStep, TableCreatedStep, NodeStateStep, ReleaseTableStep,
         NodeGoneStep DEF NodeStep
  <1>3. CASE Clear
    BY <1>3, ClearStep
  <1>4. CASE DestroyRepo
    BY <1>4, DestroyRepoStep
  <1> QED
    BY <1>1, <1>2, <1>3, <1>4 DEF Next

------------------------------------------------------------------------------
(* Theorems *)

\* The inductive invariant holds: counts, maps and pointers of the Repo agree
\* whatever Get, Release, Clear and the end of the program do.
THEOREM Invariance == Spec => []IInv
  BY InitIInv, NextIInv, PTL DEF Spec

\* The variables have their types.
THEOREM TypeCorrect == Spec => []TypeOK
  <1>1. IInv => TypeOK
    BY DEF IInv
  <1> QED
    BY <1>1, Invariance, PTL

\* No table is freed while a node has a pointer to it.
THEOREM NotFreedWhileUsed == Spec => []TablesAvailable
  <1>1. IInv => TablesAvailable
    BY DEF IInv, Consistent, TablesAvailable
  <1> QED
    BY <1>1, Invariance, PTL

\* When the last pointer is released, no table and no entry is left.
THEOREM NoTableLeaks == Spec => []NothingLeaks
  <1>1. IInv => NothingLeaks
    <2> SUFFICES ASSUME IInv, ~ destroyed, Held = {}
                 PROVE  /\ \A key \in Keys : twiddles[key] = Absent
                        /\ \A x \in Maps \X Addrs : reverse[x] = None
      BY DEF NothingLeaks
    <2>1. \A key : Cardinality(Holders(key)) = 0
      <3>1. \A key : Holders(key) = {}
        BY DEF Holders
      <3> QED
        BY <3>1, FS_EmptySet
    <2>2. \A key \in Keys : twiddles[key] = Absent
      BY <2>1, EntryFacts DEF IInv, Consistent, EntriesCounted
    <2>3. old = {}
      BY DEF IInv, Consistent, OldAlone
    <2>4. \A x \in Maps \X Addrs : reverse[x] = None
      BY <2>2, <2>3 DEF IInv, TypeOK, Consistent, ReverseExplained
    <2> QED
      BY <2>2, <2>4
  <1> QED
    BY <1>1, Invariance, PTL

\* Of the keys, only those of 2D tables leave something out: tables that share
\* a key are the same, or 2D tables that differ in attach_halfN alone.
LEMMA KeysTellApart ==
  ASSUME NEW t \in Tables, NEW u \in Tables, KeyOf(t) = KeyOf(u)
  PROVE  /\ t.map = u.map /\ t.args = u.args
         /\ t.map # "2D" => t = u
  <1>1. t.map = u.map /\ t.args = u.args
    BY DEF KeyOf
  <1>2. t.map # "2D" => t.half = u.half
    BY <1>1 DEF KeyOf
  <1> QED
    BY <1>1, <1>2, RepoAssumption

\* The table a node points to is the one it asked for, or, if it asked for a
\* 2D table, one of the same arguments, perhaps made with or without the half
\* tables that another node asked for.
AsAskedBut2DHalf ==
  ~ destroyed => \A r \in Held \ old :
    /\ need[r].map # "2D" => twiddles[Key(r)].made = need[r]
    /\ need[r].map = "2D" => /\ twiddles[Key(r)].made.map = "2D"
                             /\ twiddles[Key(r)].made.args = need[r].args

\* The attach_halfN of 2D tables is all that GetTwiddles2D can get wrong: 1D
\* twiddles and chirps are always those asked for, and 2D twiddles have the
\* lengths and radices asked for, whoever shares, frees and creates again.
THEOREM RightTable == Spec => []AsAskedBut2DHalf
  <1>1. IInv => AsAskedBut2DHalf
    <2> SUFFICES ASSUME IInv, ~ destroyed, NEW r \in Held \ old
                 PROVE  /\ need[r].map # "2D" => twiddles[Key(r)].made = need[r]
                        /\ need[r].map = "2D" => /\ twiddles[Key(r)].made.map = "2D"
                                                 /\ twiddles[Key(r)].made.args = need[r].args
      BY DEF AsAskedBut2DHalf
    <2>1. Key(r) \in Keys /\ need[r] \in Tables /\ ptr[r] \in Addrs
      BY HeldFacts DEF IInv
    <2>2. twiddles[Key(r)] # Absent
      BY <2>1, EntryFacts, RepoAssumption DEF IInv, Consistent
    <2>3. twiddles[Key(r)].made \in Tables /\ KeyOf(twiddles[Key(r)].made) = KeyOf(need[r])
      BY <2>1, <2>2, EntryFacts DEF IInv, Consistent, EntriesCounted, Key
    <2> QED
      BY <2>1, <2>3, KeysTellApart
  <1> QED
    BY <1>1, Invariance, PTL
================================================================================
