--------------------------- MODULE TaskDepsProofs ----------------------------
(***************************************************************************)
(* Proofs about task dependencies: for any titles and references, any number *)
(* of Architect outputs of any size, the graph of a workflow's tasks stays   *)
(* acyclic, only dependencies on a circle are dropped, and the second pass   *)
(* changes none but those on tasks that were left out.                       *)
(*                                                                          *)
(* The argument: the depth-first search does one of finitely many moves at   *)
(* each step, and what it has left (black) has no edge to anything it has    *)
(* not (SearchInv), so it ends with a circle or there is none (SearchFinds); *)
(* each round of breakDependencyCycles takes away one edge, on a circle, and *)
(* there are at least as many rounds as edges (BreakingWorks); and an output *)
(* refers to itself alone, so appending it closes no circle (AppendedTasks). *)
(***************************************************************************)
EXTENDS TaskDeps, FiniteSetTheorems, SequenceTheorems, DataLemmas

-----------------------------------------------------------------------------
(* Entries picked from a list.                                               *)

\* The places of the entries picked from a list: in order, and all of them.
LEMMA PickedPlaces ==
  ASSUME NEW n \in Nat, NEW K \in SUBSET (1..n)
  PROVE  /\ Cardinality(K) \in Nat
         /\ \E pos \in [1..Cardinality(K) -> K] :
              /\ \A m \in 1..Cardinality(K) :
                   pos[m] = CHOOSE k \in K : Cardinality({j \in K : j < k}) = m - 1
              /\ \A k \in K : \E m \in 1..Cardinality(K) : pos[m] = k
              /\ \A l, m \in 1..Cardinality(K) : l < m => pos[l] < pos[m]
<1> DEFINE R == {p \in K \X K : p[1] < p[2]}
           rank == [k \in K |-> Cardinality({j \in K : j < k})]
           pos == [m \in 1..Cardinality(K) |-> CHOOSE k \in K : Cardinality({j \in K : j < k}) = m - 1]
<1>1. IsFiniteSet(K) /\ Cardinality(K) \in Nat
  <2>1. IsFiniteSet(1..n)
    BY FS_Interval
  <2>2. IsFiniteSet(K)
    BY <2>1, FS_Subset
  <2> QED BY <2>2, FS_CardinalityType
<1>2. \A k \in K : k \in Nat
  OBVIOUS
<1>3. \A x, y \in K : <<x, y>> \in R <=> x < y
  OBVIOUS
<1>4. ASSUME NEW k \in K
      PROVE  /\ {j \in K : j < k} = {j \in K : <<j, k>> \in R}
             /\ Cardinality({j \in K : j < k}) \in Nat
  <2>1. {j \in K : j < k} \in SUBSET K
    OBVIOUS
  <2>2. IsFiniteSet({j \in K : j < k})
    BY <1>1, <2>1, FS_Subset
  <2>3. Cardinality({j \in K : j < k}) \in Nat
    BY <2>2, FS_CardinalityType
  <2> QED BY <1>3, <2>3
<1>5. /\ rank \in [K -> Nat]
      /\ \A k \in K : rank[k] = Cardinality({j \in K : <<j, k>> \in R})
      /\ \A k \in K : rank[k] = Cardinality({j \in K : j < k})
  BY <1>4
<1>6. \A m \in 1..Cardinality(K) :
        pos[m] = CHOOSE k \in K : Cardinality({j \in K : j < k}) = m - 1
  OBVIOUS
<1> HIDE DEF R, rank
<1>7. /\ \A x \in K : <<x, x>> \notin R
      /\ \A x, y, z \in K : <<x, y>> \in R /\ <<y, z>> \in R => <<x, z>> \in R
      /\ \A x, y \in K : x = y \/ <<x, y>> \in R \/ <<y, x>> \in R
  BY <1>2, <1>3
<1>8. /\ \A k \in 0..(Cardinality(K) - 1) : \E x \in K : rank[x] = k
      /\ \A x, y \in K : rank[x] = rank[y] => x = y
      /\ \A x, y \in K : <<x, y>> \in R => rank[x] < rank[y]
  BY <1>1, <1>5, <1>7, RanksAreTaken, Zenon
<1>9. \A m \in 1..Cardinality(K) : pos[m] \in K /\ rank[pos[m]] = m - 1
  <2>1. SUFFICES ASSUME NEW m \in 1..Cardinality(K) PROVE pos[m] \in K /\ rank[pos[m]] = m - 1
    OBVIOUS
  <2>2. m - 1 \in 0..(Cardinality(K) - 1)
    BY <1>1
  <2>3. PICK x \in K : rank[x] = m - 1
    BY <1>8, <2>2
  <2>4. Cardinality({j \in K : j < x}) = m - 1
    BY <1>5, <2>3
  <2>5. pos[m] \in K /\ Cardinality({j \in K : j < pos[m]}) = m - 1
    BY <1>6, <2>4
  <2> QED BY <1>5, <2>5
<1>10. \A k \in K : rank[k] \in Nat /\ rank[k] < Cardinality(K)
  <2>1. SUFFICES ASSUME NEW k \in K PROVE rank[k] < Cardinality(K)
    BY <1>5
  <2>2. {j \in K : j < k} \in SUBSET K /\ k \notin {j \in K : j < k}
    BY <1>2
  <2>3. Cardinality({j \in K : j < k}) <= Cardinality(K) /\ Cardinality({j \in K : j < k}) # Cardinality(K)
    BY <1>1, <2>2, FS_Subset
  <2> QED BY <1>1, <1>5, <2>3
<1>11. \A k \in K : \E m \in 1..Cardinality(K) : pos[m] = k
  <2>1. SUFFICES ASSUME NEW k \in K PROVE \E m \in 1..Cardinality(K) : pos[m] = k
    OBVIOUS
  <2>2. rank[k] + 1 \in 1..Cardinality(K) /\ (rank[k] + 1) - 1 = rank[k]
    BY <1>1, <1>10
  <2>3. rank[pos[rank[k] + 1]] = rank[k] /\ pos[rank[k] + 1] \in K
    BY <1>9, <2>2
  <2>4. pos[rank[k] + 1] = k
    BY <1>8, <2>3
  <2> QED BY <2>2, <2>4
<1>12. \A l, m \in 1..Cardinality(K) : l < m => pos[l] < pos[m]
  <2>1. SUFFICES ASSUME NEW l \in 1..Cardinality(K), NEW m \in 1..Cardinality(K), l < m
                 PROVE  pos[l] < pos[m]
    OBVIOUS
  <2>2. rank[pos[l]] = l - 1 /\ rank[pos[m]] = m - 1 /\ pos[l] \in K /\ pos[m] \in K
    BY <1>9
  <2> HIDE DEF pos
  <2>3. PICK x \in K, y \in K : x = pos[l] /\ y = pos[m] /\ rank[x] = l - 1 /\ rank[y] = m - 1
    BY <2>2
  <2>4. ~(y < x) /\ y # x
    <3>1. ~(m - 1 < l - 1) /\ m - 1 # l - 1
      BY <1>1, <2>1
    <3>2. y < x => rank[y] < rank[x]
      BY <1>3, <1>8
    <3> QED BY <2>3, <3>1, <3>2
  <2> QED BY <1>2, <2>3, <2>4
<1>13. pos \in [1..Cardinality(K) -> K]
  BY <1>9
<1> QED BY <1>1, <1>6, <1>11, <1>12, <1>13

\* The places in K, in their order, and the entries of a list at places.
Places(K, c, pos) ==
  /\ c \in Nat /\ pos \in [1..c -> K]
  /\ \A k \in K : \E m \in 1..c : pos[m] = k
  /\ \A l, m \in 1..c : l < m => pos[l] < pos[m]
TakenAt(s, c, pos) == [m \in 1..c |-> s[pos[m]]]

\* Two lists give up the entries at the same places.
LEMMA PickedTogether ==
  ASSUME NEW A, NEW s \in Seq(A), NEW t, NEW K \in SUBSET DOMAIN s
  PROVE  \E c, pos : /\ Places(K, c, pos)
                     /\ Picked(s, K) = TakenAt(s, c, pos)
                     /\ Picked(t, K) = TakenAt(t, c, pos)
<1>1. PICK n \in Nat : n = Len(s) /\ DOMAIN s = 1..n
  OBVIOUS
<1>2. K \in SUBSET (1..n)
  BY <1>1
<1>3. PICK c \in Nat : c = Cardinality(K)
  BY <1>2, PickedPlaces
<1>4. \E pos \in [1..Cardinality(K) -> K] :
        /\ \A m \in 1..Cardinality(K) :
             pos[m] = CHOOSE k \in K : Cardinality({j \in K : j < k}) = m - 1
        /\ \A k \in K : \E m \in 1..Cardinality(K) : pos[m] = k
        /\ \A l, m \in 1..Cardinality(K) : l < m => pos[l] < pos[m]
  BY <1>2, PickedPlaces, Zenon
<1>5. PICK pos \in [1..c -> K] :
        /\ \A m \in 1..c : pos[m] = CHOOSE k \in K : Cardinality({j \in K : j < k}) = m - 1
        /\ \A k \in K : \E m \in 1..c : pos[m] = k
        /\ \A l, m \in 1..c : l < m => pos[l] < pos[m]
  BY <1>3, <1>4
<1>6. /\ Picked(s, K) = [m \in 1..c |-> s[CHOOSE k \in K : Cardinality({j \in K : j < k}) = m - 1]]
      /\ Picked(t, K) = [m \in 1..c |-> t[CHOOSE k \in K : Cardinality({j \in K : j < k}) = m - 1]]
  BY <1>3 DEF Picked
<1>7. Picked(s, K) = TakenAt(s, c, pos) /\ Picked(t, K) = TakenAt(t, c, pos)
  BY <1>5, <1>6 DEF TakenAt
<1>8. Places(K, c, pos)
  BY <1>5 DEF Places
<1> QED BY <1>7, <1>8

\* What is picked from a sequence is a sequence of its entries.
LEMMA PickedEntries ==
  ASSUME NEW A, NEW s \in Seq(A), NEW K \in SUBSET DOMAIN s
  PROVE  \E c, pos : /\ Places(K, c, pos)
                     /\ Picked(s, K) = TakenAt(s, c, pos)
                     /\ Picked(s, K) \in Seq(A)
<1>1. PICK c, pos : Places(K, c, pos) /\ Picked(s, K) = TakenAt(s, c, pos)
  BY PickedTogether
<1>2. \A m \in 1..c : s[pos[m]] \in A
  <2>1. \A m \in 1..c : pos[m] \in DOMAIN s
    BY <1>1 DEF Places
  <2> QED BY <2>1
<1>3. TakenAt(s, c, pos) \in Seq(A)
  BY <1>1, <1>2 DEF TakenAt, Places
<1> QED BY <1>1, <1>3

\* Picking all of a list leaves it as it is.
LEMMA PickedAll ==
  ASSUME NEW A, NEW s \in Seq(A)
  PROVE  Picked(s, DOMAIN s) = s
<1>1. PICK n \in Nat : n = Len(s) /\ DOMAIN s = 1..n /\ s = [i \in 1..n |-> s[i]]
  OBVIOUS
<1>2. Cardinality(1..n) = n
  <2>1. 1 \in Int /\ n \in Int /\ (1 > n => n = 0) /\ n - 1 + 1 = n
    OBVIOUS
  <2> QED BY <2>1, FS_Interval
<1>3. ASSUME NEW k \in 1..n PROVE Cardinality({j \in 1..n : j < k}) = k - 1
  <2>1. {j \in 1..n : j < k} = 1..(k - 1)
    OBVIOUS
  <2>2. 1 \in Int /\ k - 1 \in Int /\ (1 > k - 1 => k - 1 = 0) /\ (k - 1) - 1 + 1 = k - 1
    OBVIOUS
  <2>3. Cardinality(1..(k - 1)) = k - 1
    BY <2>2, FS_Interval
  <2> QED BY <2>1, <2>3
<1>4. ASSUME NEW m \in 1..n PROVE (CHOOSE k \in 1..n : Cardinality({j \in 1..n : j < k}) = m - 1) = m
  <2>1. \A k \in 1..n : Cardinality({j \in 1..n : j < k}) = m - 1 <=> k = m
    BY <1>3
  <2> QED BY <2>1
<1>5. Picked(s, DOMAIN s) = [m \in 1..n |-> s[m]]
  <2>1. Picked(s, 1..n) = [m \in 1..n |-> s[CHOOSE k \in 1..n : Cardinality({j \in 1..n : j < k}) = m - 1]]
    BY <1>2 DEF Picked
  <2> QED BY <1>1, <1>4, <2>1
<1> QED BY <1>1, <1>5

\* What was in the list once is picked once, and what is picked was in it.
LEMMA PickedOnce ==
  ASSUME NEW A, NEW s \in Seq(A), NEW K \in SUBSET DOMAIN s
  PROVE  /\ Picked(s, K) \in Seq(A)
         /\ (\A j, k \in K : s[j] = s[k] => j = k) => OnceEach(Picked(s, K))
         /\ \A m \in DOMAIN Picked(s, K) : \E k \in K : Picked(s, K)[m] = s[k]
         /\ \A k \in K : \E m \in DOMAIN Picked(s, K) : Picked(s, K)[m] = s[k]
<1>1. PICK c, pos : /\ Places(K, c, pos) /\ Picked(s, K) = TakenAt(s, c, pos)
                    /\ Picked(s, K) \in Seq(A)
  BY PickedEntries
<1>2. PICK t \in Seq(A) : /\ t = Picked(s, K) /\ DOMAIN t = 1..c
                          /\ \A m \in 1..c : t[m] = s[pos[m]]
  <2>1. \A m \in 1..c : TakenAt(s, c, pos)[m] = s[pos[m]]
    BY DEF TakenAt
  <2>2. DOMAIN TakenAt(s, c, pos) = 1..c
    BY DEF TakenAt
  <2> QED BY <1>1, <2>1, <2>2
<1>3. /\ DOMAIN t = 1..c /\ c \in Nat
      /\ \A m \in 1..c : pos[m] \in K /\ pos[m] \in Nat
      /\ \A k \in K : \E m \in 1..c : pos[m] = k
      /\ \A l, m \in 1..c : l < m => pos[l] < pos[m]
  <2>1. \A k \in K : k \in Nat
    OBVIOUS
  <2> QED BY <1>1, <1>2, <2>1 DEF Places
<1>4. ASSUME \A j, k \in K : s[j] = s[k] => j = k PROVE OnceEach(t)
  <2>1. \A l, m \in 1..c : pos[l] = pos[m] => l = m
    BY <1>2, <1>3
  <2> QED BY <1>2, <1>3, <1>4, <2>1 DEF OnceEach
<1>5. \A m \in DOMAIN t : \E k \in K : t[m] = s[k]
  BY <1>2, <1>3
<1>6. \A k \in K : \E m \in DOMAIN t : t[m] = s[k]
  <2>1. ASSUME NEW k \in K PROVE \E m \in DOMAIN t : t[m] = s[k]
    <3>1. PICK m \in 1..c : pos[m] = k
      BY <1>3
    <3> QED BY <1>2, <1>3, <3>1
  <2> QED BY <2>1
<1> QED BY <1>2, <1>4, <1>5, <1>6

-----------------------------------------------------------------------------
(* Lists of tasks.                                                           *)

Refs == [id : Nat, text : Mentions \cup {<<>>}]
TaskSet == [id : Nat \ {NoID}, title : Titles, dependsOn : Seq(Refs)]

\* No two tasks have one ID.
OnceID(list) == \A i, k \in DOMAIN list : list[i].id = list[k].id => i = k

\* A task refers to others by their IDs, among the given ones, each once.
RefersTo(t, ids) ==
  /\ OnceEach(t.dependsOn)
  /\ \A m \in DOMAIN t.dependsOn :
       t.dependsOn[m] = ByID(t.dependsOn[m].id) /\ t.dependsOn[m].id \in ids \ {t.id}

Tidy(list, ids) ==
  /\ list \in Seq(TaskSet) /\ OnceID(list)
  /\ \A i \in DOMAIN list : RefersTo(list[i], ids)

\* Resolved against itself: what the breaking of cycles works on.
Clean(list) == Tidy(list, IDs(list))

\* A reference, exact or fuzzy, names a task of the list or none.
LEMMA TargetKnown ==
  ASSUME NEW list, NEW ref
  PROVE  Target(list, ref) \subseteq IDs(list)
BY DEF Target, ByTitle, exactTitleMatch, fuzzyTitleMatch, IDs

\* The tasks of a list, with other dependencies.
WithDeps(list, deps) == [i \in DOMAIN list |-> [list[i] EXCEPT !.dependsOn = deps[i]]]

\* Other dependencies leave the tasks, their order and their IDs as they are.
LEMMA SameTasks ==
  ASSUME NEW list \in Seq(TaskSet), NEW deps \in [DOMAIN list -> Seq(Refs)],
         NEW new, new = WithDeps(list, deps)
  PROVE  /\ new \in Seq(TaskSet) /\ DOMAIN new = DOMAIN list /\ Len(new) = Len(list)
         /\ IDs(new) = IDs(list) /\ (OnceID(list) => OnceID(new))
         /\ \A i \in DOMAIN list : /\ new[i].id = list[i].id /\ new[i].title = list[i].title
                                   /\ new[i].dependsOn = deps[i]
<1>1. PICK n \in Nat : n = Len(list) /\ DOMAIN list = 1..n
  OBVIOUS
<1>2. \A i \in 1..n : list[i] \in TaskSet
  BY <1>1
<1>3. \A i \in 1..n : /\ [list[i] EXCEPT !.dependsOn = deps[i]] \in TaskSet
                      /\ [list[i] EXCEPT !.dependsOn = deps[i]].id = list[i].id
                      /\ [list[i] EXCEPT !.dependsOn = deps[i]].title = list[i].title
                      /\ [list[i] EXCEPT !.dependsOn = deps[i]].dependsOn = deps[i]
  BY <1>1, <1>2 DEF TaskSet
<1>4. new = [i \in 1..n |-> [list[i] EXCEPT !.dependsOn = deps[i]]]
  BY <1>1 DEF WithDeps
<1>5. \A i \in 1..n : /\ new[i] \in TaskSet /\ new[i].id = list[i].id
                      /\ new[i].title = list[i].title /\ new[i].dependsOn = deps[i]
  BY <1>3, <1>4
<1>6. new \in Seq(TaskSet) /\ Len(new) = n /\ DOMAIN new = 1..n
  <2>1. new = [i \in 1..n |-> new[i]]
    BY <1>4
  <2>2. \A i \in 1..n : new[i] \in TaskSet
    BY <1>5
  <2>3. new \in [1..n -> TaskSet]
    BY <2>1, <2>2, Zenon
  <2> QED BY <2>3
<1>7. IDs(new) = IDs(list) /\ (OnceID(list) => OnceID(new))
  BY <1>1, <1>5, <1>6 DEF IDs, OnceID
<1> QED BY <1>1, <1>5, <1>6, <1>7

\* What an entry names, as one of the references a task may have.
LEMMA ResolvedDepsNamed ==
  ASSUME NEW list, IDs(list) \subseteq Nat, NEW t \in TaskSet
  PROVE  /\ ResolvedDeps(list, t) \in Seq(Refs) /\ OnceEach(ResolvedDeps(list, t))
         /\ \A m \in DOMAIN ResolvedDeps(list, t) :
              /\ ResolvedDeps(list, t)[m] = ByID(ResolvedDeps(list, t)[m].id)
              /\ ResolvedDeps(list, t)[m].id \in IDs(list) \ {t.id}
              /\ \E k \in DOMAIN t.dependsOn :
                   ResolvedDeps(list, t)[m].id \in Target(list, t.dependsOn[k])
<1> DEFINE deps == t.dependsOn
           Good == {ByID(n) : n \in (UNION {Target(list, deps[k]) : k \in DOMAIN deps}) \ {t.id}}
           named == [k \in DOMAIN deps |-> {ByID(n) : n \in Target(list, deps[k]) \ {t.id}}]
           K == {k \in DOMAIN named : named[k] # {}}
           resolved == Picked(named, K)
           found == [k \in DOMAIN resolved |-> CHOOSE ref \in resolved[k] : TRUE]
           F == {k \in DOMAIN found : \A j \in 1..(k - 1) : found[j] # found[k]}
<1>1. deps \in Seq(Refs)
  BY DEF TaskSet
<1>2. named \in Seq(SUBSET Good)
  <2>1. \A k \in DOMAIN deps : {ByID(n) : n \in Target(list, deps[k]) \ {t.id}} \in SUBSET Good
    OBVIOUS
  <2>2. DOMAIN deps = 1..Len(deps) /\ Len(deps) \in Nat
    BY <1>1
  <2> HIDE DEF Good
  <2> QED BY <2>1, <2>2
<1>3. K \in SUBSET DOMAIN named
  OBVIOUS
<1>4. ResolvedDeps(list, t) = dedupe(found)
  BY DEF ResolvedDeps
<1> HIDE DEF named, Good
<1>5. resolved \in Seq(SUBSET Good) /\ \A m \in DOMAIN resolved : resolved[m] # {}
  <2>1. resolved \in Seq(SUBSET Good)
    BY <1>2, <1>3, PickedEntries
  <2>2. \A m \in DOMAIN resolved : \E k \in K : resolved[m] = named[k]
    BY <1>2, <1>3, PickedOnce
  <2> HIDE DEF resolved
  <2> QED BY <2>1, <2>2
<1> HIDE DEF resolved, K
<1>6. found \in Seq(Good)
  <2>1. \A k \in DOMAIN resolved : (CHOOSE ref \in resolved[k] : TRUE) \in Good
    <3>1. ASSUME NEW k \in DOMAIN resolved PROVE (CHOOSE ref \in resolved[k] : TRUE) \in Good
      <4>1. resolved[k] \in SUBSET Good /\ resolved[k] # {}
        BY <1>5
      <4>2. PICK R : R = resolved[k]
        OBVIOUS
      <4>3. (CHOOSE ref \in R : TRUE) \in R
        BY <4>1, <4>2
      <4> QED BY <4>1, <4>2, <4>3
    <3> QED BY <3>1
  <2>2. DOMAIN resolved = 1..Len(resolved) /\ Len(resolved) \in Nat
    BY <1>5
  <2> QED BY <2>1, <2>2
<1> HIDE DEF found
<1>7. dedupe(found) \in Seq(Good) /\ OnceEach(dedupe(found))
  <2>1. CASE found = <<>>
    BY <2>1 DEF dedupe, OnceEach
  <2>2. CASE found # <<>>
    <3>1. dedupe(found) = Picked(found, F)
      BY <2>2 DEF dedupe
    <3>2. F \in SUBSET DOMAIN found
      OBVIOUS
    <3>3. Picked(found, F) \in Seq(Good)
      BY <1>6, <3>2, PickedEntries
    <3>4. OnceEach(Picked(found, F))
      <4>1. PICK n \in Nat : DOMAIN found = 1..n
        BY <1>6
      <4>2. \A j, k \in F : j < k => found[j] # found[k]
        BY <4>1
      <4>3. \A j, k \in F : found[j] = found[k] => j = k
        BY <4>1, <4>2
      <4> QED BY <1>6, <3>2, <4>3, PickedOnce
    <3> QED BY <3>1, <3>3, <3>4
  <2> QED BY <2>1, <2>2
<1>8. /\ Good \subseteq Refs
      /\ \A r \in Good : /\ r = ByID(r.id) /\ r.id \in IDs(list) \ {t.id}
                         /\ \E k \in DOMAIN deps : r.id \in Target(list, deps[k])
  BY TargetKnown DEF Good, ByID, Refs
<1>9. \A m \in DOMAIN dedupe(found) : dedupe(found)[m] \in Good
  BY <1>7
<1>10. dedupe(found) \in Seq(Refs)
  BY <1>7, <1>8
<1> QED BY <1>4, <1>7, <1>8, <1>9, <1>10

LEMMA ResolvedDepsTidy ==
  ASSUME NEW list, IDs(list) \subseteq Nat, NEW t \in TaskSet
  PROVE  /\ ResolvedDeps(list, t) \in Seq(Refs) /\ OnceEach(ResolvedDeps(list, t))
         /\ \A m \in DOMAIN ResolvedDeps(list, t) :
              /\ ResolvedDeps(list, t)[m] = ByID(ResolvedDeps(list, t)[m].id)
              /\ ResolvedDeps(list, t)[m].id \in IDs(list) \ {t.id}
BY ResolvedDepsNamed

\* Once resolved, the tasks of a list refer to each other, each reference once.
LEMMA ResolvedIsClean ==
  ASSUME NEW list \in Seq(TaskSet), OnceID(list)
  PROVE  /\ Clean(Resolved(list)) /\ DOMAIN Resolved(list) = DOMAIN list
         /\ Len(Resolved(list)) = Len(list)
         /\ \A i \in DOMAIN list : Resolved(list)[i].id = list[i].id
<1> DEFINE deps == [i \in DOMAIN list |-> ResolvedDeps(list, list[i])]
<1>1. \A i \in DOMAIN list : list[i] \in TaskSet
  OBVIOUS
<1>2. IDs(list) \subseteq Nat
  BY <1>1 DEF IDs, TaskSet
<1>3. deps \in [DOMAIN list -> Seq(Refs)]
  BY <1>1, <1>2, ResolvedDepsTidy
<1>4. Resolved(list) = WithDeps(list, deps)
  BY DEF Resolved, WithDeps
<1>5. \A i \in DOMAIN list :
        /\ OnceEach(deps[i])
        /\ \A m \in DOMAIN deps[i] : /\ deps[i][m] = ByID(deps[i][m].id)
                                     /\ deps[i][m].id \in IDs(list) \ {list[i].id}
  BY <1>1, <1>2, ResolvedDepsTidy
<1> HIDE DEF deps
<1>6. PICK new : new = Resolved(list)
  OBVIOUS
<1>7. /\ new \in Seq(TaskSet) /\ DOMAIN new = DOMAIN list /\ Len(new) = Len(list)
      /\ IDs(new) = IDs(list) /\ OnceID(new)
      /\ \A i \in DOMAIN list : new[i].id = list[i].id /\ new[i].dependsOn = deps[i]
  <2>1. new = WithDeps(list, deps)
    BY <1>4, <1>6
  <2>2. /\ new \in Seq(TaskSet) /\ DOMAIN new = DOMAIN list /\ Len(new) = Len(list)
        /\ IDs(new) = IDs(list) /\ (OnceID(list) => OnceID(new))
        /\ \A i \in DOMAIN list : /\ new[i].id = list[i].id /\ new[i].title = list[i].title
                                  /\ new[i].dependsOn = deps[i]
    BY <1>3, <2>1, SameTasks
  <2> QED BY <2>2
<1>8. \A i \in DOMAIN list : RefersTo(new[i], IDs(new))
  BY <1>5, <1>7 DEF RefersTo
<1> QED BY <1>6, <1>7, <1>8 DEF Clean, Tidy

\* No reference of the task to one outside the list names a task of the list.
NoAccident(list, t) == \A k \in DOMAIN t.dependsOn : ~Accident(list, t.dependsOn[k])

\* A task that refers to tasks by their IDs keeps, when the references are
\* resolved again, those to tasks in the list, unless an ID contains a title.
LEMMA ResolvedAgain ==
  ASSUME NEW list, NEW t \in TaskSet, NEW ids \in SUBSET (Nat \ {NoID}), RefersTo(t, ids),
         NoAccident(list, t)
  PROVE  ResolvedDeps(list, t)
           = Picked(t.dependsOn, {k \in DOMAIN t.dependsOn : t.dependsOn[k].id \in IDs(list)})
<1> DEFINE named == [k \in DOMAIN t.dependsOn |->
                      {ByID(n) : n \in Target(list, t.dependsOn[k]) \ {t.id}}]
           N == {k \in DOMAIN named : named[k] # {}}
           K == {k \in DOMAIN t.dependsOn : t.dependsOn[k].id \in IDs(list)}
           found == [k \in DOMAIN Picked(named, N) |-> CHOOSE ref \in Picked(named, N)[k] : TRUE]
           F == {k \in DOMAIN found : \A j \in 1..(k - 1) : found[j] # found[k]}
<1>1. PICK deps \in Seq(Refs) : deps = t.dependsOn
  BY DEF TaskSet
<1>2. /\ OnceEach(deps)
      /\ \A m \in DOMAIN deps : deps[m] = ByID(deps[m].id) /\ deps[m].id \in ids \ {t.id}
  BY <1>1 DEF RefersTo
<1>3. \A k \in DOMAIN deps : named[k] = IF deps[k].id \in IDs(list) THEN {deps[k]} ELSE {}
  <2>1. SUFFICES ASSUME NEW k \in DOMAIN deps
                 PROVE  {ByID(n) : n \in Target(list, deps[k]) \ {t.id}}
                          = IF deps[k].id \in IDs(list) THEN {deps[k]} ELSE {}
    BY <1>1
  <2>2. PICK d \in Nat \ {NoID} : d = deps[k].id /\ d # t.id
    BY <1>2, <2>1
  <2>3. Target(list, deps[k]) = {d} \cap IDs(list)
    <3>1. CASE d \in IDs(list)
      BY <2>2, <3>1 DEF Target
    <3>2. CASE d \notin IDs(list)
      BY <1>1, <2>1, <2>2, <3>2 DEF Accident, NoAccident
    <3> QED BY <3>1, <3>2
  <2>4. deps[k] = ByID(d)
    BY <1>2, <2>1, <2>2
  <2>5. CASE d \in IDs(list)
    BY <2>2, <2>3, <2>4, <2>5
  <2>6. CASE d \notin IDs(list)
    BY <2>2, <2>3, <2>6
  <2> QED BY <2>5, <2>6
<1>4. DOMAIN named = DOMAIN deps /\ N = K /\ K \in SUBSET DOMAIN deps
  BY <1>1, <1>3
<1>5. ResolvedDeps(list, t) = dedupe(found)
  BY DEF ResolvedDeps
<1>6. \A k \in K : named[k] = {deps[k]}
  BY <1>1, <1>3
<1> HIDE DEF named, N, K
<1>7. PICK c, pos : /\ Places(K, c, pos)
                    /\ Picked(deps, K) = TakenAt(deps, c, pos)
                    /\ Picked(named, K) = TakenAt(named, c, pos)
  <2>1. PICK nm : nm = named
    OBVIOUS
  <2>2. deps \in Seq(Refs) /\ K \in SUBSET DOMAIN deps
    BY <1>1, <1>4
  <2>3. \E c, pos : /\ Places(K, c, pos)
                    /\ Picked(deps, K) = TakenAt(deps, c, pos)
                    /\ Picked(nm, K) = TakenAt(nm, c, pos)
    BY <2>2, PickedTogether
  <2> QED BY <2>1, <2>3
<1>8. found = Picked(deps, K)
  <2>1. /\ DOMAIN Picked(named, N) = 1..c
        /\ \A m \in 1..c : Picked(named, N)[m] = {deps[pos[m]]}
    BY <1>4, <1>6, <1>7 DEF TakenAt, Places
  <2>2. \A m \in 1..c : (CHOOSE ref \in Picked(named, N)[m] : TRUE) = deps[pos[m]]
    <3>1. ASSUME NEW m \in 1..c PROVE (CHOOSE ref \in Picked(named, N)[m] : TRUE) = deps[pos[m]]
      <4>1. PICK R : R = Picked(named, N)[m] /\ R = {deps[pos[m]]}
        BY <2>1
      <4>2. (CHOOSE ref \in R : TRUE) \in R
        BY <4>1
      <4> QED BY <4>1, <4>2
    <3> QED BY <3>1
  <2>3. found = [m \in 1..c |-> deps[pos[m]]]
    BY <2>1, <2>2
  <2> QED BY <1>7, <2>3 DEF TakenAt
<1>9. Picked(deps, K) \in Seq(Refs) /\ OnceEach(Picked(deps, K))
  <2>1. \A j, k \in K : deps[j] = deps[k] => j = k
    BY <1>2, <1>4 DEF OnceEach
  <2> QED BY <1>4, <2>1, PickedOnce
<1> HIDE DEF found
<1>10. F = DOMAIN found
  <2>1. PICK g \in Seq(Refs) : g = found /\ OnceEach(g)
    BY <1>8, <1>9
  <2>2. PICK n \in Nat : DOMAIN g = 1..n
    OBVIOUS
  <2>3. \A k \in 1..n : \A j \in 1..(k - 1) : g[j] # g[k]
    BY <2>1, <2>2 DEF OnceEach
  <2> QED BY <2>1, <2>2, <2>3
<1>11. dedupe(found) = found
  <2>1. CASE found = <<>>
    BY <2>1 DEF dedupe
  <2>2. CASE found # <<>>
    <3>1. dedupe(found) = Picked(found, F)
      BY <2>2 DEF dedupe
    <3>2. found \in Seq(Refs)
      BY <1>8, <1>9
    <3> QED BY <1>10, <3>1, <3>2, PickedAll
  <2> QED BY <2>1, <2>2
<1> QED BY <1>1, <1>5, <1>8, <1>11 DEF K

-----------------------------------------------------------------------------
(* The graph of a list of tasks.                                             *)

\* The place of the task a dependency names.
DepOf(list, i, m) == IndexOf(list, list[i].dependsOn[m].id)

\* In a resolved list every dependency is an edge to another task, and every edge
\* comes of one.
LEMMA DepsAreEdges ==
  ASSUME NEW list, Clean(list), NEW i \in DOMAIN list
  PROVE  /\ list[i].dependsOn \in Seq(Refs)
         /\ \A m \in DOMAIN list[i].dependsOn :
              /\ DepOf(list, i, m) \in DOMAIN list \ {i}
              /\ list[DepOf(list, i, m)].id = list[i].dependsOn[m].id
              /\ Edge(list, i, DepOf(list, i, m))
         /\ \A k \in DOMAIN list :
              Edge(list, i, k) => \E m \in DOMAIN list[i].dependsOn : DepOf(list, i, m) = k
<1>1. list \in Seq(TaskSet) /\ OnceID(list) /\ RefersTo(list[i], IDs(list))
  BY DEF Clean, Tidy
<1>2. list[i].dependsOn \in Seq(Refs)
  <2>1. list[i] \in TaskSet
    BY <1>1
  <2> QED BY <2>1 DEF TaskSet
<1>3. ASSUME NEW m \in DOMAIN list[i].dependsOn
      PROVE  /\ DepOf(list, i, m) \in DOMAIN list
             /\ list[DepOf(list, i, m)].id = list[i].dependsOn[m].id
  <2>1. PICK d : d = list[i].dependsOn[m].id /\ d \in IDs(list)
    BY <1>1, <1>3 DEF RefersTo
  <2>2. PICK k \in DOMAIN list : list[k].id = d
    BY <2>1 DEF IDs
  <2> QED BY <2>1, <2>2 DEF DepOf, IndexOf
<1>4. \A m \in DOMAIN list[i].dependsOn : DepOf(list, i, m) # i
  BY <1>1, <1>3 DEF RefersTo
<1>5. \A m \in DOMAIN list[i].dependsOn : Edge(list, i, DepOf(list, i, m))
  BY <1>3 DEF Edge, DepIDs
<1>6. \A k \in DOMAIN list :
        Edge(list, i, k) => \E m \in DOMAIN list[i].dependsOn : DepOf(list, i, m) = k
  <2>1. ASSUME NEW k \in DOMAIN list, Edge(list, i, k)
        PROVE  \E m \in DOMAIN list[i].dependsOn : DepOf(list, i, m) = k
    <3>1. PICK m \in DOMAIN list[i].dependsOn : list[k].id = list[i].dependsOn[m].id
      BY <2>1 DEF Edge, DepIDs
    <3>2. DepOf(list, i, m) \in DOMAIN list /\ list[DepOf(list, i, m)].id = list[k].id
      BY <1>3, <3>1
    <3>3. DepOf(list, i, m) = k
      BY <1>1, <3>2 DEF OnceID
    <3> QED BY <3>3
  <2> QED BY <2>1
<1> QED BY <1>2, <1>3, <1>4, <1>5, <1>6

\* Dropping an edge keeps the list clean and drops that edge alone.
LEMMA EdgeDropped ==
  ASSUME NEW list, Clean(list), NEW i \in DOMAIN list, NEW k \in DOMAIN list,
         NEW new, new = DropEdge(list, i, list[k].id)
  PROVE  /\ Clean(new) /\ DOMAIN new = DOMAIN list
         /\ \A a \in DOMAIN list : new[a].id = list[a].id
         /\ \A a, b \in DOMAIN list : Edge(new, a, b) <=> Edge(list, a, b) /\ ~(a = i /\ b = k)
<1> DEFINE K == {m \in DOMAIN list[i].dependsOn : list[i].dependsOn[m] # ByID(list[k].id)}
           deps == [a \in DOMAIN list |->
                     IF a # i THEN list[a].dependsOn ELSE Picked(list[i].dependsOn, K)]
<1>1. /\ list \in Seq(TaskSet) /\ OnceID(list)
      /\ \A a \in DOMAIN list : RefersTo(list[a], IDs(list))
  BY DEF Clean, Tidy
<1>2. \A a \in DOMAIN list : list[a] \in TaskSet /\ list[a].dependsOn \in Seq(Refs)
  <2>1. \A a \in DOMAIN list : list[a] \in TaskSet
    BY <1>1
  <2> QED BY <2>1 DEF TaskSet
<1>3. K \in SUBSET DOMAIN list[i].dependsOn
  OBVIOUS
<1>4. /\ Picked(list[i].dependsOn, K) \in Seq(Refs)
      /\ (\A l, m \in K : list[i].dependsOn[l] = list[i].dependsOn[m] => l = m)
           => OnceEach(Picked(list[i].dependsOn, K))
      /\ \A m \in DOMAIN Picked(list[i].dependsOn, K) :
           \E l \in K : Picked(list[i].dependsOn, K)[m] = list[i].dependsOn[l]
      /\ \A l \in K : \E m \in DOMAIN Picked(list[i].dependsOn, K) :
           Picked(list[i].dependsOn, K)[m] = list[i].dependsOn[l]
  BY <1>2, <1>3, PickedOnce
<1>5. deps \in [DOMAIN list -> Seq(Refs)]
  BY <1>2, <1>4
<1>6. new = WithDeps(list, deps)
  <2>1. \A a \in DOMAIN list : a # i => list[a] = [list[a] EXCEPT !.dependsOn = deps[a]]
    BY <1>2 DEF TaskSet
  <2>2. [list[i] EXCEPT !.dependsOn = Picked(@, {m \in DOMAIN @ : @[m] # ByID(list[k].id)})]
          = [list[i] EXCEPT !.dependsOn = deps[i]]
    BY <1>2 DEF TaskSet
  <2>3. new = [a \in DOMAIN list |->
                IF a # i THEN list[a]
                ELSE [list[a] EXCEPT !.dependsOn = Picked(@, {m \in DOMAIN @ : @[m] # ByID(list[k].id)})]]
    BY DEF DropEdge
  <2> HIDE DEF deps
  <2>4. \A a \in DOMAIN list :
          (IF a # i THEN list[a]
           ELSE [list[a] EXCEPT !.dependsOn = Picked(@, {m \in DOMAIN @ : @[m] # ByID(list[k].id)})])
          = [list[a] EXCEPT !.dependsOn = deps[a]]
    BY <2>1, <2>2
  <2>5. new = [a \in DOMAIN list |-> [list[a] EXCEPT !.dependsOn = deps[a]]]
    BY <2>3, <2>4, Zenon
  <2> QED BY <2>5 DEF WithDeps
<1>7. /\ new \in Seq(TaskSet) /\ DOMAIN new = DOMAIN list /\ Len(new) = Len(list)
      /\ IDs(new) = IDs(list) /\ (OnceID(list) => OnceID(new))
      /\ \A a \in DOMAIN list : /\ new[a].id = list[a].id /\ new[a].title = list[a].title
                                /\ new[a].dependsOn = deps[a]
  <2> HIDE DEF deps
  <2> QED BY <1>1, <1>5, <1>6, SameTasks
<1>8. OnceEach(Picked(list[i].dependsOn, K))
  <2>1. \A l, m \in K : list[i].dependsOn[l] = list[i].dependsOn[m] => l = m
    BY <1>1 DEF RefersTo, OnceEach
  <2> QED BY <1>4, <2>1
<1>9. \A a \in DOMAIN list : RefersTo(new[a], IDs(new))
  <2>1. RefersTo(new[i], IDs(new))
    <3>1. \A m \in DOMAIN list[i].dependsOn :
            /\ list[i].dependsOn[m] = ByID(list[i].dependsOn[m].id)
            /\ list[i].dependsOn[m].id \in IDs(list) \ {list[i].id}
      BY <1>1 DEF RefersTo
    <3>2. new[i].dependsOn = Picked(list[i].dependsOn, K)
      BY <1>7
    <3> HIDE DEF K
    <3>3. \A m \in DOMAIN Picked(list[i].dependsOn, K) :
            /\ Picked(list[i].dependsOn, K)[m] = ByID(Picked(list[i].dependsOn, K)[m].id)
            /\ Picked(list[i].dependsOn, K)[m].id \in IDs(list) \ {list[i].id}
      BY <1>3, <1>4, <3>1
    <3> QED BY <1>7, <1>8, <3>2, <3>3 DEF RefersTo
  <2>2. ASSUME NEW a \in DOMAIN list, a # i PROVE RefersTo(new[a], IDs(new))
    <3>1. new[a].dependsOn = list[a].dependsOn /\ new[a].id = list[a].id
      BY <1>7, <2>2
    <3> QED BY <1>1, <1>7, <3>1 DEF RefersTo
  <2> QED BY <2>1, <2>2
<1>10. Clean(new)
  BY <1>1, <1>7, <1>9 DEF Clean, Tidy
<1>11. ASSUME NEW a \in DOMAIN list, NEW b \in DOMAIN list
       PROVE  Edge(new, a, b) <=> Edge(list, a, b) /\ ~(a = i /\ b = k)
  <2>1. CASE a # i
    <3>1. new[a].dependsOn = list[a].dependsOn /\ new[b].id = list[b].id
      BY <1>7, <2>1
    <3> QED BY <2>1, <3>1 DEF Edge, DepIDs
  <2>2. CASE a = i
    <3>1. Edge(new, a, b) <=> \E m \in DOMAIN Picked(list[i].dependsOn, K) :
                                list[b].id = Picked(list[i].dependsOn, K)[m].id
      <4>1. new[a].dependsOn = Picked(list[i].dependsOn, K)
        BY <1>7, <2>2
      <4> HIDE DEF K
      <4> QED BY <1>7, <4>1 DEF Edge, DepIDs
    <3>2. Edge(new, a, b) <=> \E l \in K : list[b].id = list[i].dependsOn[l].id
      <4> HIDE DEF K
      <4> QED BY <1>4, <3>1
    <3>3. \A l \in DOMAIN list[i].dependsOn : list[i].dependsOn[l] = ByID(list[i].dependsOn[l].id)
      BY <1>1 DEF RefersTo
    <3>4. list[b].id = list[k].id <=> b = k
      BY <1>1 DEF OnceID
    <3>5. \A l \in DOMAIN list[i].dependsOn :
            l \in K <=> list[i].dependsOn[l].id # list[k].id
      BY <3>3 DEF ByID
    <3>6. Edge(list, a, b) <=> \E l \in DOMAIN list[i].dependsOn : list[b].id = list[i].dependsOn[l].id
      BY <2>2 DEF Edge, DepIDs
    <3> QED BY <1>3, <2>2, <3>2, <3>4, <3>5, <3>6
  <2> QED BY <2>1, <2>2
<1> QED BY <1>7, <1>10, <1>11

-----------------------------------------------------------------------------
(* The search for a cycle.                                                   *)

Colors == {"white", "gray", "black"}
SearchSet(list) ==
  [color : [DOMAIN list -> Colors], stack : Seq(DOMAIN list),
   next : [DOMAIN list -> Nat], cycle : Seq(DOMAIN list)]

\* The stack is a path, holds the gray tasks, each once.
StackIsPath(list, s) ==
  /\ \A p, q \in DOMAIN s.stack : s.stack[p] = s.stack[q] => p = q
  /\ \A i \in DOMAIN list : s.color[i] = "gray" <=> \E p \in DOMAIN s.stack : s.stack[p] = i
  /\ \A p \in 1..(Len(s.stack) - 1) : Edge(list, s.stack[p], s.stack[p + 1])

\* Of every task the dependencies before the next one have been looked at: the
\* last may be entered, the others have been left.
LookedAt(list, s) ==
  /\ \A i \in DOMAIN list : /\ s.next[i] \in 1..(Len(list[i].dependsOn) + 1)
                            /\ s.color[i] = "white" => s.next[i] = 1
  /\ \A i \in DOMAIN list : \A m \in 1..(s.next[i] - 1) :
       \/ s.color[DepOf(list, i, m)] = "black"
       \/ \E p \in 1..(Len(s.stack) - 1) : s.stack[p] = i /\ s.stack[p + 1] = DepOf(list, i, m)

\* What the black tasks depend on is black, and there is no cycle among them.
BlackIsDone(list, s) ==
  /\ \A i, k \in DOMAIN list : s.color[i] = "black" /\ Edge(list, i, k) => s.color[k] = "black"
  /\ \A S \in SUBSET {i \in DOMAIN list : s.color[i] = "black"} :
       S # {} => \E i \in S : \A k \in S : ~Edge(list, i, k)

SearchInv(list, s) ==
  /\ s \in SearchSet(list)
  /\ s.cycle = <<>>
  /\ StackIsPath(list, s)
  /\ LookedAt(list, s)
  /\ BlackIsDone(list, s)

\* The moves made so far.
Done(list, s) ==
  {e \in Moves(list) :
     \/ e[2] = 0 /\ s.color[e[1]] # "white"
     \/ e[2] \in 1..(s.next[e[1]] - 1)
     \/ e[2] = Len(list[e[1]].dependsOn) + 1 /\ s.color[e[1]] = "black"}

\* A cycle as the search reports it: a path that ends where it began.
IsCycle(list, c) ==
  /\ c \in Seq(DOMAIN list) /\ Len(c) >= 2
  /\ c[Len(c)] = c[1]
  /\ \A p \in 1..(Len(c) - 1) : Edge(list, c[p], c[p + 1])

\* What the moves of a task are.
LEMMA MovesOf ==
  ASSUME NEW list, NEW i \in DOMAIN list, NEW m
  PROVE  <<i, m>> \in Moves(list) <=> m \in 0..(Len(list[i].dependsOn) + 1)
BY DEF Moves

\* Entering a white task: the first of all, or the dependency of the last on the
\* stack that was looked at.
LEMMA PushKeeps ==
  ASSUME NEW list, Clean(list), NEW s, SearchInv(list, s), NEW i \in DOMAIN list,
         s.color[i] = "white", NEW t \in SearchSet(list), t.cycle = <<>>,
         t.color = [s.color EXCEPT ![i] = "gray"],
         t.stack = Append(s.stack, i),
         s.stack # <<>> =>
           /\ Edge(list, s.stack[Len(s.stack)], i)
           /\ \A k \in DOMAIN list : k # s.stack[Len(s.stack)] => t.next[k] = s.next[k]
           /\ \A k \in DOMAIN list : k = s.stack[Len(s.stack)] =>
                /\ t.next[k] = s.next[k] + 1
                /\ s.next[k] \in DOMAIN list[k].dependsOn
                /\ DepOf(list, k, s.next[k]) = i,
         s.stack = <<>> => t.next = s.next
  PROVE  /\ SearchInv(list, t)
         /\ Done(list, s) \subseteq Done(list, t)
         /\ <<i, 0>> \in Done(list, t) \ Done(list, s)
<1>0. PICK D : D = DOMAIN list
  OBVIOUS
<1>1. PICK n \in Nat : n = Len(s.stack) /\ D = DOMAIN list
  BY <1>0 DEF SearchInv, SearchSet
<1>2. /\ s.color \in [D -> Colors] /\ s.stack \in Seq(D) /\ s.next \in [D -> Nat]
      /\ t.color \in [D -> Colors] /\ t.stack \in Seq(D) /\ t.next \in [D -> Nat]
      /\ i \in D
  BY <1>1 DEF SearchInv, SearchSet
<1>3. /\ Len(t.stack) = n + 1 /\ DOMAIN s.stack = 1..n /\ DOMAIN t.stack = 1..(n + 1)
      /\ t.stack[n + 1] = i
      /\ \A p \in 1..n : t.stack[p] = s.stack[p] /\ s.stack[p] \in D
      /\ n = 0 <=> s.stack = <<>>
  BY <1>1, <1>2
<1>4. /\ t.color[i] = "gray"
      /\ \A k \in D : k # i => t.color[k] = s.color[k]
      /\ \A k \in D : t.color[k] = "black" <=> s.color[k] = "black"
      /\ \A k \in D : t.color[k] = "gray" <=> s.color[k] = "gray" \/ k = i
  <2>1. t.color[i] = "gray" /\ \A k \in D : k # i => t.color[k] = s.color[k]
    BY <1>2
  <2> QED BY <2>1
<1>5. /\ \A p, q \in 1..n : s.stack[p] = s.stack[q] => p = q
      /\ \A k \in D : s.color[k] = "gray" <=> \E p \in 1..n : s.stack[p] = k
      /\ \A p \in 1..(n - 1) : Edge(list, s.stack[p], s.stack[p + 1])
  <2>1. StackIsPath(list, s)
    BY DEF SearchInv
  <2>2. \A p, q \in 1..n : s.stack[p] = s.stack[q] => p = q
    BY <1>3, <2>1 DEF StackIsPath
  <2>3. \A k \in D : s.color[k] = "gray" <=> \E p \in 1..n : s.stack[p] = k
    BY <1>1, <1>3, <2>1 DEF StackIsPath
  <2>4. \A p \in 1..(n - 1) : Edge(list, s.stack[p], s.stack[p + 1])
    BY <1>1, <2>1 DEF StackIsPath
  <2> QED BY <2>2, <2>3, <2>4
<1>6. \A p \in 1..n : s.stack[p] # i
  BY <1>2, <1>5
<1>7. \A k \in D : \/ t.next[k] = s.next[k]
                   \/ /\ n # 0 /\ k = s.stack[n] /\ t.next[k] = s.next[k] + 1
                      /\ s.next[k] \in DOMAIN list[k].dependsOn
                      /\ DepOf(list, k, s.next[k]) = i
  BY <1>1, <1>3
<1>8. \A k \in D : list[k].dependsOn \in Seq(Refs)
  BY <1>1, DepsAreEdges
<1>9. StackIsPath(list, t)
  <2>1. \A p, q \in 1..(n + 1) : t.stack[p] = t.stack[q] => p = q
    <3>1. \A p \in 1..(n + 1) : p \in 1..n \/ p = n + 1
      OBVIOUS
    <3> QED BY <1>3, <1>5, <1>6, <3>1
  <2>2. ASSUME NEW k \in D PROVE t.color[k] = "gray" <=> \E p \in 1..(n + 1) : t.stack[p] = k
    <3>1. \A p \in 1..(n + 1) : p \in 1..n \/ p = n + 1
      OBVIOUS
    <3>2. \A p \in 1..n : p \in 1..(n + 1)
      OBVIOUS
    <3>3. n + 1 \in 1..(n + 1)
      OBVIOUS
    <3> QED BY <1>3, <1>4, <1>5, <3>1, <3>2, <3>3
  <2>3. ASSUME NEW p \in 1..n PROVE Edge(list, t.stack[p], t.stack[p + 1])
    <3>1. CASE p = n
      <4>1. Edge(list, s.stack[n], i)
        BY <1>1, <1>3, <3>1
      <4> QED BY <1>3, <3>1, <4>1
    <3>2. CASE p # n
      <4>1. p \in 1..(n - 1) /\ p + 1 \in 1..n
        BY <3>2
      <4> QED BY <1>3, <1>5, <4>1
    <3> QED BY <3>1, <3>2
  <2>4. Len(t.stack) - 1 = n
    BY <1>3
  <2>5. \A p, q \in DOMAIN t.stack : t.stack[p] = t.stack[q] => p = q
    BY <1>3, <2>1
  <2>6. \A k \in DOMAIN list : t.color[k] = "gray" <=> \E p \in DOMAIN t.stack : t.stack[p] = k
    BY <1>1, <1>3, <2>2
  <2>7. \A p \in 1..(Len(t.stack) - 1) : Edge(list, t.stack[p], t.stack[p + 1])
    BY <2>3, <2>4
  <2> QED BY <2>5, <2>6, <2>7 DEF StackIsPath
<1>10. LookedAt(list, t)
  <2>1. /\ \A k \in D : s.next[k] \in 1..(Len(list[k].dependsOn) + 1)
        /\ \A k \in D : s.color[k] = "white" => s.next[k] = 1
        /\ \A k \in D : \A m \in 1..(s.next[k] - 1) :
             \/ s.color[DepOf(list, k, m)] = "black"
             \/ \E p \in 1..(n - 1) : s.stack[p] = k /\ s.stack[p + 1] = DepOf(list, k, m)
    BY <1>1 DEF SearchInv, LookedAt
  <2>2. ASSUME NEW k \in D PROVE t.next[k] \in 1..(Len(list[k].dependsOn) + 1)
    <3>1. DOMAIN list[k].dependsOn = 1..Len(list[k].dependsOn) /\ Len(list[k].dependsOn) \in Nat
      BY <1>8
    <3> QED BY <1>7, <2>1, <3>1
  <2>3. ASSUME NEW k \in D, t.color[k] = "white" PROVE t.next[k] = 1
    <3>1. s.color[k] = "white" /\ k # i
      BY <1>4, <2>3
    <3>2. ~(n # 0 /\ k = s.stack[n])
      BY <1>5, <3>1
    <3> QED BY <1>7, <2>1, <3>1, <3>2
  <2>4. ASSUME NEW k \in D, NEW m \in 1..(t.next[k] - 1)
        PROVE  \/ t.color[DepOf(list, k, m)] = "black"
               \/ \E p \in 1..n : t.stack[p] = k /\ t.stack[p + 1] = DepOf(list, k, m)
    <3>0. /\ s.next[k] \in Nat /\ t.next[k] \in Nat /\ m \in DOMAIN list[k].dependsOn
      <4>1. Len(list[k].dependsOn) \in Nat /\ DOMAIN list[k].dependsOn = 1..Len(list[k].dependsOn)
        BY <1>8
      <4>2. t.next[k] \in 1..(Len(list[k].dependsOn) + 1)
        BY <2>2
      <4> QED BY <1>2, <4>1, <4>2
    <3>1. CASE m \in 1..(s.next[k] - 1)
      <4>1. CASE s.color[DepOf(list, k, m)] = "black"
        <5>1. DepOf(list, k, m) \in D
          BY <1>1, <3>0, DepsAreEdges
        <5> QED BY <1>4, <4>1, <5>1
      <4>2. CASE \E p \in 1..(n - 1) : s.stack[p] = k /\ s.stack[p + 1] = DepOf(list, k, m)
        <5>1. PICK p \in 1..(n - 1) : s.stack[p] = k /\ s.stack[p + 1] = DepOf(list, k, m)
          BY <4>2
        <5>2. p \in 1..n /\ p + 1 \in 1..n
          OBVIOUS
        <5> QED BY <1>3, <5>1, <5>2
      <4> QED BY <2>1, <3>1, <4>1, <4>2
    <3>2. CASE m \notin 1..(s.next[k] - 1)
      <4>1. /\ n # 0 /\ k = s.stack[n] /\ t.next[k] = s.next[k] + 1
            /\ DepOf(list, k, s.next[k]) = i
        BY <1>7, <3>2
      <4>2. m = s.next[k]
        BY <2>4, <3>0, <3>2, <4>1
      <4> QED BY <1>3, <4>1, <4>2
    <3> QED BY <3>1, <3>2
  <2>5. Len(t.stack) - 1 = n
    BY <1>3
  <2> QED BY <1>1, <2>2, <2>3, <2>4, <2>5 DEF LookedAt
<1>11. BlackIsDone(list, t)
  <2>1. {k \in DOMAIN list : t.color[k] = "black"} = {k \in DOMAIN list : s.color[k] = "black"}
    BY <1>1, <1>4
  <2> QED BY <1>1, <1>4, <2>1 DEF SearchInv, BlackIsDone
<1>12. Done(list, s) \subseteq Done(list, t)
  <2>1. ASSUME NEW k \in D, s.color[k] # "white" PROVE t.color[k] # "white"
    BY <1>4, <2>1
  <2>2. ASSUME NEW k \in D, NEW m \in 1..(s.next[k] - 1) PROVE m \in 1..(t.next[k] - 1)
    <3>1. s.next[k] \in Nat /\ (t.next[k] = s.next[k] \/ t.next[k] = s.next[k] + 1)
      BY <1>2, <1>7
    <3> QED BY <2>2, <3>1
  <2>3. ASSUME NEW e \in Moves(list) PROVE e[1] \in D
    BY <1>1 DEF Moves
  <2>4. ASSUME NEW e \in Done(list, s) PROVE e \in Done(list, t)
    <3>1. /\ e \in Moves(list) /\ e[1] \in D
          /\ \/ e[2] = 0 /\ s.color[e[1]] # "white"
             \/ e[2] \in 1..(s.next[e[1]] - 1)
             \/ e[2] = Len(list[e[1]].dependsOn) + 1 /\ s.color[e[1]] = "black"
      BY <2>3 DEF Done
    <3>2. \/ e[2] = 0 /\ t.color[e[1]] # "white"
          \/ e[2] \in 1..(t.next[e[1]] - 1)
          \/ e[2] = Len(list[e[1]].dependsOn) + 1 /\ t.color[e[1]] = "black"
      BY <1>4, <2>1, <2>2, <3>1
    <3> QED BY <3>1, <3>2 DEF Done
  <2> QED BY <2>4
<1>13. <<i, 0>> \in Done(list, t) \ Done(list, s)
  <2>1. <<i, 0>> \in Moves(list)
    <3>1. Len(list[i].dependsOn) \in Nat
      BY <1>2, <1>8
    <3> QED BY <3>1, MovesOf
  <2>2. <<i, 0>> \in Done(list, t)
    BY <1>4, <2>1 DEF Done
  <2>3. <<i, 0>> \notin Done(list, s)
    <3>1. Len(list[i].dependsOn) \in Nat /\ s.next[i] \in Nat
      BY <1>2, <1>8
    <3>2. 0 \notin 1..(s.next[i] - 1) /\ 0 # Len(list[i].dependsOn) + 1
      BY <3>1
    <3> QED BY <3>2 DEF Done
  <2> QED BY <2>2, <2>3
<1> QED BY <1>9, <1>10, <1>11, <1>12, <1>13 DEF SearchInv

\* Looking at a dependency that has been left already.
LEMMA AdvanceKeeps ==
  ASSUME NEW list, Clean(list), NEW s, SearchInv(list, s), NEW i \in DOMAIN list,
         s.next[i] \in DOMAIN list[i].dependsOn,
         s.color[DepOf(list, i, s.next[i])] = "black",
         s.color[i] # "white",
         NEW t \in SearchSet(list), t.cycle = <<>>,
         t.color = s.color, t.stack = s.stack, t.next = [s.next EXCEPT ![i] = @ + 1]
  PROVE  /\ SearchInv(list, t)
         /\ Done(list, s) \subseteq Done(list, t)
         /\ <<i, s.next[i]>> \in Done(list, t) \ Done(list, s)
<1>0. PICK D : D = DOMAIN list
  OBVIOUS
<1>1. s.color \in [D -> Colors] /\ s.next \in [D -> Nat] /\ i \in D /\ t.next \in [D -> Nat]
  BY <1>0 DEF SearchInv, SearchSet
<1>2. \A k \in D : t.next[k] = IF k = i THEN s.next[i] + 1 ELSE s.next[k]
  BY <1>1
<1>3. \A k \in D : list[k].dependsOn \in Seq(Refs)
  BY <1>0, DepsAreEdges
<1>4. /\ \A k \in D : s.next[k] \in 1..(Len(list[k].dependsOn) + 1)
      /\ \A k \in D : s.color[k] = "white" => s.next[k] = 1
      /\ \A k \in D : \A m \in 1..(s.next[k] - 1) :
           \/ s.color[DepOf(list, k, m)] = "black"
           \/ \E p \in 1..(Len(s.stack) - 1) : s.stack[p] = k /\ s.stack[p + 1] = DepOf(list, k, m)
  BY <1>0 DEF SearchInv, LookedAt
<1>5. DOMAIN list[i].dependsOn = 1..Len(list[i].dependsOn) /\ Len(list[i].dependsOn) \in Nat
  BY <1>1, <1>3
<1>6. LookedAt(list, t)
  <2>1. ASSUME NEW k \in D PROVE t.next[k] \in 1..(Len(list[k].dependsOn) + 1)
    BY <1>2, <1>4, <1>5
  <2>2. ASSUME NEW k \in D, t.color[k] = "white" PROVE t.next[k] = 1
    BY <1>2, <1>4, <2>2
  <2>3. ASSUME NEW k \in D, NEW m \in 1..(t.next[k] - 1)
        PROVE  \/ t.color[DepOf(list, k, m)] = "black"
               \/ \E p \in 1..(Len(t.stack) - 1) : t.stack[p] = k /\ t.stack[p + 1] = DepOf(list, k, m)
    <3>1. CASE m \in 1..(s.next[k] - 1)
      BY <1>4, <3>1
    <3>2. CASE m \notin 1..(s.next[k] - 1)
      <4>1. k = i /\ m = s.next[i]
        <5>1. s.next[k] \in Nat
          BY <1>1
        <5>2. t.next[k] = s.next[k] \/ (k = i /\ t.next[k] = s.next[k] + 1)
          BY <1>2
        <5> QED BY <2>3, <3>2, <5>1, <5>2
      <4> QED BY <4>1
    <3> QED BY <3>1, <3>2
  <2> QED BY <1>0, <2>1, <2>2, <2>3 DEF LookedAt
<1>7. StackIsPath(list, t) /\ BlackIsDone(list, t)
  BY DEF SearchInv, StackIsPath, BlackIsDone
<1>8. Done(list, s) \subseteq Done(list, t)
  <2>1. ASSUME NEW k \in D, NEW m \in 1..(s.next[k] - 1) PROVE m \in 1..(t.next[k] - 1)
    <3>1. s.next[k] \in Nat /\ (t.next[k] = s.next[k] \/ t.next[k] = s.next[k] + 1)
      BY <1>1, <1>2
    <3> QED BY <2>1, <3>1
  <2>2. ASSUME NEW e \in Moves(list) PROVE e[1] \in D
    BY <1>0 DEF Moves
  <2> QED BY <2>1, <2>2 DEF Done
<1>9. <<i, s.next[i]>> \in Done(list, t) \ Done(list, s)
  <2>1. s.next[i] \in 1..Len(list[i].dependsOn) /\ s.next[i] \in 0..(Len(list[i].dependsOn) + 1)
    BY <1>5
  <2>2. <<i, s.next[i]>> \in Moves(list)
    BY <2>1, MovesOf
  <2>3. s.next[i] \in 1..(t.next[i] - 1)
    BY <1>1, <1>2, <2>1
  <2>4. /\ s.next[i] # 0 /\ s.next[i] \notin 1..(s.next[i] - 1)
        /\ s.next[i] # Len(list[i].dependsOn) + 1
    BY <1>5, <2>1
  <2>5. <<i, s.next[i]>> \in Done(list, t)
    BY <2>2, <2>3 DEF Done
  <2>6. <<i, s.next[i]>> \notin Done(list, s)
    BY <2>4 DEF Done
  <2> QED BY <2>5, <2>6
<1> QED BY <1>6, <1>7, <1>8, <1>9 DEF SearchInv

\* Leaving a task all of whose dependencies have been looked at.
LEMMA PopKeeps ==
  ASSUME NEW list, Clean(list), NEW s, SearchInv(list, s), s.stack # <<>>,
         NEW i, i = s.stack[Len(s.stack)],
         s.next[i] > Len(list[i].dependsOn),
         NEW t \in SearchSet(list), t.cycle = <<>>,
         t.color[i] = "black", \A k \in DOMAIN list : k # i => t.color[k] = s.color[k],
         t.stack = SubSeq(s.stack, 1, Len(s.stack) - 1), t.next = s.next
  PROVE  /\ SearchInv(list, t)
         /\ Done(list, s) \subseteq Done(list, t)
         /\ <<i, Len(list[i].dependsOn) + 1>> \in Done(list, t) \ Done(list, s)
<1>0. PICK D : D = DOMAIN list
  OBVIOUS
<1>1. PICK n \in Nat : n = Len(s.stack) /\ D = DOMAIN list
  BY <1>0 DEF SearchInv, SearchSet
<1>2. /\ s.color \in [D -> Colors] /\ s.stack \in Seq(D) /\ s.next \in [D -> Nat]
      /\ t.color \in [D -> Colors] /\ t.stack \in Seq(D)
      /\ n >= 1 /\ i \in D /\ i = s.stack[n]
  <2>1. /\ s.color \in [D -> Colors] /\ s.stack \in Seq(D) /\ s.next \in [D -> Nat]
        /\ t.color \in [D -> Colors] /\ t.stack \in Seq(D)
    BY <1>1 DEF SearchInv, SearchSet
  <2>2. n # 0
    BY <1>1, <2>1
  <2> QED BY <1>1, <2>1, <2>2
<1>3. /\ Len(t.stack) = n - 1 /\ DOMAIN s.stack = 1..n /\ DOMAIN t.stack = 1..(n - 1)
      /\ \A p \in 1..(n - 1) : t.stack[p] = s.stack[p]
  BY <1>1, <1>2
<1>4. /\ t.color[i] = "black"
      /\ \A k \in D : k # i => t.color[k] = s.color[k]
  BY <1>1, <1>2
<1>5. /\ \A p, q \in 1..n : s.stack[p] = s.stack[q] => p = q
      /\ \A k \in D : s.color[k] = "gray" <=> \E p \in 1..n : s.stack[p] = k
      /\ \A p \in 1..(n - 1) : Edge(list, s.stack[p], s.stack[p + 1])
  <2>1. StackIsPath(list, s)
    BY DEF SearchInv
  <2>2. \A p, q \in 1..n : s.stack[p] = s.stack[q] => p = q
    BY <1>3, <2>1 DEF StackIsPath
  <2>3. \A k \in D : s.color[k] = "gray" <=> \E p \in 1..n : s.stack[p] = k
    BY <1>1, <1>3, <2>1 DEF StackIsPath
  <2>4. \A p \in 1..(n - 1) : Edge(list, s.stack[p], s.stack[p + 1])
    BY <1>1, <2>1 DEF StackIsPath
  <2> QED BY <2>2, <2>3, <2>4
<1>6. s.color[i] = "gray"
  BY <1>2, <1>5
<1>7. \A k \in D : list[k].dependsOn \in Seq(Refs)
  BY <1>1, DepsAreEdges
<1>8. /\ \A k \in D : s.next[k] \in 1..(Len(list[k].dependsOn) + 1)
      /\ \A k \in D : s.color[k] = "white" => s.next[k] = 1
      /\ \A k \in D : \A m \in 1..(s.next[k] - 1) :
           \/ s.color[DepOf(list, k, m)] = "black"
           \/ \E p \in 1..(n - 1) : s.stack[p] = k /\ s.stack[p + 1] = DepOf(list, k, m)
  BY <1>1 DEF SearchInv, LookedAt
<1>9. ASSUME NEW m \in DOMAIN list[i].dependsOn PROVE s.color[DepOf(list, i, m)] = "black"
  <2>1. m \in 1..(s.next[i] - 1)
    <3>1. s.next[i] \in 1..(Len(list[i].dependsOn) + 1)
      BY <1>2, <1>8
    <3>2. DOMAIN list[i].dependsOn = 1..Len(list[i].dependsOn) /\ Len(list[i].dependsOn) \in Nat
      BY <1>2, <1>7
    <3> QED BY <3>1, <3>2
  <2>2. ~\E p \in 1..(n - 1) : s.stack[p] = i
    BY <1>2, <1>5
  <2>3. \/ s.color[DepOf(list, i, m)] = "black"
        \/ \E p \in 1..(n - 1) : s.stack[p] = i /\ s.stack[p + 1] = DepOf(list, i, m)
    BY <1>2, <1>8, <2>1
  <2> QED BY <2>2, <2>3
<1>10. \A k \in D : Edge(list, i, k) => s.color[k] = "black"
  <2>1. ASSUME NEW k \in D, Edge(list, i, k) PROVE s.color[k] = "black"
    <3>1. PICK m \in DOMAIN list[i].dependsOn : DepOf(list, i, m) = k
      BY <1>1, <1>2, <2>1, DepsAreEdges
    <3> QED BY <1>9, <3>1
  <2> QED BY <2>1
<1>11. StackIsPath(list, t)
  <2>1. \A p \in 1..(n - 1) : p \in 1..n /\ p # n
    OBVIOUS
  <2>2. ASSUME NEW k \in D PROVE t.color[k] = "gray" <=> \E p \in 1..(n - 1) : t.stack[p] = k
    <3>1. CASE k = i
      <4>1. ~\E p \in 1..(n - 1) : t.stack[p] = i
        BY <1>2, <1>3, <1>5, <2>1
      <4> QED BY <1>4, <3>1, <4>1
    <3>2. CASE k # i
      <4>1. \A p \in 1..n : s.stack[p] = k => p \in 1..(n - 1)
        BY <1>2, <3>2
      <4> QED BY <1>3, <1>4, <1>5, <2>1, <3>2, <4>1
    <3> QED BY <3>1, <3>2
  <2>3. ASSUME NEW p \in 1..((n - 1) - 1) PROVE Edge(list, t.stack[p], t.stack[p + 1])
    <3>1. p \in 1..(n - 1) /\ p + 1 \in 1..(n - 1)
      OBVIOUS
    <3> QED BY <1>3, <1>5, <3>1
  <2>4. \A p, q \in DOMAIN t.stack : t.stack[p] = t.stack[q] => p = q
    BY <1>3, <1>5, <2>1
  <2>5. \A k \in DOMAIN list : t.color[k] = "gray" <=> \E p \in DOMAIN t.stack : t.stack[p] = k
    BY <1>1, <1>3, <2>2
  <2>6. \A p \in 1..(Len(t.stack) - 1) : Edge(list, t.stack[p], t.stack[p + 1])
    BY <1>3, <2>3
  <2> QED BY <2>4, <2>5, <2>6 DEF StackIsPath
<1>12. LookedAt(list, t)
  <2>1. ASSUME NEW k \in D PROVE t.next[k] \in 1..(Len(list[k].dependsOn) + 1)
    BY <1>8
  <2>2. ASSUME NEW k \in D, t.color[k] = "white" PROVE t.next[k] = 1
    BY <1>4, <1>8, <2>2
  <2>3. ASSUME NEW k \in D, NEW m \in 1..(t.next[k] - 1)
        PROVE  \/ t.color[DepOf(list, k, m)] = "black"
               \/ \E p \in 1..((n - 1) - 1) : t.stack[p] = k /\ t.stack[p + 1] = DepOf(list, k, m)
    <3>1. DepOf(list, k, m) \in D
      <4>1. t.next[k] \in 1..(Len(list[k].dependsOn) + 1)
        BY <2>1
      <4>2. DOMAIN list[k].dependsOn = 1..Len(list[k].dependsOn) /\ Len(list[k].dependsOn) \in Nat
        BY <1>7
      <4>3. m \in DOMAIN list[k].dependsOn
        BY <4>1, <4>2
      <4> QED BY <1>1, <4>3, DepsAreEdges
    <3>2. CASE s.color[DepOf(list, k, m)] = "black"
      BY <1>4, <3>1, <3>2
    <3>3. CASE \E p \in 1..(n - 1) : s.stack[p] = k /\ s.stack[p + 1] = DepOf(list, k, m)
      <4>1. PICK p \in 1..(n - 1) : s.stack[p] = k /\ s.stack[p + 1] = DepOf(list, k, m)
        BY <3>3
      <4>2. CASE p = n - 1
        <5>1. p + 1 = n
          BY <4>2
        <5> QED BY <1>2, <1>4, <4>1, <5>1
      <4>3. CASE p # n - 1
        <5>1. p \in 1..((n - 1) - 1) /\ p + 1 \in 1..(n - 1)
          BY <4>3
        <5> QED BY <1>3, <4>1, <5>1
      <4> QED BY <4>2, <4>3
    <3> QED BY <1>8, <3>2, <3>3
  <2>4. Len(t.stack) - 1 = (n - 1) - 1
    BY <1>3
  <2>6. ASSUME NEW k \in DOMAIN list, NEW m \in 1..(t.next[k] - 1)
        PROVE  \/ t.color[DepOf(list, k, m)] = "black"
               \/ \E p \in 1..(Len(t.stack) - 1) :
                    t.stack[p] = k /\ t.stack[p + 1] = DepOf(list, k, m)
    <3>1. k \in D
      BY <1>1
    <3>2. \/ t.color[DepOf(list, k, m)] = "black"
          \/ \E p \in 1..((n - 1) - 1) : t.stack[p] = k /\ t.stack[p + 1] = DepOf(list, k, m)
      BY <2>3, <3>1
    <3> QED BY <2>4, <3>2
  <2>7. \A k \in DOMAIN list : t.next[k] \in 1..(Len(list[k].dependsOn) + 1)
    BY <1>1, <2>1
  <2>8. \A k \in DOMAIN list : t.color[k] = "white" => t.next[k] = 1
    BY <1>1, <2>2
  <2> QED BY <2>6, <2>7, <2>8 DEF LookedAt
<1>13. BlackIsDone(list, t)
  <2>1. /\ \A k, l \in D : s.color[k] = "black" /\ Edge(list, k, l) => s.color[l] = "black"
        /\ \A S \in SUBSET {k \in D : s.color[k] = "black"} :
             S # {} => \E k \in S : \A l \in S : ~Edge(list, k, l)
    BY <1>0 DEF SearchInv, BlackIsDone
  <2>2. \A k, l \in D : t.color[k] = "black" /\ Edge(list, k, l) => t.color[l] = "black"
    BY <1>4, <1>10, <2>1
  <2>3. ASSUME NEW S \in SUBSET {k \in D : t.color[k] = "black"}, S # {}
        PROVE  \E k \in S : \A l \in S : ~Edge(list, k, l)
    <3> DEFINE R == S \ {i}
    <3>1. CASE R = {}
      <4>1. S = {i}
        BY <2>3, <3>1
      <4>2. ~Edge(list, i, i)
        BY <1>2, <1>6, <1>10
      <4> QED BY <4>1, <4>2
    <3>2. CASE R # {}
      <4>1. R \in SUBSET {k \in D : s.color[k] = "black"}
        BY <1>4
      <4> HIDE DEF R
      <4>2. PICK k \in R : \A l \in R : ~Edge(list, k, l)
        BY <2>1, <3>2, <4>1
      <4>3. ~Edge(list, k, i)
        BY <1>2, <1>6, <2>1, <4>1
      <4> QED BY <4>2, <4>3 DEF R
    <3> QED BY <3>1, <3>2
  <2> QED BY <1>1, <2>2, <2>3 DEF BlackIsDone
<1>14. Done(list, s) \subseteq Done(list, t)
  <2>1. ASSUME NEW e \in Moves(list) PROVE e[1] \in D
    BY <1>1 DEF Moves
  <2>2. \A k \in D : /\ s.color[k] # "white" => t.color[k] # "white"
                     /\ s.color[k] = "black" => t.color[k] = "black"
    BY <1>4
  <2> QED BY <2>1, <2>2 DEF Done
<1>15. <<i, Len(list[i].dependsOn) + 1>> \in Done(list, t) \ Done(list, s)
  <2>1. Len(list[i].dependsOn) \in Nat
    BY <1>2, <1>7
  <2>2. /\ Len(list[i].dependsOn) + 1 \in 0..(Len(list[i].dependsOn) + 1)
        /\ Len(list[i].dependsOn) + 1 # 0
    BY <2>1
  <2>3. <<i, Len(list[i].dependsOn) + 1>> \in Moves(list)
    BY <1>1, <1>2, <2>2, MovesOf
  <2>4. Len(list[i].dependsOn) + 1 \notin 1..(s.next[i] - 1)
    <3>1. PICK a \in Nat, b \in Nat : a = Len(list[i].dependsOn) /\ b = s.next[i]
      BY <1>2, <1>8, <2>1
    <3>2. b \in 1..(a + 1)
      BY <1>2, <1>8, <3>1
    <3>3. a + 1 \notin 1..(b - 1)
      BY <3>2
    <3> QED BY <3>1, <3>3
  <2>5. <<i, Len(list[i].dependsOn) + 1>> \in Done(list, t)
    BY <1>4, <2>3 DEF Done
  <2>6. <<i, Len(list[i].dependsOn) + 1>> \notin Done(list, s)
    BY <1>6, <2>2, <2>4 DEF Done
  <2> QED BY <2>5, <2>6
<1> QED BY <1>11, <1>12, <1>13, <1>14, <1>15 DEF SearchInv

\* Coming to a task that is on the stack.
LEMMA CycleFound ==
  ASSUME NEW list, Clean(list), NEW s, SearchInv(list, s), s.stack # <<>>,
         NEW i, i = s.stack[Len(s.stack)], s.next[i] \in DOMAIN list[i].dependsOn,
         NEW d, d = DepOf(list, i, s.next[i]), s.color[d] = "gray",
         NEW start \in DOMAIN s.stack, s.stack[start] = d
  PROVE  IsCycle(list, Append(SubSeq(s.stack, start, Len(s.stack)), d))
<1>0. PICK D : D = DOMAIN list
  OBVIOUS
<1>1. PICK n \in Nat, stack \in Seq(D) : n = Len(s.stack) /\ stack = s.stack
  BY <1>0 DEF SearchInv, SearchSet
<1>2. n >= 1 /\ DOMAIN stack = 1..n /\ i = stack[n] /\ i \in D
  <2>1. n # 0
    BY <1>1
  <2> QED BY <1>1, <2>1
<1>3. d \in D \ {i} /\ Edge(list, i, d)
  BY <1>0, <1>2, DepsAreEdges
<1>4. /\ \E p \in 1..n : stack[p] = d
      /\ \A p \in 1..(n - 1) : Edge(list, stack[p], stack[p + 1])
  <2>1. StackIsPath(list, s)
    BY DEF SearchInv
  <2>2. \E p \in DOMAIN s.stack : s.stack[p] = d
    BY <1>0, <1>3, <2>1 DEF StackIsPath
  <2>3. \A p \in 1..(n - 1) : Edge(list, stack[p], stack[p + 1])
    BY <1>1, <2>1 DEF StackIsPath
  <2> QED BY <1>1, <1>2, <2>2, <2>3
<1>5. start \in 1..n /\ stack[start] = d
  BY <1>1, <1>2, <1>4
<1>6. start # n
  BY <1>2, <1>3, <1>5
<1>7. PICK first \in 1..n, size \in Nat : first = start /\ size = n - first + 1
  BY <1>5
<1>8. PICK part \in Seq(D) : part = SubSeq(s.stack, start, Len(s.stack))
  <2>1. SubSeq(stack, first, n) \in Seq(D)
    BY <1>2
  <2> QED BY <1>1, <1>7, <2>1
<1>9. Len(part) = size /\ \A p \in 1..size : part[p] = stack[p + first - 1]
  <2>1. Len(SubSeq(stack, first, n)) = n - first + 1
    BY <1>2
  <2>2. \A p \in 1..(n - first + 1) : SubSeq(stack, first, n)[p] = stack[p + first - 1]
    BY <1>2
  <2> QED BY <1>1, <1>7, <1>8, <2>1, <2>2
<1>10. PICK c \in Seq(D) : c = Append(part, d)
  <2>1. Append(part, d) \in Seq(D)
    BY <1>3, AppendProperties
  <2> QED BY <2>1
<1>11. Len(c) = size + 1 /\ c[size + 1] = d /\ \A p \in 1..size : c[p] = stack[p + first - 1]
  <2>1. /\ Len(c) = Len(part) + 1 /\ c[Len(part) + 1] = d
        /\ \A p \in 1..Len(part) : c[p] = part[p]
    BY <1>3, <1>10, AppendProperties
  <2> QED BY <1>9, <2>1
<1>12. c[1] = d
  <2>1. 1 \in 1..size /\ 1 + first - 1 = first
    BY <1>7
  <2> QED BY <1>5, <1>7, <1>11, <2>1
<1>13. ASSUME NEW p \in 1..size PROVE Edge(list, c[p], c[p + 1])
  <2>1. CASE p = size
    <3>1. p + first - 1 = n
      BY <1>7, <2>1
    <3>2. c[p] = i /\ c[p + 1] = d
      BY <1>2, <1>11, <2>1, <3>1
    <3> QED BY <1>3, <3>2
  <2>2. CASE p # size
    <3>1. p + 1 \in 1..size
      BY <2>2
    <3>2. PICK q \in 1..(n - 1) : q = p + first - 1 /\ q + 1 = (p + 1) + first - 1
      <4>1. p + first - 1 \in 1..(n - 1) /\ (p + first - 1) + 1 = (p + 1) + first - 1
        <5>1. p \in Nat /\ p >= 1 /\ p < size /\ first >= 1 /\ first <= n
          BY <2>2
        <5>2. first \in Nat /\ size = n - first + 1
          BY <1>7
        <5> QED BY <5>1, <5>2
      <4> QED BY <4>1
    <3>3. c[p] = stack[q] /\ c[p + 1] = stack[q + 1]
      BY <1>11, <3>1, <3>2
    <3> QED BY <1>4, <3>3
  <2> QED BY <2>1, <2>2
<1>14. IsCycle(list, c)
  <2>1. Len(c) >= 2 /\ Len(c) - 1 = size
    BY <1>6, <1>7, <1>11
  <2>2. c[Len(c)] = c[1]
    BY <1>11, <1>12
  <2> QED BY <1>0, <1>13, <2>1, <2>2 DEF IsCycle
<1> QED BY <1>8, <1>10, <1>14

\* Entering a task, field by field.
LEMMA PushFields ==
  ASSUME NEW list, NEW i \in DOMAIN list, NEW s \in SearchSet(list), NEW t, t = Push(s, i)
  PROVE  /\ t \in SearchSet(list)
         /\ t.color = [s.color EXCEPT ![i] = "gray"]
         /\ t.stack = Append(s.stack, i)
         /\ t.next = s.next /\ t.cycle = s.cycle
<1>1. PICK color : color = [s.color EXCEPT ![i] = "gray"]
  OBVIOUS
<1>2. PICK stack : stack = Append(s.stack, i)
  OBVIOUS
<1>3. t = [s EXCEPT !.color = color, !.stack = stack]
  BY <1>1, <1>2 DEF Push
<1>4. color \in [DOMAIN list -> Colors]
  BY <1>1 DEF SearchSet, Colors
<1>5. stack \in Seq(DOMAIN list)
  BY <1>2, AppendProperties DEF SearchSet
<1> QED BY <1>1, <1>2, <1>3, <1>4, <1>5 DEF SearchSet

\* Passing on to a task's next dependency, field by field.
Advanced(s, i) == [s EXCEPT !.next[i] = @ + 1]

\* Only the position in the task's own list changes.
LEMMA AdvanceFields ==
  ASSUME NEW list, NEW i \in DOMAIN list, NEW s \in SearchSet(list), NEW t, t = Advanced(s, i)
  PROVE  /\ t \in SearchSet(list)
         /\ t.next = [s.next EXCEPT ![i] = @ + 1]
         /\ t.color = s.color /\ t.stack = s.stack /\ t.cycle = s.cycle
<1>1. PICK next : next = [s.next EXCEPT ![i] = @ + 1]
  OBVIOUS
<1>2. t = [s EXCEPT !.next = next]
  BY <1>1 DEF Advanced
<1>3. next \in [DOMAIN list -> Nat]
  BY <1>1 DEF SearchSet
<1> QED BY <1>1, <1>2, <1>3 DEF SearchSet

\* A step of the search keeps the invariant and makes a new move, or finds a cycle.
LEMMA StepKeeps ==
  ASSUME NEW list, Clean(list), NEW s, SearchInv(list, s), ~SearchOver(list, s),
         NEW t, t = SearchStep(list, s)
  PROVE  \/ IsCycle(list, t.cycle)
         \/ /\ SearchInv(list, t)
            /\ Done(list, s) \subseteq Done(list, t)
            /\ Done(list, s) # Done(list, t)
<1> DEFINE top == s.stack[Len(s.stack)]
           dep == DepOf(list, top, s.next[top])
           white == {i \in DOMAIN list : s.color[i] = "white"}
           start == CHOOSE k \in DOMAIN s.stack : s.stack[k] = dep
           advanced == [s EXCEPT !.next[top] = @ + 1]
<1>0. PICK D : D = DOMAIN list
  OBVIOUS
<1>1. /\ s \in [color : [D -> Colors], stack : Seq(D), next : [D -> Nat], cycle : Seq(D)]
      /\ s.cycle = <<>>
  BY <1>0 DEF SearchInv, SearchSet
<1>2. /\ s.color \in [D -> Colors] /\ s.stack \in Seq(D) /\ s.next \in [D -> Nat]
      /\ SearchSet(list) = [color : [D -> Colors], stack : Seq(D), next : [D -> Nat], cycle : Seq(D)]
  BY <1>0, <1>1 DEF SearchSet
<1>3. t = IF s.stack = <<>> THEN Push(s, CHOOSE i \in white : \A k \in white : i <= k)
          ELSE IF s.next[top] > Len(list[top].dependsOn) THEN
            [s EXCEPT !.color[top] = "black", !.stack = SubSeq(s.stack, 1, Len(s.stack) - 1)]
          ELSE IF s.color[dep] = "white" THEN Push(advanced, dep)
          ELSE IF s.color[dep] = "gray" THEN
            [advanced EXCEPT !.cycle = Append(SubSeq(s.stack, start, Len(s.stack)), dep)]
          ELSE advanced
  BY Zenon DEF SearchStep, Last, Front, DepOf
<1> HIDE DEF start, white
<1>5. CASE s.stack = <<>>
  <2>1. white # {} /\ white \subseteq Nat /\ white \subseteq D
    <3>1. D \subseteq Nat
      BY <1>0 DEF Clean, Tidy
    <3> QED BY <1>0, <1>1, <1>5, <3>1 DEF SearchOver, white
  <2>2. \E i \in white : \A k \in white : i <= k
    BY <2>1, LeastNatural
  <2>3. PICK i \in white : t = Push(s, i)
    BY <1>3, <1>5, <2>2
  <2>4. i \in D /\ s.color[i] = "white"
    BY <1>0 DEF white
  <2>5. SearchInv(list, t) /\ Done(list, s) \subseteq Done(list, t) /\ <<i, 0>> \in Done(list, t) \ Done(list, s)
    <3>1. /\ t \in SearchSet(list) /\ t.cycle = <<>>
          /\ t.color = [s.color EXCEPT ![i] = "gray"]
          /\ t.stack = Append(s.stack, i) /\ t.next = s.next /\ i \in DOMAIN list
      <4>1. s \in SearchSet(list) /\ i \in DOMAIN list
        BY <1>0, <2>4 DEF SearchInv
      <4>2. /\ t \in SearchSet(list)
            /\ t.color = [s.color EXCEPT ![i] = "gray"]
            /\ t.stack = Append(s.stack, i) /\ t.next = s.next /\ t.cycle = s.cycle
        BY <2>3, <4>1, PushFields
      <4>3. t.cycle = <<>>
        BY <1>1, <4>2
      <4> QED BY <4>1, <4>2, <4>3, Zenon
    <3> HIDE DEF top, dep, advanced
    <3> QED BY <1>5, <2>4, <3>1, PushKeeps, Zenon
  <2> QED BY <2>5
<1>6. CASE s.stack # <<>>
  <2>1. top \in D
    <3>1. Len(s.stack) \in 1..Len(s.stack) /\ DOMAIN s.stack = 1..Len(s.stack)
      BY <1>2, <1>6
    <3> QED BY <1>2, <3>1
  <2>2. PICK i \in D : i = top
    BY <2>1
  <2>3. list[i].dependsOn \in Seq(Refs) /\ s.next[i] \in 1..(Len(list[i].dependsOn) + 1)
    BY <1>0, DepsAreEdges DEF SearchInv, LookedAt
  <2>4. s.color[i] = "gray"
    <3>1. Len(s.stack) \in DOMAIN s.stack /\ s.stack[Len(s.stack)] = i
      BY <1>2, <1>6, <2>2
    <3> QED BY <1>0, <3>1 DEF SearchInv, StackIsPath
  <2>5. CASE s.next[i] > Len(list[i].dependsOn)
    <3>1. t = [s EXCEPT !.color[i] = "black", !.stack = SubSeq(s.stack, 1, Len(s.stack) - 1)]
      BY <1>3, <1>6, <2>2, <2>5
    <3>2. SubSeq(s.stack, 1, Len(s.stack) - 1) \in Seq(D)
      BY <1>2, <1>6
    <3>3. /\ t \in SearchSet(list) /\ t.cycle = <<>>
          /\ t.color = [s.color EXCEPT ![i] = "black"]
          /\ t.stack = SubSeq(s.stack, 1, Len(s.stack) - 1) /\ t.next = s.next
      BY <1>1, <1>2, <3>1, <3>2 DEF Colors
    <3>4. /\ SearchInv(list, t) /\ Done(list, s) \subseteq Done(list, t)
          /\ <<i, Len(list[i].dependsOn) + 1>> \in Done(list, t) \ Done(list, s)
      <4>1. i = s.stack[Len(s.stack)]
        BY <2>2
      <4>2. t.color[i] = "black" /\ \A k \in DOMAIN list : k # i => t.color[k] = s.color[k]
        BY <1>0, <1>2, <3>3
      <4> HIDE DEF top, dep, advanced
      <4>3. PICK u : u = t
        OBVIOUS
      <4>4. /\ u \in SearchSet(list) /\ u.cycle = <<>>
            /\ u.color[i] = "black" /\ \A k \in DOMAIN list : k # i => u.color[k] = s.color[k]
            /\ u.stack = SubSeq(s.stack, 1, Len(s.stack) - 1) /\ u.next = s.next
        BY <3>3, <4>2, <4>3
      <4>5. /\ SearchInv(list, u) /\ Done(list, s) \subseteq Done(list, u)
            /\ <<i, Len(list[i].dependsOn) + 1>> \in Done(list, u) \ Done(list, s)
        BY <1>6, <2>5, <4>1, <4>4, PopKeeps
      <4> QED BY <4>3, <4>5
    <3> QED BY <3>4
  <2>6. CASE ~(s.next[i] > Len(list[i].dependsOn))
    <3>1. s.next[i] \in DOMAIN list[i].dependsOn
      BY <2>3, <2>6
    <3>2. PICK d \in D : d = dep /\ d = DepOf(list, i, s.next[i]) /\ d # i /\ Edge(list, i, d)
      BY <1>0, <2>2, <3>1, DepsAreEdges
    <3>3. PICK a : a = advanced
      OBVIOUS
    <3>4. /\ a \in SearchSet(list) /\ a.cycle = <<>> /\ a.color = s.color /\ a.stack = s.stack
          /\ a.next = [s.next EXCEPT ![i] = @ + 1]
      <4>1. i \in DOMAIN list /\ s \in SearchSet(list) /\ s.cycle = <<>>
        BY <1>0 DEF SearchInv
      <4>2. a = Advanced(s, i)
        BY <2>2, <3>3 DEF Advanced
      <4>3. /\ a \in SearchSet(list)
            /\ a.next = [s.next EXCEPT ![i] = @ + 1]
            /\ a.color = s.color /\ a.stack = s.stack /\ a.cycle = s.cycle
        BY <4>1, <4>2, AdvanceFields
      <4>4. a.cycle = s.cycle
        BY <4>3
      <4>5. a.cycle = <<>>
        BY <4>1, <4>4, Zenon
      <4> HIDE DEF advanced
      <4> QED BY <4>3, <4>5
    <3>5. CASE s.color[d] = "white"
      <4>1. t = Push(a, d)
        BY <1>3, <1>6, <2>2, <2>6, <3>2, <3>3, <3>5, Zenon
      <4>2. /\ t \in SearchSet(list) /\ t.cycle = <<>>
            /\ t.color = [s.color EXCEPT ![d] = "gray"]
            /\ t.stack = Append(s.stack, d) /\ t.next = [s.next EXCEPT ![i] = @ + 1]
        <5>1. a \in SearchSet(list) /\ d \in DOMAIN list
          BY <1>0, <3>4
        <5>2. /\ t \in SearchSet(list)
              /\ t.color = [a.color EXCEPT ![d] = "gray"]
              /\ t.stack = Append(a.stack, d) /\ t.next = a.next /\ t.cycle = a.cycle
          BY <4>1, <5>1, PushFields
        <5> QED BY <3>4, <5>2
      <4>3. \A k \in DOMAIN list : k # i => t.next[k] = s.next[k]
        BY <1>0, <1>2, <4>2
      <4>4. t.next[i] = s.next[i] + 1
        BY <1>2, <4>2
      <4>5. /\ SearchInv(list, t) /\ Done(list, s) \subseteq Done(list, t)
            /\ <<d, 0>> \in Done(list, t) \ Done(list, s)
        BY <1>0, <1>6, <2>2, <3>1, <3>2, <3>5, <4>2, <4>3, <4>4, PushKeeps
      <4> QED BY <4>5
    <3>6. CASE s.color[d] = "gray"
      <4>1. t = [a EXCEPT !.cycle = Append(SubSeq(s.stack, start, Len(s.stack)), d)]
        BY <1>3, <1>6, <2>2, <2>6, <3>2, <3>3, <3>6
      <4>2. t.cycle = Append(SubSeq(s.stack, start, Len(s.stack)), d)
        <5>1. a \in [color : [D -> Colors], stack : Seq(D), next : [D -> Nat], cycle : Seq(D)]
          BY <1>2, <3>4
        <5> QED BY <4>1, <5>1
      <4>3. IsCycle(list, Append(SubSeq(s.stack, start, Len(s.stack)), d))
        <5>1. PICK k \in DOMAIN s.stack : s.stack[k] = d
          BY <1>0, <3>2, <3>6 DEF SearchInv, StackIsPath
        <5>2. start \in DOMAIN s.stack /\ s.stack[start] = d
          BY <3>2, <5>1, Zenon DEF start
        <5> QED BY <1>6, <2>2, <3>1, <3>2, <3>6, <5>2, CycleFound, Zenon
      <4> QED BY <4>2, <4>3
    <3>7. CASE s.color[d] # "white" /\ s.color[d] # "gray"
      <4>1. t = a
        BY <1>3, <1>6, <2>2, <2>6, <3>2, <3>3, <3>7
      <4>2. s.color[d] = "black"
        BY <1>2, <3>7 DEF Colors
      <4>3. /\ SearchInv(list, t) /\ Done(list, s) \subseteq Done(list, t)
            /\ <<i, s.next[i]>> \in Done(list, t) \ Done(list, s)
        BY <1>0, <2>4, <3>1, <3>2, <3>4, <4>1, <4>2, AdvanceKeeps
      <4> QED BY <4>3
    <3> QED BY <3>5, <3>6, <3>7
  <2> QED BY <2>5, <2>6
<1> QED BY <1>5, <1>6

\* The search of a list has finitely many moves.
LEMMA MovesFinite ==
  ASSUME NEW list, Clean(list)
  PROVE  IsFiniteSet(Moves(list)) /\ Cardinality(Moves(list)) \in Nat
<1> DEFINE Of(i) == {i} \X (0..(Len(list[i].dependsOn) + 1))
           T == {Of(i) : i \in DOMAIN list}
           f == [i \in DOMAIN list |-> Of(i)]
<1>1. IsFiniteSet(DOMAIN list)
  <2>1. PICK n \in Nat : DOMAIN list = 1..n
    BY DEF Clean, Tidy
  <2> QED BY <2>1, FS_Interval
<1>2. ASSUME NEW i \in DOMAIN list PROVE IsFiniteSet(Of(i))
  <2>1. list[i].dependsOn \in Seq(Refs)
    BY DepsAreEdges
  <2>2. 0 \in Int /\ Len(list[i].dependsOn) + 1 \in Int
    BY <2>1
  <2>3. IsFiniteSet(0..(Len(list[i].dependsOn) + 1))
    BY <2>2, FS_Interval
  <2>4. IsFiniteSet({i})
    BY FS_Singleton
  <2> QED BY <2>3, <2>4, FS_Product
<1> HIDE DEF Of
<1>3. f \in Surjection(DOMAIN list, T)
  BY DEF Surjection
<1>4. IsFiniteSet(T)
  BY <1>1, <1>3, FS_Surjection
<1>5. \A t \in T : IsFiniteSet(t)
  BY <1>2
<1>6. IsFiniteSet(UNION T)
  BY <1>4, <1>5, FS_UNION
<1>7. Moves(list) = UNION T
  BY DEF Moves, Of
<1> QED BY <1>6, <1>7, FS_CardinalityType

\* Among any tasks of the list is one that depends on none of the others.
NoCycle(list) ==
  \A S \in SUBSET DOMAIN list : S # {} => \E i \in S : \A k \in S : ~Edge(list, i, k)

\* The invariant of the search holds where it starts.
LEMMA SearchStarts ==
  ASSUME NEW list, Clean(list)
  PROVE  SearchInv(list, SearchStart(list))
<1> DEFINE s == SearchStart(list)
<1>0. PICK D : D = DOMAIN list
  OBVIOUS
<1>1. /\ s.color = [i \in D |-> "white"] /\ s.stack = <<>>
      /\ s.next = [i \in D |-> 1] /\ s.cycle = <<>>
  BY <1>0 DEF SearchStart
<1>2. s \in SearchSet(list)
  BY DEF SearchStart, SearchSet, Colors
<1> HIDE DEF s
<1>3. \A i \in D : s.color[i] = "white" /\ s.next[i] = 1
  BY <1>1
<1>4. DOMAIN s.stack = {} /\ Len(s.stack) = 0
  BY <1>1
<1>5. StackIsPath(list, s)
  <2>1. 1..(Len(s.stack) - 1) = {}
    BY <1>4
  <2>2. \A i \in D : s.color[i] # "gray"
    BY <1>3
  <2> QED BY <1>0, <1>4, <2>1, <2>2 DEF StackIsPath
<1>6. LookedAt(list, s)
  <2>1. \A i \in D : Len(list[i].dependsOn) \in Nat
    BY <1>0, DepsAreEdges
  <2>2. \A i \in D : 1..(s.next[i] - 1) = {}
    BY <1>3
  <2>3. \A i \in D : s.next[i] \in 1..(Len(list[i].dependsOn) + 1)
    BY <1>3, <2>1
  <2> QED BY <1>0, <1>3, <2>2, <2>3 DEF LookedAt
<1>7. BlackIsDone(list, s)
  <2>1. \A i \in D : s.color[i] # "black"
    BY <1>3
  <2> QED BY <1>0, <2>1 DEF BlackIsDone
<1> QED BY <1>1, <1>2, <1>5, <1>6, <1>7 DEF SearchInv, s

\* When every move has been made, or there is none left, nothing is on a cycle.
LEMMA SearchedIsFree ==
  ASSUME NEW list, Clean(list), NEW s, SearchInv(list, s),
         SearchOver(list, s) \/ Done(list, s) = Moves(list)
  PROVE  NoCycle(list)
<1>0. PICK D : D = DOMAIN list
  OBVIOUS
<1>1. s.color \in [D -> Colors] /\ s.stack \in Seq(D) /\ s.cycle = <<>>
  BY <1>0 DEF SearchInv, SearchSet
<1>2. ASSUME NEW i \in D PROVE s.color[i] = "black"
  <2>1. CASE SearchOver(list, s)
    <3>1. s.stack = <<>> /\ s.color[i] # "white"
      BY <1>0, <1>1, <2>1 DEF SearchOver
    <3>2. s.color[i] # "gray"
      BY <1>0, <3>1 DEF SearchInv, StackIsPath
    <3> QED BY <1>1, <3>1, <3>2 DEF Colors
  <2>2. CASE Done(list, s) = Moves(list)
    <3>1. list[i].dependsOn \in Seq(Refs) /\ s.next[i] \in 1..(Len(list[i].dependsOn) + 1)
      BY <1>0, DepsAreEdges DEF SearchInv, LookedAt
    <3>2. PICK n \in Nat : n = Len(list[i].dependsOn)
      BY <3>1
    <3>3. n + 1 \in 0..(n + 1) /\ n + 1 # 0 /\ n + 1 \notin 1..(s.next[i] - 1)
      BY <3>1, <3>2
    <3>4. <<i, n + 1>> \in Moves(list)
      BY <1>0, <3>2, <3>3, MovesOf
    <3>5. <<i, n + 1>> \in Done(list, s)
      BY <2>2, <3>4
    <3> QED BY <3>2, <3>3, <3>5 DEF Done
  <2> QED BY <2>1, <2>2
<1>3. {i \in DOMAIN list : s.color[i] = "black"} = DOMAIN list
  BY <1>0, <1>2
<1> QED BY <1>3 DEF SearchInv, BlackIsDone, NoCycle

\* firstDependencyCycle, as the function it is defined by.
Searching(list, f, n) ==
  f = [k \in 0..n |-> IF k = 0 THEN SearchStart(list) ELSE SearchOn(list, f[k - 1])]

\* There is such a function: the recursion is well founded.
LEMMA SearchingExists ==
  ASSUME NEW list, NEW n \in Nat
  PROVE  \E f : Searching(list, f, n)
<1> DEFINE S == {m \in Nat : \E f : Searching(list, f, m)}
<1>1. 0 \in S
  <2> DEFINE first == [k \in 0..0 |-> SearchStart(list)]
  <2>1. \A k \in 0..0 : k = 0
    OBVIOUS
  <2>2. Searching(list, first, 0)
    BY <2>1 DEF Searching
  <2> QED BY <2>2
<1>2. ASSUME NEW m \in S PROVE m + 1 \in S
  <2>1. PICK f : Searching(list, f, m)
    OBVIOUS
  <2>2. m \in Nat
    OBVIOUS
  <2> DEFINE g == [k \in 0..(m + 1) |-> IF k = m + 1 THEN SearchOn(list, f[m]) ELSE f[k]]
  <2>3. \A k \in 0..(m + 1) : /\ k = m + 1 => k # 0 /\ k - 1 = m
                              /\ k # m + 1 => k \in 0..m /\ k - 1 # m + 1
                              /\ k # 0 => k - 1 \in 0..(m + 1) /\ k - 1 # m + 1
    BY <2>2
  <2>4. \A k \in 0..m : f[k] = IF k = 0 THEN SearchStart(list) ELSE SearchOn(list, f[k - 1])
    BY <2>1 DEF Searching
  <2>5. \A k \in 0..(m + 1) : k # 0 => g[k - 1] = f[k - 1]
    BY <2>3
  <2>6. \A k \in 0..(m + 1) : g[k] = IF k = 0 THEN SearchStart(list) ELSE SearchOn(list, g[k - 1])
    BY <2>3, <2>4, <2>5
  <2>7. g = [k \in 0..(m + 1) |-> g[k]]
    OBVIOUS
  <2> HIDE DEF g
  <2>8. Searching(list, g, m + 1)
    BY <2>6, <2>7 DEF Searching
  <2> QED BY <2>2, <2>8
<1> HIDE DEF S
<1>3. S = Nat
  <2>1. S \subseteq Nat
    BY DEF S
  <2> QED BY <1>1, <1>2, <2>1, NaturalInduction
<1> QED BY <1>3 DEF S

\* How far the search has come after k steps.
SearchedFor(list, s, k) ==
  \/ IsCycle(list, s.cycle)
  \/ SearchInv(list, s) /\ (SearchOver(list, s) \/ Cardinality(Done(list, s)) >= k)

\* One step further, one more move is done.
LEMMA SearchGoesOn ==
  ASSUME NEW list, Clean(list), NEW s, NEW k \in Nat, SearchedFor(list, s, k)
  PROVE  SearchedFor(list, SearchOn(list, s), k + 1)
<1>1. PICK t : t = SearchOn(list, s)
  OBVIOUS
<1>2. CASE SearchOver(list, s)
  BY <1>1, <1>2 DEF SearchOn, SearchedFor
<1>3. CASE ~SearchOver(list, s)
  <2>1. ~IsCycle(list, s.cycle)
    BY <1>3 DEF IsCycle, SearchOver
  <2>2. SearchInv(list, s) /\ Cardinality(Done(list, s)) >= k
    BY <1>3, <2>1 DEF SearchedFor
  <2>3. t = SearchStep(list, s)
    BY <1>1, <1>3 DEF SearchOn
  <2>4. \/ IsCycle(list, t.cycle)
        \/ /\ SearchInv(list, t)
           /\ Done(list, s) \subseteq Done(list, t)
           /\ Done(list, s) # Done(list, t)
    BY <1>3, <2>2, <2>3, StepKeeps
  <2>5. ASSUME Done(list, s) \subseteq Done(list, t), Done(list, s) # Done(list, t)
        PROVE  Cardinality(Done(list, t)) >= k + 1
    <3>1. IsFiniteSet(Moves(list)) /\ Done(list, t) \in SUBSET Moves(list)
      BY MovesFinite DEF Done
    <3>2. IsFiniteSet(Done(list, t))
      BY <3>1, FS_Subset
    <3>3. PICK A, B : A = Done(list, s) /\ B = Done(list, t)
      OBVIOUS
    <3>4. IsFiniteSet(B) /\ A \in SUBSET B /\ A # B
      BY <2>5, <3>2, <3>3
    <3>5. IsFiniteSet(A) /\ Cardinality(A) <= Cardinality(B) /\ Cardinality(A) # Cardinality(B)
      BY <3>4, FS_Subset
    <3>6. Cardinality(A) \in Nat /\ Cardinality(B) \in Nat
      BY <3>4, <3>5, FS_CardinalityType
    <3> QED BY <2>2, <3>3, <3>5, <3>6
  <2> QED BY <1>1, <2>4, <2>5 DEF SearchedFor
<1> QED BY <1>2, <1>3

\* The search finds a cycle or there is none.
LEMMA SearchFinds ==
  ASSUME NEW list, Clean(list)
  PROVE  \/ IsCycle(list, firstDependencyCycle(list))
         \/ firstDependencyCycle(list) = <<>> /\ NoCycle(list)
<1>1. PICK n \in Nat : n = Cardinality(Moves(list)) /\ IsFiniteSet(Moves(list))
  BY MovesFinite
<1> DEFINE chosen == CHOOSE f : Searching(list, f, n)
<1>2. firstDependencyCycle(list) = chosen[n].cycle
  BY <1>1, Zenon DEF firstDependencyCycle, Searching
<1>3. Searching(list, chosen, n)
  BY SearchingExists
<1> HIDE DEF chosen
<1>4. \A k \in 0..n : chosen[k] = IF k = 0 THEN SearchStart(list) ELSE SearchOn(list, chosen[k - 1])
  BY <1>3 DEF Searching
<1> DEFINE S == {k \in Nat : k <= n => SearchedFor(list, chosen[k], k)}
<1>5. 0 \in S
  <2>1. chosen[0] = SearchStart(list)
    BY <1>4
  <2>2. SearchInv(list, chosen[0])
    BY <2>1, SearchStarts
  <2>3. Cardinality(Done(list, chosen[0])) >= 0
    <3>1. Done(list, chosen[0]) \in SUBSET Moves(list)
      BY DEF Done
    <3>2. IsFiniteSet(Done(list, chosen[0]))
      BY <1>1, <3>1, FS_Subset
    <3>3. Cardinality(Done(list, chosen[0])) \in Nat
      BY <3>2, FS_CardinalityType
    <3> QED BY <3>3
  <2>4. SearchedFor(list, chosen[0], 0)
    BY <2>2, <2>3 DEF SearchedFor
  <2> QED BY <2>4
<1>6. ASSUME NEW k \in S PROVE k + 1 \in S
  <2>1. SUFFICES ASSUME k + 1 <= n PROVE SearchedFor(list, chosen[k + 1], k + 1)
    OBVIOUS
  <2>2. k \in Nat /\ k <= n /\ k + 1 \in 0..n /\ k + 1 # 0 /\ (k + 1) - 1 = k
    BY <2>1
  <2>3. SearchedFor(list, chosen[k], k)
    BY <2>2
  <2> HIDE DEF S
  <2>4. chosen[k + 1] = SearchOn(list, chosen[k])
    BY <1>4, <2>2
  <2> QED BY <2>2, <2>3, <2>4, SearchGoesOn
<1>7. S = Nat
  <2>1. S \subseteq Nat
    OBVIOUS
  <2> HIDE DEF S
  <2> QED BY <1>5, <1>6, <2>1, NaturalInduction
<1>8. PICK s : s = chosen[n]
  OBVIOUS
<1>9. SearchedFor(list, s, n)
  BY <1>7, <1>8
<1>10. CASE ~IsCycle(list, s.cycle)
  <2>1. SearchInv(list, s) /\ (SearchOver(list, s) \/ Cardinality(Done(list, s)) >= n)
    BY <1>9, <1>10 DEF SearchedFor
  <2>2. ASSUME Cardinality(Done(list, s)) >= n PROVE Done(list, s) = Moves(list)
    <3>1. Done(list, s) \in SUBSET Moves(list)
      BY DEF Done
    <3>2. /\ IsFiniteSet(Done(list, s)) /\ Cardinality(Done(list, s)) <= n
          /\ Cardinality(Moves(list)) = Cardinality(Done(list, s)) => Moves(list) = Done(list, s)
      BY <1>1, <3>1, FS_Subset
    <3>3. Cardinality(Done(list, s)) \in Nat
      BY <3>2, FS_CardinalityType
    <3> QED BY <1>1, <2>2, <3>2, <3>3
  <2>3. NoCycle(list) /\ s.cycle = <<>>
    BY <2>1, <2>2, SearchedIsFree DEF SearchInv
  <2> QED BY <1>2, <1>8, <2>3
<1> QED BY <1>2, <1>8, <1>10

-----------------------------------------------------------------------------
(* Breaking the cycles.                                                      *)

\* The first edge of a cycle leads to a task from which the cycle leads back.
LEMMA CycleLeadsBack ==
  ASSUME NEW list, NEW c, IsCycle(list, c)
  PROVE  /\ c # <<>> /\ c[1] \in DOMAIN list /\ c[2] \in DOMAIN list
         /\ Edge(list, c[1], c[2]) /\ Reaches(list, c[2], c[1])
<1>1. PICK n \in Nat : n = Len(c) /\ n >= 2 /\ DOMAIN c = 1..n
  BY DEF IsCycle
<1>2. /\ \A p \in 1..n : c[p] \in DOMAIN list
      /\ c[n] = c[1]
      /\ \A p \in 1..(n - 1) : Edge(list, c[p], c[p + 1])
  BY <1>1 DEF IsCycle
<1>3. c # <<>> /\ 1 \in 1..n /\ 2 \in 1..n /\ 1 \in 1..(n - 1) /\ 1 + 1 = 2
  BY <1>1
<1>4. ASSUME NEW S \in SUBSET DOMAIN list, c[2] \in S,
             \A m \in S, k \in DOMAIN list : Edge(list, m, k) => k \in S
      PROVE  c[1] \in S
  <2> DEFINE T == {p \in Nat : p + 2 <= n => c[p + 2] \in S}
  <2>1. 0 \in T
    BY <1>4
  <2>2. ASSUME NEW p \in T PROVE p + 1 \in T
    <3>1. SUFFICES ASSUME (p + 1) + 2 <= n PROVE c[(p + 1) + 2] \in S
      OBVIOUS
    <3>2. p \in Nat /\ p + 2 <= n /\ p + 2 \in 1..(n - 1) /\ (p + 1) + 2 = (p + 2) + 1
          /\ (p + 2) + 1 \in 1..n
      BY <3>1
    <3>3. c[p + 2] \in S
      BY <3>2
    <3>4. Edge(list, c[p + 2], c[(p + 2) + 1]) /\ c[(p + 2) + 1] \in DOMAIN list
      BY <1>2, <3>2
    <3> QED BY <1>4, <3>2, <3>3, <3>4
  <2>3. T = Nat
    <3>1. T \subseteq Nat
      OBVIOUS
    <3> HIDE DEF T
    <3> QED BY <2>1, <2>2, <3>1, NaturalInduction
  <2>4. PICK q \in Nat : q + 2 = n
    <3>1. n - 2 \in Nat /\ (n - 2) + 2 = n
      BY <1>1
    <3> QED BY <3>1
  <2>5. c[n] \in S
    <3>1. q \in T
      BY <2>3
    <3>2. q + 2 <= n
      BY <2>4
    <3> QED BY <2>4, <3>1, <3>2
  <2> QED BY <1>2, <2>5
<1>6. \A S \in SUBSET DOMAIN list :
         (c[2] \in S /\ \A m \in S, k \in DOMAIN list : Edge(list, m, k) => k \in S) => c[1] \in S
  BY <1>4
<1>5. Reaches(list, c[2], c[1])
  BY <1>6, Zenon DEF Reaches
<1> QED BY <1>2, <1>3, <1>5

\* A graph without cycles has none to be found.
LEMMA NoneToFind ==
  ASSUME NEW list, NoCycle(list), NEW c
  PROVE  ~IsCycle(list, c)
<1> SUFFICES ASSUME IsCycle(list, c) PROVE FALSE
  OBVIOUS
<1>1. PICK n \in Nat : n = Len(c) /\ n >= 2
  BY DEF IsCycle
<1>2. /\ \A p \in 1..n : c[p] \in DOMAIN list
      /\ c[n] = c[1]
      /\ \A p \in 1..(n - 1) : Edge(list, c[p], c[p + 1])
  <2>1. DOMAIN c = 1..n
    BY <1>1 DEF IsCycle
  <2> QED BY <1>1, <2>1 DEF IsCycle
<1> DEFINE S == {c[p] : p \in 1..(n - 1)}
<1>3. S \in SUBSET DOMAIN list
  <2>1. \A p \in 1..(n - 1) : p \in 1..n
    OBVIOUS
  <2> QED BY <1>2, <2>1
<1>4. c[1] \in S
  <2>1. 1 \in 1..(n - 1)
    BY <1>1
  <2> QED BY <2>1
<1>5. ASSUME NEW i \in S PROVE \E k \in S : Edge(list, i, k)
  <2>1. PICK p \in 1..(n - 1) : i = c[p]
    OBVIOUS
  <2>2. c[p + 1] \in S
    <3>1. CASE p = n - 1
      <4>1. p + 1 = n
        BY <3>1
      <4> QED BY <1>2, <1>4, <4>1
    <3>2. CASE p # n - 1
      <4>1. p + 1 \in 1..(n - 1)
        BY <3>2
      <4> QED BY <4>1
    <3> QED BY <3>1, <3>2
  <2> HIDE DEF S
  <2> QED BY <1>2, <2>1, <2>2
<1> HIDE DEF S
<1> QED BY <1>3, <1>4, <1>5 DEF NoCycle

\* What is left of a list when edges on cycles have been dropped.
Broken(list, new) ==
  /\ Clean(new) /\ DOMAIN new = DOMAIN list
  /\ \A i \in DOMAIN list : new[i].id = list[i].id
  /\ \A i, k \in DOMAIN list : Edge(new, i, k) => Edge(list, i, k)
  /\ \A i, k \in DOMAIN list : Edge(list, i, k) /\ ~Edge(new, i, k) => Reaches(list, k, i)
  /\ NoCycle(list) => new = list

\* The edges of a list, as pairs of places.
EdgeSet(list) == {e \in (DOMAIN list) \X (DOMAIN list) : Edge(list, e[1], e[2])}

\* They are at most as many as the rounds breakDependencyCycles has.
LEMMA EdgesFinite ==
  ASSUME NEW list, NEW n \in Nat, DOMAIN list = 1..n
  PROVE  /\ IsFiniteSet(EdgeSet(list))
         /\ Cardinality(EdgeSet(list)) \in Nat /\ Cardinality(EdgeSet(list)) <= n * n
<1>1. IsFiniteSet(1..n) /\ Cardinality(1..n) = n
  <2>1. 1 \in Int /\ n \in Int /\ (1 > n => n = 0) /\ n - 1 + 1 = n
    OBVIOUS
  <2> QED BY <2>1, FS_Interval
<1>2. IsFiniteSet((1..n) \X (1..n)) /\ Cardinality((1..n) \X (1..n)) = n * n
  <2>1. PICK I : I = 1..n
    OBVIOUS
  <2>2. IsFiniteSet(I \X I) /\ Cardinality(I \X I) = Cardinality(I) * Cardinality(I)
    BY <1>1, <2>1, FS_Product
  <2> QED BY <1>1, <2>1, <2>2
<1>3. EdgeSet(list) \in SUBSET ((1..n) \X (1..n))
  BY DEF EdgeSet
<1>4. IsFiniteSet(EdgeSet(list)) /\ Cardinality(EdgeSet(list)) <= n * n
  BY <1>2, <1>3, FS_Subset
<1> QED BY <1>4, FS_CardinalityType

\* Fewer edges lead no further.
LEMMA ReachesByMore ==
  ASSUME NEW list, NEW new, DOMAIN new = DOMAIN list,
         \A i, k \in DOMAIN list : Edge(new, i, k) => Edge(list, i, k),
         NEW a, NEW b, Reaches(new, a, b)
  PROVE  Reaches(list, a, b)
BY DEF Reaches

\* Each round drops an edge that is on a cycle, or there was none.
LEMMA RoundBreaks ==
  ASSUME NEW list, Clean(list), NEW g, Broken(list, g), NEW h, h = BreakFirst(g)
  PROVE  /\ Broken(list, h)
         /\ \/ firstDependencyCycle(g) = <<>> /\ h = g
            \/ Cardinality(EdgeSet(h)) < Cardinality(EdgeSet(g))
<1>1. Clean(g) /\ DOMAIN g = DOMAIN list
  BY DEF Broken
<1>2. PICK c : c = firstDependencyCycle(g)
  OBVIOUS
<1>3. CASE c = <<>>
  BY <1>2, <1>3 DEF BreakFirst
<1>4. CASE c # <<>>
  <2>1. IsCycle(g, c)
    BY <1>1, <1>2, <1>4, SearchFinds
  <2>2. PICK i \in DOMAIN g, k \in DOMAIN g :
          i = c[1] /\ k = c[2] /\ Edge(g, i, k) /\ Reaches(g, k, i)
    BY <2>1, CycleLeadsBack
  <2>3. h = DropEdge(g, i, g[k].id)
    BY <1>2, <1>4, <2>2 DEF BreakFirst
  <2>4. /\ Clean(h) /\ DOMAIN h = DOMAIN g
        /\ \A a \in DOMAIN g : h[a].id = g[a].id
        /\ \A a, b \in DOMAIN g : Edge(h, a, b) <=> Edge(g, a, b) /\ ~(a = i /\ b = k)
    BY <1>1, <2>3, EdgeDropped
  <2>5. Reaches(list, k, i)
    BY <1>1, <2>2, ReachesByMore DEF Broken
  <2>6. NoCycle(list) => h = list
    <3>1. ~NoCycle(g)
      BY <2>1, NoneToFind
    <3> QED BY <3>1 DEF Broken
  <2>7. Broken(list, h)
    BY <1>1, <2>2, <2>4, <2>5, <2>6 DEF Broken
  <2>8. Cardinality(EdgeSet(h)) < Cardinality(EdgeSet(g))
    <3>1. PICK n \in Nat : DOMAIN g = 1..n
      BY <1>1 DEF Clean, Tidy
    <3>2. PICK A, B : A = EdgeSet(h) /\ B = EdgeSet(g)
      OBVIOUS
    <3>3. IsFiniteSet(B) /\ Cardinality(B) \in Nat
      BY <3>1, <3>2, EdgesFinite
    <3>4. A \in SUBSET B
      BY <2>4, <3>2 DEF EdgeSet
    <3>5. <<i, k>> \in B /\ <<i, k>> \notin A
      BY <2>2, <2>4, <3>2 DEF EdgeSet
    <3>6. IsFiniteSet(A) /\ Cardinality(A) <= Cardinality(B) /\ Cardinality(A) # Cardinality(B)
      BY <3>3, <3>4, <3>5, FS_Subset
    <3>7. Cardinality(A) \in Nat
      BY <3>6, FS_CardinalityType
    <3> QED BY <3>2, <3>3, <3>6, <3>7
  <2> QED BY <2>7, <2>8
<1> QED BY <1>3, <1>4

\* breakDependencyCycles, as the function it is defined by.
Breaking(list, f, n) ==
  f = [k \in 0..n |-> IF k = 0 THEN list ELSE BreakFirst(f[k - 1])]

\* There is such a function.
LEMMA BreakingExists ==
  ASSUME NEW list, NEW n \in Nat
  PROVE  \E f : Breaking(list, f, n)
<1> DEFINE S == {m \in Nat : \E f : Breaking(list, f, m)}
<1>1. 0 \in S
  <2> DEFINE first == [k \in 0..0 |-> list]
  <2>1. \A k \in 0..0 : k = 0
    OBVIOUS
  <2>2. Breaking(list, first, 0)
    BY <2>1 DEF Breaking
  <2> QED BY <2>2
<1>2. ASSUME NEW m \in S PROVE m + 1 \in S
  <2>1. PICK f : Breaking(list, f, m)
    OBVIOUS
  <2>2. m \in Nat
    OBVIOUS
  <2> DEFINE g == [k \in 0..(m + 1) |-> IF k = m + 1 THEN BreakFirst(f[m]) ELSE f[k]]
  <2>3. \A k \in 0..(m + 1) : /\ k = m + 1 => k # 0 /\ k - 1 = m
                              /\ k # m + 1 => k \in 0..m /\ k - 1 # m + 1
                              /\ k # 0 => k - 1 \in 0..(m + 1) /\ k - 1 # m + 1
    BY <2>2
  <2>4. \A k \in 0..m : f[k] = IF k = 0 THEN list ELSE BreakFirst(f[k - 1])
    BY <2>1 DEF Breaking
  <2>5. \A k \in 0..(m + 1) : k # 0 => g[k - 1] = f[k - 1]
    BY <2>3
  <2>6. \A k \in 0..(m + 1) : g[k] = IF k = 0 THEN list ELSE BreakFirst(g[k - 1])
    BY <2>3, <2>4, <2>5
  <2>7. g = [k \in 0..(m + 1) |-> g[k]]
    OBVIOUS
  <2> HIDE DEF g
  <2>8. Breaking(list, g, m + 1)
    BY <2>6, <2>7 DEF Breaking
  <2> QED BY <2>2, <2>8
<1> HIDE DEF S
<1>3. S = Nat
  <2>1. S \subseteq Nat
    BY DEF S
  <2> QED BY <1>1, <1>2, <2>1, NaturalInduction
<1> QED BY <1>3 DEF S

\* What is left after k rounds, of at most e edges.
BrokenFor(list, g, k, e) ==
  Broken(list, g) /\ (firstDependencyCycle(g) = <<>> \/ Cardinality(EdgeSet(g)) + k <= e)

\* There are rounds enough: what is left has no cycles.
LEMMA BreakingWorks ==
  ASSUME NEW list, Clean(list), NEW new, new = breakDependencyCycles(list)
  PROVE  Broken(list, new) /\ NoCycle(new)
<1>0. PICK n \in Nat : n = Len(list) /\ DOMAIN list = 1..n
  BY DEF Clean, Tidy
<1>1. Broken(list, list)
  BY DEF Broken
<1>2. CASE list = <<>>
  <2>1. new = list
    BY <1>2 DEF breakDependencyCycles
  <2>2. DOMAIN list = {}
    BY <1>2
  <2> QED BY <1>1, <2>1, <2>2 DEF NoCycle
<1>3. CASE list # <<>>
  <2>1. PICK e \in Nat : e = Len(list) * Len(list) /\ e = n * n
    BY <1>0
  <2> DEFINE chosen == CHOOSE f : Breaking(list, f, e)
             done == CHOOSE k \in 0..e : firstDependencyCycle(chosen[k]) = <<>>
  <2>2. new = chosen[done]
    BY <1>3, <2>1, Zenon DEF breakDependencyCycles, Breaking
  <2>3. Breaking(list, chosen, e)
    BY BreakingExists
  <2> HIDE DEF chosen
  <2>4. \A k \in 0..e : chosen[k] = IF k = 0 THEN list ELSE BreakFirst(chosen[k - 1])
    BY <2>3 DEF Breaking
  <2> DEFINE S == {k \in Nat : k <= e => BrokenFor(list, chosen[k], k, e)}
  <2>5. 0 \in S
    <3>1. chosen[0] = list
      BY <2>4
    <3>2. Cardinality(EdgeSet(list)) \in Nat /\ Cardinality(EdgeSet(list)) <= e
      BY <1>0, <2>1, EdgesFinite
    <3>3. BrokenFor(list, chosen[0], 0, e)
      BY <1>1, <3>1, <3>2 DEF BrokenFor
    <3> QED BY <3>3
  <2>6. ASSUME NEW k \in S PROVE k + 1 \in S
    <3>1. SUFFICES ASSUME k + 1 <= e PROVE BrokenFor(list, chosen[k + 1], k + 1, e)
      OBVIOUS
    <3>2. k \in Nat /\ k <= e /\ k + 1 \in 0..e /\ k + 1 # 0 /\ (k + 1) - 1 = k
      BY <3>1
    <3>3. BrokenFor(list, chosen[k], k, e)
      BY <3>2
    <3> HIDE DEF S
    <3>4. PICK g, h : g = chosen[k] /\ h = chosen[k + 1] /\ h = BreakFirst(g)
      BY <2>4, <3>2
    <3>5. /\ Broken(list, h)
          /\ \/ firstDependencyCycle(g) = <<>> /\ h = g
             \/ Cardinality(EdgeSet(h)) < Cardinality(EdgeSet(g))
      BY <3>3, <3>4, RoundBreaks DEF BrokenFor
    <3>6. Cardinality(EdgeSet(g)) \in Nat /\ Cardinality(EdgeSet(h)) \in Nat
      BY <1>0, <3>3, <3>4, <3>5, EdgesFinite DEF BrokenFor, Broken
    <3>7. CASE firstDependencyCycle(g) = <<>>
      <4>1. h = g
        BY <3>4, <3>7 DEF BreakFirst
      <4> QED BY <3>4, <3>5, <3>7, <4>1 DEF BrokenFor
    <3>8. CASE firstDependencyCycle(g) # <<>>
      <4>1. Cardinality(EdgeSet(g)) + k <= e
        BY <3>3, <3>4, <3>8 DEF BrokenFor
      <4>2. Cardinality(EdgeSet(h)) + (k + 1) <= e
        BY <3>2, <3>5, <3>6, <3>8, <4>1
      <4> QED BY <3>4, <3>5, <4>2 DEF BrokenFor
    <3> QED BY <3>7, <3>8
  <2>7. S = Nat
    <3>1. S \subseteq Nat
      OBVIOUS
    <3> HIDE DEF S
    <3> QED BY <2>5, <2>6, <3>1, NaturalInduction
  <2>8. \A k \in 0..e : BrokenFor(list, chosen[k], k, e)
    BY <2>7
  <2> HIDE DEF S
  <2>9. firstDependencyCycle(chosen[e]) = <<>>
    <3>1. PICK g : g = chosen[e]
      OBVIOUS
    <3>2. Broken(list, g) /\ (firstDependencyCycle(g) = <<>> \/ Cardinality(EdgeSet(g)) + e <= e)
      BY <2>8, <3>1 DEF BrokenFor
    <3>3. IsFiniteSet(EdgeSet(g)) /\ Cardinality(EdgeSet(g)) \in Nat
      BY <1>0, <3>2, EdgesFinite DEF Broken
    <3>4. CASE firstDependencyCycle(g) # <<>>
      <4>1. Cardinality(EdgeSet(g)) = 0
        BY <3>2, <3>3, <3>4
      <4>2. EdgeSet(g) = {}
        BY <3>3, <4>1, FS_EmptySet
      <4>3. PICK c : c = firstDependencyCycle(g) /\ IsCycle(g, c)
        BY <3>2, <3>4, SearchFinds DEF Broken
      <4>4. c[1] \in DOMAIN g /\ c[2] \in DOMAIN g /\ Edge(g, c[1], c[2])
        BY <4>3, CycleLeadsBack
      <4>5. <<c[1], c[2]>> \in EdgeSet(g)
        BY <4>4 DEF EdgeSet
      <4> QED BY <4>2, <4>5
    <3> QED BY <3>1, <3>4
  <2>10. done \in 0..e /\ firstDependencyCycle(chosen[done]) = <<>>
    <3>1. e \in 0..e
      OBVIOUS
    <3> QED BY <2>9, <3>1, Zenon
  <2> HIDE DEF done
  <2>11. Broken(list, new) /\ firstDependencyCycle(new) = <<>>
    BY <2>2, <2>8, <2>10 DEF BrokenFor
  <2>12. ~IsCycle(new, <<>>)
    <3>1. Len(<<>>) = 0
      OBVIOUS
    <3> QED BY <3>1 DEF IsCycle
  <2>13. Clean(new)
    BY <2>11 DEF Broken
  <2>14. NoCycle(new)
    BY <2>11, <2>12, <2>13, SearchFinds
  <2> QED BY <2>11, <2>14
<1> QED BY <1>2, <1>3

-----------------------------------------------------------------------------
(* The workflow's tasks.                                                     *)

\* More IDs do not make a reference dangle.
LEMMA RefersToMore ==
  ASSUME NEW t, NEW few, NEW many, few \subseteq many, RefersTo(t, few)
  PROVE  RefersTo(t, many)
BY DEF RefersTo

\* A part of a list of tasks: what they refer to is still among the list's.
LEMMA PartOfList ==
  ASSUME NEW list, Clean(list), NoCycle(list), NEW K \in SUBSET DOMAIN list,
         NEW part, part = Picked(list, K)
  PROVE  Tidy(part, IDs(list)) /\ IDs(part) \subseteq IDs(list) /\ NoCycle(part)
<1>1. /\ list \in Seq(TaskSet) /\ OnceID(list)
      /\ \A i \in DOMAIN list : RefersTo(list[i], IDs(list))
  BY DEF Clean, Tidy
<1>2. PICK c, pos : /\ Places(K, c, pos) /\ Picked(list, K) = TakenAt(list, c, pos)
                    /\ Picked(list, K) \in Seq(TaskSet)
  BY <1>1, PickedEntries
<1>3. /\ DOMAIN part = 1..c /\ c \in Nat /\ part \in Seq(TaskSet)
      /\ \A m \in 1..c : pos[m] \in K /\ pos[m] \in DOMAIN list /\ part[m] = list[pos[m]]
  BY <1>2 DEF TakenAt, Places
<1>4. \A l, m \in 1..c : pos[l] = pos[m] => l = m
  <2>1. \A m \in 1..c : pos[m] \in Nat
    BY <1>1, <1>3
  <2>2. \A l, m \in 1..c : l < m => pos[l] < pos[m]
    BY <1>2 DEF Places
  <2>3. \A l, m \in 1..c : l < m \/ m < l \/ l = m
    BY <1>3
  <2> QED BY <2>1, <2>2, <2>3
<1>5. OnceID(part)
  BY <1>1, <1>3, <1>4 DEF OnceID
<1>6. Tidy(part, IDs(list))
  BY <1>1, <1>3, <1>5 DEF Tidy
<1>7. IDs(part) \subseteq IDs(list)
  BY <1>3 DEF IDs
<1>8. ASSUME NEW S \in SUBSET DOMAIN part, S # {}
      PROVE  \E i \in S : \A k \in S : ~Edge(part, i, k)
  <2> DEFINE T == {pos[m] : m \in S}
  <2>1. T \in SUBSET DOMAIN list /\ T # {}
    BY <1>3, <1>8
  <2> HIDE DEF T
  <2>2. PICK t \in T : \A u \in T : ~Edge(list, t, u)
    BY <2>1 DEF NoCycle
  <2>3. PICK i \in S : t = pos[i]
    BY DEF T
  <2>4. ASSUME NEW k \in S PROVE ~Edge(part, i, k)
    <3>1. ~Edge(list, pos[i], pos[k])
      BY <2>2, <2>3 DEF T
    <3>2. part[i] = list[pos[i]] /\ part[k] = list[pos[k]]
      BY <1>3
    <3> QED BY <3>1, <3>2 DEF Edge, DepIDs
  <2> QED BY <2>4
<1>9. NoCycle(part)
  BY <1>8 DEF NoCycle
<1> QED BY <1>6, <1>7, <1>9

\* Appending tasks that refer to each other alone closes no cycle.
LEMMA AppendedTasks ==
  ASSUME NEW old, NEW ids1, Tidy(old, ids1), IDs(old) \subseteq ids1, NoCycle(old),
         NEW new, NEW ids2, Tidy(new, ids2), IDs(new) \subseteq ids2, NoCycle(new),
         ids1 \cap ids2 = {}, NEW all, all = old \o new
  PROVE  /\ Tidy(all, ids1 \cup ids2) /\ IDs(all) \subseteq ids1 \cup ids2
         /\ NoCycle(all)
<1>1. /\ old \in Seq(TaskSet) /\ OnceID(old) /\ \A i \in DOMAIN old : RefersTo(old[i], ids1)
      /\ new \in Seq(TaskSet) /\ OnceID(new) /\ \A i \in DOMAIN new : RefersTo(new[i], ids2)
  BY DEF Tidy
<1>2. PICK a \in Nat, b \in Nat : a = Len(old) /\ b = Len(new)
  BY <1>1
<1>3. /\ all \in Seq(TaskSet) /\ Len(all) = a + b /\ DOMAIN all = 1..(a + b)
      /\ \A i \in 1..a : all[i] = old[i]
      /\ \A i \in 1..b : all[a + i] = new[i]
  BY <1>1, <1>2
<1>4. DOMAIN old = 1..a /\ DOMAIN new = 1..b
  BY <1>1, <1>2
<1>5. \A i \in 1..(a + b) : i \in 1..a \/ (i - a \in 1..b /\ a + (i - a) = i)
  OBVIOUS
<1>6. \A i \in 1..(a + b) : \/ i \in 1..a /\ all[i] = old[i]
                            \/ i - a \in 1..b /\ all[i] = new[i - a]
  BY <1>3, <1>5
<1>7. /\ \A i \in 1..a : old[i].id \in ids1
      /\ \A i \in 1..b : new[i].id \in ids2
  BY <1>4 DEF IDs
<1>8. OnceID(all)
  <2>1. SUFFICES ASSUME NEW i \in 1..(a + b), NEW k \in 1..(a + b), all[i].id = all[k].id
                 PROVE  i = k
    BY <1>3 DEF OnceID
  <2>2. CASE i \in 1..a /\ all[i] = old[i]
    <3>1. CASE k \in 1..a /\ all[k] = old[k]
      BY <1>1, <1>4, <2>1, <2>2, <3>1 DEF OnceID
    <3>2. CASE k - a \in 1..b /\ all[k] = new[k - a]
      <4>1. all[i].id \in ids1 /\ all[k].id \in ids2
        BY <1>7, <2>2, <3>2
      <4> QED BY <2>1, <4>1
    <3> QED BY <1>6, <3>1, <3>2
  <2>3. CASE i - a \in 1..b /\ all[i] = new[i - a]
    <3>1. CASE k \in 1..a /\ all[k] = old[k]
      <4>1. all[k].id \in ids1 /\ all[i].id \in ids2
        BY <1>7, <2>3, <3>1
      <4> QED BY <2>1, <4>1
    <3>2. CASE k - a \in 1..b /\ all[k] = new[k - a]
      <4>1. i - a = k - a
        BY <1>1, <1>4, <2>1, <2>3, <3>2 DEF OnceID
      <4> QED BY <4>1
    <3> QED BY <1>6, <3>1, <3>2
  <2> QED BY <1>6, <2>2, <2>3
<1>9. \A i \in 1..(a + b) : RefersTo(all[i], ids1 \cup ids2)
  <2>1. \A i \in 1..a : RefersTo(old[i], ids1 \cup ids2)
    BY <1>1, <1>4, RefersToMore
  <2>2. ASSUME NEW i \in 1..b PROVE RefersTo(new[i], ids1 \cup ids2)
    <3>1. RefersTo(new[i], ids2) /\ ids2 \subseteq ids1 \cup ids2
      BY <1>1, <1>4
    <3> QED BY <3>1, RefersToMore
  <2> QED BY <1>6, <2>1, <2>2
<1>10. Tidy(all, ids1 \cup ids2)
  BY <1>3, <1>8, <1>9 DEF Tidy
<1>11. IDs(all) \subseteq ids1 \cup ids2
  BY <1>3, <1>6, <1>7 DEF IDs
<1>12. ASSUME NEW i \in 1..a, NEW k \in 1..b
       PROVE  ~Edge(all, i, a + k) /\ ~Edge(all, a + k, i)
  <2>1. all[i] = old[i] /\ all[a + k] = new[k]
    BY <1>3
  <2>2. DepIDs(all, i) \subseteq ids1
    <3>1. \A m \in DOMAIN old[i].dependsOn : old[i].dependsOn[m].id \in ids1
      BY <1>1, <1>4 DEF RefersTo
    <3> QED BY <2>1, <3>1 DEF DepIDs
  <2>3. DepIDs(all, a + k) \subseteq ids2
    <3>1. \A m \in DOMAIN new[k].dependsOn : new[k].dependsOn[m].id \in ids2
      BY <1>1, <1>4 DEF RefersTo
    <3> QED BY <2>1, <3>1 DEF DepIDs
  <2>4. all[i].id \in ids1 /\ all[a + k].id \in ids2
    BY <1>7, <2>1
  <2> QED BY <2>2, <2>3, <2>4 DEF Edge
<1>13. ASSUME NEW S \in SUBSET DOMAIN all, S # {}
       PROVE  \E i \in S : \A k \in S : ~Edge(all, i, k)
  <2> DEFINE A == S \cap 1..a
             B == {i \in 1..b : a + i \in S}
  <2>1. CASE A # {}
    <3>1. A \in SUBSET DOMAIN old
      BY <1>4
    <3>2. PICK i \in A : \A k \in A : ~Edge(old, i, k)
      BY <2>1, <3>1 DEF NoCycle
    <3>3. ASSUME NEW k \in S PROVE ~Edge(all, i, k)
      <4>1. CASE k \in 1..a
        <5>1. ~Edge(old, i, k) /\ all[i] = old[i] /\ all[k] = old[k]
          BY <1>3, <3>2, <4>1
        <5> QED BY <5>1 DEF Edge, DepIDs
      <4>2. CASE k \notin 1..a
        <5>1. PICK l \in 1..b : k = a + l
          BY <1>3, <1>5, <1>13, <4>2
        <5> QED BY <1>12, <5>1
      <4> QED BY <4>1, <4>2
    <3> QED BY <3>3
  <2>2. CASE A = {}
    <3>1. \A k \in S : \E l \in B : k = a + l
      BY <1>3, <1>5, <1>13, <2>2
    <3>2. B \in SUBSET DOMAIN new /\ B # {}
      BY <1>4, <1>13, <3>1
    <3>3. PICK i \in B : \A k \in B : ~Edge(new, i, k)
      BY <3>2 DEF NoCycle
    <3>4. ASSUME NEW k \in S PROVE ~Edge(all, a + i, k)
      <4>1. PICK l \in B : k = a + l
        BY <3>1
      <4>2. ~Edge(new, i, l) /\ all[a + i] = new[i] /\ all[k] = new[l]
        BY <1>3, <3>3, <4>1
      <4> QED BY <4>2 DEF Edge, DepIDs
    <3>5. a + i \in S
      OBVIOUS
    <3> QED BY <3>4, <3>5
  <2> QED BY <2>1, <2>2
<1>14. NoCycle(all)
  BY <1>13 DEF NoCycle
<1> QED BY <1>10, <1>11, <1>14

\* ResolveAndSanitizeTaskDependencies.
LEMMA Sanitized ==
  ASSUME NEW list \in Seq(TaskSet), OnceID(list),
         NEW new, new = ResolveAndSanitizeTaskDependencies(list)
  PROVE  /\ Broken(Resolved(list), new) /\ NoCycle(new) /\ Clean(new)
         /\ DOMAIN new = DOMAIN list /\ IDs(new) = IDs(list)
<1>1. /\ Clean(Resolved(list)) /\ DOMAIN Resolved(list) = DOMAIN list
      /\ Len(Resolved(list)) = Len(list)
      /\ \A i \in DOMAIN list : Resolved(list)[i].id = list[i].id
  BY ResolvedIsClean
<1>2. new = breakDependencyCycles(Resolved(list))
  BY DEF ResolveAndSanitizeTaskDependencies
<1>3. Broken(Resolved(list), new) /\ NoCycle(new)
  BY <1>1, <1>2, BreakingWorks
<1>4. /\ Clean(new) /\ DOMAIN new = DOMAIN list
      /\ \A i \in DOMAIN list : new[i].id = list[i].id
  BY <1>1, <1>3 DEF Broken
<1>5. IDs(new) = IDs(list)
  BY <1>4 DEF IDs
<1> QED BY <1>3, <1>4, <1>5

-----------------------------------------------------------------------------
(* The invariant.                                                            *)

\* The IDs of the tasks of the first n Architect outputs, and of the output that
\* comes after them.
Known(n) == 1..(n * ListLen)
Coming(n) == (n * ListLen + 1)..(n * ListLen + ListLen)

TasksOK == Tidy(tasks, Known(plans)) /\ IDs(tasks) \subseteq Known(plans) /\ NoCycle(tasks)
DraftOK == draft \in Seq(TaskSet) /\ OnceID(draft) /\ IDs(draft) \subseteq Coming(plans)

IInv == plans \in 0..MaxPlans /\ (draft # <<>> => plans < MaxPlans) /\ TasksOK /\ DraftOK

\* What is known grows by what comes.
LEMMA Numbered ==
  ASSUME NEW n \in Nat
  PROVE  /\ Known(n) \in SUBSET (Nat \ {NoID}) /\ Coming(n) \in SUBSET (Nat \ {NoID})
         /\ Known(n) \cap Coming(n) = {} /\ Known(n) \cup Coming(n) = Known(n + 1)
<1>1. ListLen \in Nat
  BY TaskDepsAssumption
<1>2. PICK b \in Nat : b = n * ListLen
  BY <1>1
<1>3. (n + 1) * ListLen = b + ListLen
  BY <1>1, <1>2
<1>4. /\ Known(n) = 1..b /\ Coming(n) = (b + 1)..(b + ListLen)
      /\ Known(n + 1) = 1..(b + ListLen)
  BY <1>2, <1>3 DEF Known, Coming
<1> QED BY <1>1, <1>2, <1>4 DEF NoID

\* No tasks at all are tidy.
LEMMA EmptyList ==
  Tidy(<<>>, {}) /\ OnceID(<<>>) /\ IDs(<<>>) = {} /\ NoCycle(<<>>) /\ <<>> \in Seq(TaskSet)
<1>1. <<>> \in Seq(TaskSet) /\ DOMAIN <<>> = {}
  OBVIOUS
<1> QED BY <1>1 DEF Tidy, OnceID, IDs, NoCycle

\* A new workflow has no tasks.
LEMMA InitOK == Init => IInv
<1> SUFFICES ASSUME Init PROVE IInv
  OBVIOUS
<1>1. tasks = <<>> /\ draft = <<>> /\ plans = 0
  BY DEF Init
<1>2. plans \in 0..MaxPlans
  BY <1>1, TaskDepsAssumption
<1>3. Tidy(<<>>, Known(plans))
  BY EmptyList DEF Tidy
<1> QED BY <1>1, <1>2, <1>3, EmptyList DEF IInv, TasksOK, DraftOK

\* The tasks of an answer have new IDs and refer by text alone.
LEMMA AnswerOK ==
  ASSUME IInv, Answer
  PROVE  IInv'
<1>1. /\ plans \in Nat /\ plans \in 0..MaxPlans /\ plans < MaxPlans
      /\ tasks' = tasks /\ plans' = plans /\ ListLen \in Nat
  BY TaskDepsAssumption DEF IInv, Answer
<1>2. PICK list \in Drafts : draft' = WithIDs(list)
  BY DEF Answer
<1>3. PICK n \in Nat, m \in Nat :
         n <= ListLen /\ list \in [1..n -> [title : Titles, dependsOn : Deps(m)]]
  <2>1. PICK m : m = IF plans = 0 THEN DepsLen ELSE RemedyDepsLen
    OBVIOUS
  <2>2. m \in Nat
    BY <2>1, TaskDepsAssumption
  <2>3. \E n \in Nat : n <= ListLen /\ list \in [1..n -> [title : Titles, dependsOn : Deps(m)]]
    BY <2>1, TaskDepsAssumption DEF Drafts
  <2> QED BY <2>2, <2>3
<1>4. PICK b \in Nat : b = plans * ListLen
  BY <1>1
<1>5. /\ DOMAIN draft' = 1..n
      /\ \A i \in 1..n : draft'[i] = [id |-> b + i, title |-> list[i].title,
                                      dependsOn |-> list[i].dependsOn]
  BY <1>2, <1>3, <1>4 DEF WithIDs
<1>6. Deps(m) \subseteq Seq(Refs)
  <2>1. SUFFICES ASSUME NEW l \in 0..m, NEW f \in Injection(1..l, Mentions)
                 PROVE  [i \in DOMAIN f |-> ByText(f[i])] \in Seq(Refs)
    BY DEF Deps
  <2>2. f \in [1..l -> Mentions] /\ l \in Nat
    BY DEF Injection, IsInjective
  <2>3. \A i \in 1..l : ByText(f[i]) \in Refs
    BY <2>2 DEF ByText, Refs, NoID
  <2> QED BY <2>2, <2>3
<1>7. \A i \in 1..n : draft'[i] \in TaskSet
  <2>1. ASSUME NEW i \in 1..n PROVE draft'[i] \in TaskSet
    <3>1. list[i].title \in Titles /\ list[i].dependsOn \in Seq(Refs) /\ b + i \in Nat \ {NoID}
      BY <1>3, <1>6 DEF NoID
    <3> QED BY <1>5, <3>1 DEF TaskSet
  <2> QED BY <2>1
<1>8. draft' \in Seq(TaskSet)
  <2>1. draft' = [i \in 1..n |-> draft'[i]]
    BY <1>2, <1>3, <1>5 DEF WithIDs
  <2> QED BY <1>7, <2>1
<1>9. OnceID(draft)'
  BY <1>5 DEF OnceID
<1>10. IDs(draft)' \subseteq Coming(plans)'
  <2>1. \A i \in 1..n : b + i \in (b + 1)..(b + ListLen)
    BY <1>1, <1>3
  <2> QED BY <1>1, <1>4, <1>5, <2>1 DEF IDs, Coming
<1>11. TasksOK'
  BY <1>1 DEF TasksOK, IInv
<1> QED BY <1>1, <1>8, <1>9, <1>10, <1>11 DEF IInv, DraftOK

\* What is left of an answer refers to itself alone, and so does the rest.
LEMMA AppendOK ==
  ASSUME IInv, AppendTasks
  PROVE  IInv'
<1>1. /\ plans \in Nat /\ plans < MaxPlans /\ plans + 1 \in 0..MaxPlans
      /\ draft' = <<>> /\ plans' = plans + 1
  BY TaskDepsAssumption DEF IInv, AppendTasks
<1>2. PICK clean : clean = ResolveAndSanitizeTaskDependencies(draft)
  OBVIOUS
<1>3. PICK K \in SUBSET DOMAIN clean : tasks' = tasks \o Picked(clean, K)
  <2>1. PICK kept \in SUBSET IDs(draft) :
           tasks' = tasks \o Picked(clean, {i \in DOMAIN clean : clean[i].id \in kept})
    BY <1>2 DEF AppendTasks
  <2> QED BY <2>1
<1>4. NoCycle(clean) /\ Clean(clean) /\ IDs(clean) = IDs(draft)
  BY <1>2, Sanitized DEF IInv, DraftOK
<1>5. PICK part : part = Picked(clean, K)
  OBVIOUS
<1>6. Tidy(part, IDs(clean)) /\ IDs(part) \subseteq IDs(clean) /\ NoCycle(part)
  BY <1>4, <1>5, PartOfList
<1>7. IDs(clean) \subseteq Coming(plans)
  BY <1>4 DEF IInv, DraftOK
<1>8. Tidy(part, Coming(plans)) /\ IDs(part) \subseteq Coming(plans)
  BY <1>6, <1>7, RefersToMore DEF Tidy
<1>9. Known(plans) \cap Coming(plans) = {} /\ Known(plans) \cup Coming(plans) = Known(plans')
  BY <1>1, Numbered
<1>10. Tidy(tasks, Known(plans)) /\ IDs(tasks) \subseteq Known(plans) /\ NoCycle(tasks)
  BY DEF IInv, TasksOK
<1>11. PICK all : all = tasks \o part
  OBVIOUS
<1>12. /\ Tidy(all, Known(plans) \cup Coming(plans))
       /\ IDs(all) \subseteq Known(plans) \cup Coming(plans) /\ NoCycle(all)
  BY <1>6, <1>8, <1>9, <1>10, <1>11, AppendedTasks
<1>13. TasksOK'
  BY <1>3, <1>5, <1>9, <1>11, <1>12 DEF TasksOK
<1>14. DraftOK'
  BY <1>1, EmptyList DEF DraftOK
<1> QED BY <1>1, <1>13, <1>14 DEF IInv

\* The second pass over tasks the first has left.
LEMMA SanitizeOK ==
  ASSUME IInv, sanitizePodTaskGraph
  PROVE  IInv'
<1>1. draft' = draft /\ plans' = plans /\ plans \in Nat
  BY TaskDepsAssumption DEF IInv, sanitizePodTaskGraph
<1>2. PICK new : new = ResolveAndSanitizeTaskDependencies(tasks) /\ tasks' = new
  BY DEF sanitizePodTaskGraph
<1>3. tasks \in Seq(TaskSet) /\ OnceID(tasks) /\ IDs(tasks) \subseteq Known(plans)
  BY DEF IInv, TasksOK, Tidy
<1>4. NoCycle(new) /\ Clean(new) /\ IDs(new) = IDs(tasks)
  BY <1>2, <1>3, Sanitized
<1>5. Tidy(new, Known(plans))
  BY <1>3, <1>4, RefersToMore DEF Clean, Tidy
<1>6. TasksOK'
  BY <1>1, <1>2, <1>3, <1>4, <1>5 DEF TasksOK
<1> QED BY <1>1, <1>6 DEF IInv, DraftOK

\* After any number of Architect outputs: the tasks refer by ID alone, once each,
\* to other tasks of the workflow, without a cycle, and no two have one ID.
THEOREM IndInvariant == Spec => []IInv
<1>1. IInv /\ [Next]_vars => IInv'
  <2> SUFFICES ASSUME IInv, [Next]_vars PROVE IInv'
    OBVIOUS
  <2>1. CASE UNCHANGED vars
    BY <2>1 DEF vars, IInv, TasksOK, DraftOK
  <2> QED BY <2>1, AnswerOK, AppendOK, SanitizeOK DEF Next
<1> QED BY <1>1, InitOK, PTL DEF Spec

\* No two tasks of ws.Tasks share an ID and no dependency is left unresolved.
THEOREM TypeCorrect == Spec => []TypeOK
<1>1. IInv => TypeOK
  <2> SUFFICES ASSUME IInv PROVE TypeOK
    OBVIOUS
  <2>1. /\ plans \in 0..MaxPlans /\ plans \in Nat /\ OnceID(tasks)
        /\ \A i \in DOMAIN tasks : RefersTo(tasks[i], Known(plans))
    BY TaskDepsAssumption DEF IInv, TasksOK, Tidy
  <2>2. ASSUME NEW i \in DOMAIN tasks PROVE NoID \notin DepIDs(tasks, i)
    <3>1. NoID \notin Known(plans)
      BY <2>1, Numbered
    <3>2. \A k \in DOMAIN tasks[i].dependsOn : tasks[i].dependsOn[k].id \in Known(plans)
      BY <2>1 DEF RefersTo
    <3> QED BY <3>1, <3>2 DEF DepIDs
  <2> QED BY <2>1, <2>2 DEF TypeOK, OnceID
<1> QED BY <1>1, IndInvariant, PTL

\* For any titles, references and sizes of the outputs: the depends_on graph of
\* the workflow's tasks never has a cycle, so no set of tasks waits for itself.
THEOREM NeverCyclic == Spec => []Acyclic
<1>1. IInv => Acyclic
  BY DEF IInv, TasksOK, NoCycle, Acyclic
<1> QED BY <1>1, IndInvariant, PTL

\* For any answer: sanitizing it drops a dependency that was resolved only where
\* the dependency lies on a circle of the answer.
THEOREM OnlyCyclesDropped == Spec => []OnlyCyclesBroken
<1>1. IInv => OnlyCyclesBroken
  <2> SUFFICES ASSUME IInv PROVE OnlyCyclesBroken
    OBVIOUS
  <2>1. draft \in Seq(TaskSet) /\ OnceID(draft)
    BY DEF IInv, DraftOK
  <2>2. Broken(Resolved(draft), ResolveAndSanitizeTaskDependencies(draft))
    BY <2>1, Sanitized
  <2>3. DOMAIN Resolved(draft) = DOMAIN draft
    BY DEF Resolved
  <2> QED BY <2>2, <2>3 DEF Broken, OnlyCyclesBroken
<1> QED BY <1>1, IndInvariant, PTL

\* Resolving tasks that were resolved before then adds no edge.
LEMMA ResolvedLess ==
  ASSUME NEW list, NEW ids \in SUBSET (Nat \ {NoID}), Tidy(list, ids), NoCycle(list),
         \A i \in DOMAIN list : NoAccident(list, list[i])
  PROVE  /\ NoCycle(Resolved(list))
         /\ \A i \in DOMAIN list : Resolved(list)[i].dependsOn
              = Picked(list[i].dependsOn,
                       {k \in DOMAIN list[i].dependsOn : list[i].dependsOn[k].id \in IDs(list)})
<1>1. list \in Seq(TaskSet) /\ \A i \in DOMAIN list : list[i] \in TaskSet /\ RefersTo(list[i], ids)
  BY DEF Tidy
<1>2. PICK new : new = Resolved(list)
  OBVIOUS
<1>3. /\ DOMAIN new = DOMAIN list
      /\ \A i \in DOMAIN list : new[i].id = list[i].id /\ new[i].dependsOn = ResolvedDeps(list, list[i])
  BY <1>1, <1>2 DEF Resolved, TaskSet
<1>4. ASSUME NEW i \in DOMAIN list
      PROVE  new[i].dependsOn
               = Picked(list[i].dependsOn,
                        {k \in DOMAIN list[i].dependsOn : list[i].dependsOn[k].id \in IDs(list)})
  BY <1>1, <1>3, ResolvedAgain
<1>5. ASSUME NEW i \in DOMAIN list PROVE DepIDs(new, i) \subseteq DepIDs(list, i)
  <2> DEFINE K == {k \in DOMAIN list[i].dependsOn : list[i].dependsOn[k].id \in IDs(list)}
  <2>1. K \in SUBSET DOMAIN list[i].dependsOn /\ list[i].dependsOn \in Seq(Refs)
    BY <1>1 DEF TaskSet
  <2>2. new[i].dependsOn = Picked(list[i].dependsOn, K)
    BY <1>4
  <2> HIDE DEF K
  <2>3. PICK c, pos : /\ Places(K, c, pos)
                      /\ Picked(list[i].dependsOn, K) = TakenAt(list[i].dependsOn, c, pos)
    BY <2>1, PickedEntries
  <2>4. \A m \in DOMAIN new[i].dependsOn :
           /\ pos[m] \in DOMAIN list[i].dependsOn
           /\ new[i].dependsOn[m] = list[i].dependsOn[pos[m]]
    BY <2>1, <2>2, <2>3 DEF TakenAt, Places
  <2> QED BY <2>4 DEF DepIDs
<1>6. \A i, k \in DOMAIN list : Edge(new, i, k) => Edge(list, i, k)
  BY <1>3, <1>5 DEF Edge
<1>7. NoCycle(new)
  BY <1>3, <1>6 DEF NoCycle
<1> QED BY <1>2, <1>4, <1>7

\* An edge that resolving adds comes from a reference to a task outside the list.
LEMMA ResolvedMore ==
  ASSUME NEW list, NEW ids, Tidy(list, ids), NEW i \in DOMAIN list, NEW k \in DOMAIN list,
         Edge(Resolved(list), i, k), ~Edge(list, i, k)
  PROVE  \E m \in DOMAIN list[i].dependsOn :
           LET ref == list[i].dependsOn[m]
           IN Accident(list, ref) /\ list[k].id \in Target(list, ref)
<1>0. list \in Seq(TaskSet) /\ \A j \in DOMAIN list : list[j] \in TaskSet
  BY DEF Tidy
<1>1. list[i] \in TaskSet /\ list[k] \in TaskSet /\ list[k].id \in IDs(list)
  BY <1>0 DEF IDs
<1>2. IDs(list) \subseteq Nat
  BY <1>0 DEF IDs, TaskSet
<1>3. Resolved(list)[i].dependsOn = ResolvedDeps(list, list[i]) /\ Resolved(list)[k].id = list[k].id
  BY <1>1 DEF Resolved, TaskSet
<1>4. PICK n \in DOMAIN ResolvedDeps(list, list[i]) : ResolvedDeps(list, list[i])[n].id = list[k].id
  BY <1>3 DEF Edge, DepIDs
<1>5. PICK m \in DOMAIN list[i].dependsOn : list[k].id \in Target(list, list[i].dependsOn[m])
  BY <1>1, <1>2, <1>4, ResolvedDepsNamed
<1>6. list[i].dependsOn[m].id \notin IDs(list)
  <2>1. list[i].dependsOn[m].id # list[k].id
    BY DEF Edge, DepIDs
  <2> QED BY <1>5, <2>1 DEF Target
<1> QED BY <1>5, <1>6 DEF Accident

\* For any tasks the parser has sanitized, any that were left out between, and any
\* texts of the IDs: the pass runPodPhase makes over them connects tasks only where
\* a title lies in the ID of a task that was left out, and where none does it drops
\* the references to those tasks and no other.
THEOREM SecondPassKeeps == Spec => SecondPassKeepsGraph
<1> DEFINE Kept ==
             /\ \A i, k \in DOMAIN tasks :
                  Edge(tasks', i, k) /\ ~Edge(tasks, i, k) =>
                    \E m \in DOMAIN tasks[i].dependsOn :
                      LET ref == tasks[i].dependsOn[m]
                      IN Accident(tasks, ref) /\ tasks[k].id \in Target(tasks, ref)
             /\ (\A i \in DOMAIN tasks : \A m \in DOMAIN tasks[i].dependsOn :
                   ~Accident(tasks, tasks[i].dependsOn[m])) =>
                  \A i \in DOMAIN tasks :
                    LET deps == tasks[i].dependsOn
                    IN tasks'[i].dependsOn
                         = Picked(deps, {k \in DOMAIN deps : deps[k].id \in IDs(tasks)})
<1>1. ASSUME IInv, sanitizePodTaskGraph PROVE Kept
  <2>1. Tidy(tasks, Known(plans)) /\ NoCycle(tasks) /\ plans \in Nat
    BY <1>1, TaskDepsAssumption DEF IInv, TasksOK
  <2>2. Known(plans) \in SUBSET (Nat \ {NoID})
    BY <2>1, Numbered
  <2>3. tasks \in Seq(TaskSet) /\ OnceID(tasks)
    BY <2>1 DEF Tidy
  <2>4. Broken(Resolved(tasks), tasks')
    BY <1>1, <2>3, Sanitized DEF sanitizePodTaskGraph
  <2>5. ASSUME NEW i \in DOMAIN tasks, NEW k \in DOMAIN tasks, Edge(tasks', i, k), ~Edge(tasks, i, k)
        PROVE  \E m \in DOMAIN tasks[i].dependsOn :
                 LET ref == tasks[i].dependsOn[m]
                 IN Accident(tasks, ref) /\ tasks[k].id \in Target(tasks, ref)
    <3>1. Edge(Resolved(tasks), i, k)
      <4>1. DOMAIN Resolved(tasks) = DOMAIN tasks
        BY DEF Resolved
      <4> QED BY <2>4, <2>5, <4>1 DEF Broken
    <3> QED BY <2>1, <2>5, <3>1, ResolvedMore
  <2>6. ASSUME \A i \in DOMAIN tasks : NoAccident(tasks, tasks[i])
        PROVE  \A i \in DOMAIN tasks :
                 LET deps == tasks[i].dependsOn
                 IN tasks'[i].dependsOn = Picked(deps, {k \in DOMAIN deps : deps[k].id \in IDs(tasks)})
    <3>1. /\ NoCycle(Resolved(tasks))
          /\ \A i \in DOMAIN tasks : Resolved(tasks)[i].dependsOn
               = Picked(tasks[i].dependsOn,
                        {k \in DOMAIN tasks[i].dependsOn : tasks[i].dependsOn[k].id \in IDs(tasks)})
      BY <2>1, <2>2, <2>6, ResolvedLess
    <3>2. tasks' = Resolved(tasks)
      BY <2>4, <3>1 DEF Broken
    <3> QED BY <3>1, <3>2
  <2> QED BY <2>5, <2>6 DEF NoAccident
<1>2. IInv /\ [Next]_vars => [draft' = draft => Kept]_vars
  <2>1. ASSUME Answer PROVE draft' # draft
    <3>1. draft = <<>> /\ \E list \in Drafts : draft' = WithIDs(list)
      BY <2>1 DEF Answer
    <3>2. PICK list \in Drafts : draft' = WithIDs(list)
      BY <3>1
    <3>3. \E n \in Nat \ {0} : DOMAIN list = 1..n
      BY TaskDepsAssumption DEF Drafts
    <3>4. DOMAIN draft' = DOMAIN list
      BY <3>2 DEF WithIDs
    <3>5. 1 \in DOMAIN draft'
      BY <3>3, <3>4
    <3> QED BY <3>1, <3>5
  <2>2. ASSUME AppendTasks PROVE draft' # draft
    BY <2>2 DEF AppendTasks
  <2> QED BY <1>1, <2>1, <2>2 DEF Next
<1> QED BY <1>2, IndInvariant, PTL DEF Spec, SecondPassKeepsGraph
=============================================================================
