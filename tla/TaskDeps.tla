------------------------------ MODULE TaskDeps ------------------------------
(***************************************************************************)
(* internal/state/task_deps.go: how the depends_on entries the Architect     *)
(* writes, which are titles of tasks, become an acyclic graph of task IDs.   *)
(* The Architect's parser sanitizes its own list; the engine appends what is *)
(* left of it to the workflow's tasks; runPodPhase sanitizes the whole.      *)
(*                                                                          *)
(* A title is a short sequence of letters, as only equality, containment and *)
(* length of normalized titles matter; the empty title stands for no title.  *)
(***************************************************************************)
EXTENDS Integers, FiniteSets, SequencesExt

CONSTANTS
  Titles,        (* titles of tasks                                        *)
  Mentions,      (* what depends_on may say: titles, right or wrong        *)
  ListLen,       (* bound: tasks of the first Architect output             *)
  RemedyLen,     (* bound: tasks of a later one                            *)
  DepsLen,       (* bound: depends_on entries of a task of the first       *)
  RemedyDepsLen, (* bound: depends_on entries of a task of a later one     *)
  MaxPlans,      (* bound: Architect outputs                               *)
  IDText         (* IDText[n]: task ID n as a text; uuid.New's letters and *)
                 (* digits are arbitrary, and a title may occur in them    *)

ASSUME TaskDepsAssumption ==
  /\ Mentions # {}
  /\ ListLen \in Nat
  /\ RemedyLen \in 0..ListLen
  /\ DepsLen \in Nat
  /\ RemedyDepsLen \in Nat
  /\ MaxPlans \in Nat

VARIABLES
  tasks,         (* ws.Tasks: a sequence of [id, title, dependsOn]         *)
  draft,         (* an Architect output as it came, not yet sanitized      *)
  plans          (* number of Architect outputs                            *)

vars == <<tasks, draft, plans>>

(* A reference is an ID or a text; the other field is empty.                 *)
NoID == 0
ByID(n) == [id |-> n, text |-> <<>>]
ByText(t) == [id |-> NoID, text |-> t]

IDs(list) == {list[i].id : i \in DOMAIN list}

\* The entries of s at the positions in K, in their order.
Picked(s, K) ==
  [n \in 1..Cardinality(K) |-> s[CHOOSE k \in K : Cardinality({j \in K : j < k}) = n - 1]]

-----------------------------------------------------------------------------
(* Resolution of one reference.                                              *)
HasText(hay, needle) ==
  \E i \in 0..(Len(hay) - Len(needle)) : SubSeq(hay, i + 1, i + Len(needle)) = needle

Score(hay, needle) ==
  CASE hay = <<>> -> 0
    [] hay = needle -> 100
    [] HasText(hay, needle) -> 80 + Len(needle)
    [] HasText(needle, hay) -> 60 + Len(hay)
    [] OTHER -> 0

\* fuzzyTitleMatch: the first task with the best score, if that is 60 or more.
fuzzyTitleMatch(list, needle) ==
  LET best == {i \in DOMAIN list :
                 /\ Score(list[i].title, needle) >= 60
                 /\ \A k \in DOMAIN list :
                      \/ Score(list[k].title, needle) < Score(list[i].title, needle)
                      \/ Score(list[k].title, needle) = Score(list[i].title, needle) /\ i <= k}
  IN {list[i].id : i \in best}

\* titleToID: of two tasks with one title the later.
exactTitleMatch(list, text) ==
  {list[i].id : i \in {k \in DOMAIN list :
                         /\ list[k].title = text
                         /\ \A m \in DOMAIN list : list[m].title = text => m <= k}}

ByTitle(list, text) ==
  IF text = <<>> THEN {}
  ELSE IF exactTitleMatch(list, text) # {} THEN exactTitleMatch(list, text)
  ELSE fuzzyTitleMatch(list, text)

RefText(ref) == IF ref.id = NoID THEN ref.text ELSE IDText[ref.id]

\* Mutant of Target: references that are IDs already are taken for titles.
TargetByText(list, ref) == ByTitle(list, RefText(ref))

\* The task a reference names, as a set of at most one ID.  The ID of a task that
\* is not in the list is looked for in the titles like any other text.
Target(list, ref) ==
  IF ref.id \in IDs(list) THEN {ref.id} ELSE ByTitle(list, RefText(ref))

\* dedupeStrings: of equal entries the first is kept.
dedupe(s) ==
  IF s = <<>> THEN s
  ELSE Picked(s, {k \in DOMAIN s : \A j \in 1..(k - 1) : s[j] # s[k]})

\* What the entries of a task become: references to the tasks they name, without
\* what names none and without the task itself.
ResolvedDeps(list, t) ==
  LET named == [k \in DOMAIN t.dependsOn |->
                 {ByID(n) : n \in Target(list, t.dependsOn[k]) \ {t.id}}]
      resolved == Picked(named, {k \in DOMAIN named : named[k] # {}})
  IN dedupe([k \in DOMAIN resolved |-> CHOOSE ref \in resolved[k] : TRUE])

Resolved(list) ==
  [i \in DOMAIN list |-> [list[i] EXCEPT !.dependsOn = ResolvedDeps(list, list[i])]]

-----------------------------------------------------------------------------
(* firstDependencyCycle: a depth-first search with an explicit stack.  A      *)
(* state of the search has the colours, the stack of indices, the next       *)
(* dependency to look at for each index, and the cycle once one is found.    *)
IndexOf(list, id) == CHOOSE i \in DOMAIN list : list[i].id = id

SearchStart(list) ==
  [color |-> [i \in DOMAIN list |-> "white"], stack |-> <<>>,
   next |-> [i \in DOMAIN list |-> 1], cycle |-> <<>>]

Push(s, i) == [s EXCEPT !.color[i] = "gray", !.stack = Append(@, i)]

SearchStep(list, s) ==
  LET white == {i \in DOMAIN list : s.color[i] = "white"}
      top == Last(s.stack)
      deps == list[top].dependsOn
      dep == IndexOf(list, deps[s.next[top]].id)
      advanced == [s EXCEPT !.next[top] = @ + 1]
      start == CHOOSE k \in DOMAIN s.stack : s.stack[k] = dep
  IN IF s.stack = <<>> THEN Push(s, CHOOSE i \in white : \A k \in white : i <= k)
     ELSE IF s.next[top] > Len(deps) THEN
       [s EXCEPT !.color[top] = "black", !.stack = Front(@)]
     ELSE IF s.color[dep] = "white" THEN Push(advanced, dep)
     ELSE IF s.color[dep] = "gray" THEN
       [advanced EXCEPT !.cycle = Append(SubSeq(s.stack, start, Len(s.stack)), dep)]
     ELSE advanced

\* Mutant of SearchOver: only what the first task reaches is searched.
SearchedFirst(list, s) == s.cycle # <<>> \/ (s.stack = <<>> /\ s.color[1] # "white")

SearchOver(list, s) ==
  s.cycle # <<>> \/ (s.stack = <<>> /\ \A i \in DOMAIN list : s.color[i] # "white")

SearchOn(list, s) == IF SearchOver(list, s) THEN s ELSE SearchStep(list, s)

\* A task is entered, its dependencies are looked at, it is left: the search
\* has no more steps than these.
Moves(list) == UNION {{i} \X (0..(Len(list[i].dependsOn) + 1)) : i \in DOMAIN list}

firstDependencyCycle(list) ==
  LET moves == Cardinality(Moves(list))
      search[n \in 0..moves] ==
        IF n = 0 THEN SearchStart(list) ELSE SearchOn(list, search[n - 1])
  IN search[moves].cycle

\* Mutant of DropEdge: the dependency is dropped from every task.
DropEverywhere(list, i, id) ==
  [k \in DOMAIN list |->
    [list[k] EXCEPT !.dependsOn = Picked(@, {m \in DOMAIN @ : @[m] # ByID(id)})]]

DropEdge(list, i, id) ==
  [k \in DOMAIN list |->
    IF k # i THEN list[k]
    ELSE [list[k] EXCEPT !.dependsOn = Picked(@, {m \in DOMAIN @ : @[m] # ByID(id)})]]

\* Drop the first edge of the first cycle until there is none; no graph has more
\* edges than pairs of tasks.
BreakFirst(list) ==
  LET cycle == firstDependencyCycle(list)
  IN IF cycle = <<>> THEN list ELSE DropEdge(list, cycle[1], list[cycle[2]].id)

breakDependencyCycles(list) ==
  IF list = <<>> THEN list ELSE
  LET edges == Len(list) * Len(list)
      after[n \in 0..edges] == IF n = 0 THEN list ELSE BreakFirst(after[n - 1])
      done == CHOOSE n \in 0..edges : firstDependencyCycle(after[n]) = <<>>
  IN after[done]

ResolveAndSanitizeTaskDependencies(list) == breakDependencyCycles(Resolved(list))

-----------------------------------------------------------------------------
(* depends_on lists; two different mentions may still name one task.          *)
Deps(most) ==
  {[i \in DOMAIN f |-> ByText(f[i])] :
     f \in UNION {Injection(1..n, Mentions) : n \in 0..most}}

\* What the Architect may answer: titles and references; IDs are new.
Drafts ==
  LET deps == Deps(IF plans = 0 THEN DepsLen ELSE RemedyDepsLen)
  IN UNION {[1..n -> [title : Titles, dependsOn : deps]] :
              n \in 1..(IF plans = 0 THEN ListLen ELSE RemedyLen)}

WithIDs(list) ==
  [i \in DOMAIN list |->
    [id |-> plans * ListLen + i, title |-> list[i].title, dependsOn |-> list[i].dependsOn]]

Init ==
  /\ tasks = <<>>
  /\ draft = <<>>
  /\ plans = 0

\* The model's answer arrives; its tasks get new IDs ...
Answer ==
  /\ draft = <<>>
  /\ plans < MaxPlans
  /\ \E list \in Drafts : draft' = WithIDs(list)
  /\ UNCHANGED <<tasks, plans>>

\* ... is sanitized and appended to the workflow's tasks.  A remediation leaves
\* out tasks for another persona and titles it has seen.
AppendTasks ==
  /\ draft # <<>>
  /\ \E kept \in SUBSET IDs(draft) :
       /\ plans = 0 => kept = IDs(draft)
       /\ LET clean == ResolveAndSanitizeTaskDependencies(draft)
          IN tasks' = tasks \o Picked(clean, {i \in DOMAIN clean : clean[i].id \in kept})
  /\ draft' = <<>>
  /\ plans' = plans + 1

\* runPodPhase.
sanitizePodTaskGraph ==
  /\ tasks # <<>>
  /\ draft = <<>>
  /\ tasks' = ResolveAndSanitizeTaskDependencies(tasks)
  /\ UNCHANGED <<draft, plans>>

Next == Answer \/ AppendTasks \/ sanitizePodTaskGraph

Spec == Init /\ [][Next]_vars

-----------------------------------------------------------------------------
(* The properties, in terms of the graph alone.                              *)
DepIDs(list, i) == {list[i].dependsOn[k].id : k \in DOMAIN list[i].dependsOn}
Edge(list, i, k) == list[k].id \in DepIDs(list, i)

TypeOK ==
  /\ plans \in 0..MaxPlans
  /\ \A i, k \in DOMAIN tasks : tasks[i].id = tasks[k].id => i = k
  /\ \A i \in DOMAIN tasks : NoID \notin DepIDs(tasks, i)

\* The dependencies never form a cycle, so no task waits for itself: any set of
\* tasks has one that waits for none of the others.
Acyclic ==
  \A S \in SUBSET DOMAIN tasks : S # {} =>
    \E i \in S : \A k \in S : ~Edge(tasks, i, k)

\* k is reached from i: it is in every set of tasks that contains i and the
\* dependencies of its members.
Reaches(list, i, k) ==
  \A S \in SUBSET DOMAIN list :
    (i \in S /\ \A m \in S, n \in DOMAIN list : Edge(list, m, n) => n \in S) => k \in S

\* Sanitizing an Architect's answer drops a dependency it could resolve only
\* where the answer had a circle through it.
OnlyCyclesBroken ==
  LET before == Resolved(draft)
      after == ResolveAndSanitizeTaskDependencies(draft)
  IN \A i, k \in DOMAIN draft :
     Edge(before, i, k) /\ ~Edge(after, i, k) => Reaches(before, k, i)

\* A reference to a task that was left out names another one all the same: one
\* whose title the text of the ID contains.
Accident(list, ref) == ref.id \notin IDs(list) /\ Target(list, ref) # {}

\* The pass runPodPhase makes over the tasks the Architect's parser has sanitized
\* already never reconnects or reorders older work.  A reference to a task that
\* was left out is dropped, and unless an ID contains a title by accident that is
\* all; an accident connects nothing but the task with that reference to the task
\* with that title.
SecondPassKeepsGraph ==
  [][draft' = draft =>
       /\ \A i, k \in DOMAIN tasks :
            Edge(tasks', i, k) /\ ~Edge(tasks, i, k) =>
              \E m \in DOMAIN tasks[i].dependsOn :
                LET ref == tasks[i].dependsOn[m]
                IN Accident(tasks, ref) /\ tasks[k].id \in Target(tasks, ref)
       /\ (\A i \in DOMAIN tasks : \A m \in DOMAIN tasks[i].dependsOn :
             ~Accident(tasks, tasks[i].dependsOn[m])) =>
            \A i \in DOMAIN tasks :
              LET deps == tasks[i].dependsOn
              IN tasks'[i].dependsOn = Picked(deps, {k \in DOMAIN deps : deps[k].id \in IDs(tasks)})]_vars
=============================================================================
