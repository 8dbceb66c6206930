--------------------------- MODULE ScenarioProofs ---------------------------
(***************************************************************************)
(* Theorems about the scenarios of a run: ScenarioPlanner and              *)
(* ScenarioOrchestrator, for every answer of the provider, every memory    *)
(* and every limit; ReactiveRunner, for every scenario, every budget and   *)
(* every answer of the page and the LLM.                                   *)
(***************************************************************************)
EXTENDS ReactiveRunner, ScenarioOrchestrator, PlansTheorems

----------------------------------------------------------------------------
(* Scenarios as sorted: map.get, what a task needs, and the walk of visit. *)

\* slice(0, n).
LEMMA FirstOnes ==
  ASSUME NEW E, NEW s \in Seq(E), NEW n \in Nat
  PROVE  /\ FirstOf(s, n) \in Seq(E)
         /\ Len(FirstOf(s, n)) = IF Len(s) < n THEN Len(s) ELSE n
         /\ \A i \in 1 .. Len(FirstOf(s, n)) : FirstOf(s, n)[i] = s[i]
<1>1. PICK m \in Nat : m = IF Len(s) < n THEN Len(s) ELSE n
  OBVIOUS
<1>2. FirstOf(s, n) = SubSeq(s, 1, m) /\ m <= Len(s)
  BY <1>1 DEF FirstOf
<1>3. \A i \in 1 .. m : s[i] \in E
  BY <1>2
<1>4. /\ SubSeq(s, 1, m) \in Seq(E)
      /\ Len(SubSeq(s, 1, m)) = IF 1 <= m THEN m - 1 + 1 ELSE 0
      /\ \A i \in 1 .. m - 1 + 1 : SubSeq(s, 1, m)[i] = s[1 + i - 1]
  BY <1>2, <1>3, SubSeqProperties
<1>5. Len(SubSeq(s, 1, m)) = m
  BY <1>4
<1>6. \A i \in 1 .. m : SubSeq(s, 1, m)[i] = s[i]
  BY <1>4
<1> QED BY <1>1, <1>2, <1>4, <1>5, <1>6

\* map.get finds a task with that id.
LEMMA NamedIsThere ==
  ASSUME NEW tasks \in Seq(Task), NEW x \in Ids(tasks)
  PROVE  /\ Named(tasks, x) \in Task
         /\ Named(tasks, x).id = x
         /\ \E i \in DOMAIN tasks : Named(tasks, x) = tasks[i]
<1> DEFINE T == {i \in DOMAIN tasks : tasks[i].id = x}
<1>1. DOMAIN tasks = 1 .. Len(tasks) /\ Len(tasks) \in Nat /\ \A i \in DOMAIN tasks : tasks[i] \in Task
  OBVIOUS
<1>2. T \in SUBSET Nat /\ T # {} /\ T \in SUBSET (1 .. Len(tasks))
  BY <1>1 DEF Ids
<1>3. IsFiniteSet(T)
  <2>1. IsFiniteSet(1 .. Len(tasks))
    BY <1>1, FS_Interval
  <2> HIDE DEF T
  <2> QED BY <1>2, <2>1, FS_Subset
<1>4. Max(T) \in T
  <2> HIDE DEF T
  <2> QED BY <1>2, <1>3, LargestIsThere
<1>5. PICK i \in DOMAIN tasks : i = Max(T) /\ tasks[i].id = x
  BY <1>4
<1>6. Named(tasks, x) = tasks[i]
  BY <1>5 DEF Named
<1> QED BY <1>1, <1>5, <1>6

\* The ids a task depends on.
DepsOf(tasks, x) == ToSet(Named(tasks, x).deps)

\* A sequence of tasks that depend on none but its own.
Closed(tasks) == \A x \in Ids(tasks) : DepsOf(tasks, x) \subseteq Ids(tasks)

LEMMA DependedOnIsNeeded ==
  ASSUME NEW tasks \in Seq(Task), NEW x \in Ids(tasks), NEW y \in DepsOf(tasks, x) \cap Ids(tasks)
  PROVE  Needs(tasks, x, y)
BY DEF Needs, DepsOf

LEMMA NeedsTransitive ==
  ASSUME NEW tasks \in Seq(Task), NEW x, NEW y, NEW z, Needs(tasks, x, y), Needs(tasks, y, z)
  PROVE  Needs(tasks, x, z)
<1> SUFFICES ASSUME NEW C \in SUBSET Ids(tasks),
                    \A id \in C \cup {x} : ToSet(Named(tasks, id).deps) \cap Ids(tasks) \subseteq C
             PROVE  z \in C
  BY DEF Needs
<1>1. y \in C
  BY DEF Needs
<1>2. \A id \in C \cup {y} : ToSet(Named(tasks, id).deps) \cap Ids(tasks) \subseteq C
  BY <1>1
<1> QED BY <1>2 DEF Needs

\* The walk: its parts have their types, ...
WalkTypes(tasks, walk) ==
  /\ walk.todo \in Seq([id : Ids(tasks), does : {"enter", "leave"}])
  /\ walk.stack \in SUBSET Ids(tasks)
  /\ walk.result \in Seq(Task)
  /\ \A i \in 1 .. Len(walk.result) : /\ walk.result[i].id \in Ids(tasks)
                                      /\ walk.result[i] = Named(tasks, walk.result[i].id)

\* ... each id is emitted once, ...
WalkOnce(walk) ==
  \A i, j \in 1 .. Len(walk.result) : walk.result[i].id = walk.result[j].id => i = j

\* ... those on the stack are those still to leave, ...
WalkStack(walk) ==
  /\ \A b \in 1 .. Len(walk.todo) : walk.todo[b].does = "leave" =>
       walk.todo[b].id \in walk.stack /\ walk.todo[b].id \notin Ids(walk.result)
  /\ \A x \in walk.stack : \E b \in 1 .. Len(walk.todo) : walk.todo[b] = Leave(x)
  /\ \A a, b \in 1 .. Len(walk.todo) :
       walk.todo[a].does = "leave" /\ walk.todo[b].does = "leave" /\ walk.todo[a].id = walk.todo[b].id => a = b

\* ... no id is forgotten, ...
WalkAll(tasks, walk) ==
  \A x \in Ids(tasks) : x \in Ids(walk.result) \/ \E a \in 1 .. Len(walk.todo) : walk.todo[a].id = x

\* ... what comes before the end of a visit is needed by it, ...
WalkPath(tasks, walk) ==
  \A a, b \in 1 .. Len(walk.todo) :
    a < b /\ walk.todo[b].does = "leave" => Needs(tasks, walk.todo[b].id, walk.todo[a].id)

\* ... the dependencies of one that is left are emitted before, or need it, ...
WalkDeps(tasks, walk) ==
  \A b \in 1 .. Len(walk.todo) : walk.todo[b].does = "leave" =>
    \A d \in DepsOf(tasks, walk.todo[b].id) :
      \/ d \in Ids(walk.result)
      \/ \E a \in 1 .. Len(walk.todo) : a < b /\ walk.todo[a].id = d
      \/ Needs(tasks, d, walk.todo[b].id)

\* ... and so were those of the tasks emitted.
WalkOrder(tasks, walk) ==
  \A i \in 1 .. Len(walk.result) : \A d \in DepsOf(tasks, walk.result[i].id) :
    \/ \E j \in 1 .. Len(walk.result) : j < i /\ walk.result[j].id = d
    \/ Needs(tasks, d, walk.result[i].id)

WalkOK(tasks, walk) ==
  /\ WalkTypes(tasks, walk)
  /\ WalkOnce(walk)
  /\ WalkStack(walk)
  /\ WalkAll(tasks, walk)
  /\ WalkPath(tasks, walk)
  /\ WalkDeps(tasks, walk)
  /\ WalkOrder(tasks, walk)

\* A step that leaves a task.
LEMMA LeavingKeepsWalk ==
  ASSUME NEW tasks \in Seq(Task), Closed(tasks), NEW walk, WalkOK(tasks, walk), Len(walk.todo) > 0,
         NEW x, walk.todo[1] = Leave(x),
         NEW new, new.todo = Tail(walk.todo), new.stack = walk.stack \ {x},
         new.result = Append(walk.result, Named(tasks, x))
  PROVE  WalkOK(tasks, new)
<1> DEFINE n == Len(walk.todo)
           r == Len(walk.result)
<1>1. /\ walk.todo \in Seq([id : Ids(tasks), does : {"enter", "leave"}]) /\ n \in Nat /\ n > 0
      /\ walk.result \in Seq(Task) /\ r \in Nat
      /\ \A i \in 1 .. r : walk.result[i].id \in Ids(tasks) /\ walk.result[i] = Named(tasks, walk.result[i].id)
      /\ walk.stack \in SUBSET Ids(tasks)
  BY DEF WalkOK, WalkTypes
<1>2. x \in Ids(tasks) /\ walk.todo[1].id = x /\ walk.todo[1].does = "leave" /\ 1 \in 1 .. n
  BY <1>1 DEF Leave
<1>3. Named(tasks, x) \in Task /\ Named(tasks, x).id = x
  BY <1>2, NamedIsThere
<1>4. /\ new.todo \in Seq([id : Ids(tasks), does : {"enter", "leave"}])
      /\ Len(new.todo) = n - 1
      /\ \A a \in 1 .. n - 1 : new.todo[a] = walk.todo[a + 1] /\ a + 1 \in 1 .. n
  BY <1>1
<1>5. /\ new.result \in Seq(Task)
      /\ Len(new.result) = r + 1
      /\ \A i \in 1 .. r : new.result[i] = walk.result[i]
      /\ new.result[r + 1] = Named(tasks, x)
  BY <1>1, <1>3
<1> HIDE DEF n, r
<1>6. Ids(new.result) = Ids(walk.result) \cup {x}
  <2>1. DOMAIN new.result = 1 .. r + 1 /\ DOMAIN walk.result = 1 .. r
    BY <1>1, <1>5 DEF r
  <2>2. \A i : i \in 1 .. r + 1 <=> i \in 1 .. r \/ i = r + 1
    BY <1>1
  <2>3. \A y : y \in Ids(new.result) <=> \E i \in 1 .. r + 1 : new.result[i].id = y
    BY <2>1 DEF Ids
  <2>4. \A y : y \in Ids(walk.result) <=> \E i \in 1 .. r : walk.result[i].id = y
    BY <2>1 DEF Ids
  <2>5. \A i \in 1 .. r : new.result[i].id = walk.result[i].id
    BY <1>5
  <2>6. new.result[r + 1].id = x
    BY <1>3, <1>5
  <2>7. ASSUME NEW y, y \in Ids(new.result) PROVE y \in Ids(walk.result) \cup {x}
    <3>1. PICK i \in 1 .. r + 1 : new.result[i].id = y
      BY <2>3, <2>7
    <3>2. CASE i \in 1 .. r
      BY <2>4, <2>5, <3>1, <3>2
    <3>3. CASE i = r + 1
      BY <2>6, <3>1, <3>3
    <3> QED BY <2>2, <3>2, <3>3
  <2>8. ASSUME NEW y, y \in Ids(walk.result) PROVE y \in Ids(new.result)
    <3>1. PICK i \in 1 .. r : walk.result[i].id = y
      BY <2>4, <2>8
    <3>2. new.result[i].id = y /\ i \in 1 .. r + 1
      BY <2>2, <2>5, <3>1
    <3> QED BY <2>3, <3>2
  <2>9. x \in Ids(new.result)
    <3>1. r + 1 \in 1 .. r + 1
      BY <1>1
    <3> QED BY <2>3, <2>6, <3>1
  <2> QED BY <2>7, <2>8, <2>9
<1>7. x \notin Ids(walk.result)
  BY <1>2 DEF WalkOK, WalkStack, n
<1>8. WalkTypes(tasks, new)
  <2>1. ASSUME NEW i \in 1 .. r + 1 PROVE new.result[i].id \in Ids(tasks) /\ new.result[i] = Named(tasks, new.result[i].id)
    <3>1. CASE i \in 1 .. r
      BY <1>1, <1>5, <3>1
    <3>2. CASE i = r + 1
      BY <1>2, <1>3, <1>5, <3>2
    <3>3. i \in 1 .. r \/ i = r + 1
      BY <1>1
    <3> QED BY <3>1, <3>2, <3>3
  <2> QED BY <1>1, <1>4, <1>5, <2>1 DEF WalkTypes
<1>9. WalkOnce(new)
  <2> SUFFICES ASSUME NEW i \in 1 .. r + 1, NEW j \in 1 .. r + 1, new.result[i].id = new.result[j].id
               PROVE  i = j
    BY <1>5 DEF WalkOnce
  <2>1. \A k \in 1 .. r : walk.result[k].id # x
    <3>1. DOMAIN walk.result = 1 .. r
      BY <1>1 DEF r
    <3> QED BY <1>7, <3>1 DEF Ids
  <2>2. \A k \in 1 .. r + 1 : k \in 1 .. r \/ k = r + 1
    BY <1>1
  <2>3. CASE i \in 1 .. r /\ j \in 1 .. r
    BY <1>5, <2>3 DEF WalkOK, WalkOnce, r
  <2> QED BY <1>3, <1>5, <2>1, <2>2, <2>3
<1>10. WalkStack(new)
  <2>1. ASSUME NEW b \in 1 .. n - 1, new.todo[b].does = "leave"
        PROVE  new.todo[b].id \in new.stack /\ new.todo[b].id \notin Ids(new.result)
    <3>1. b + 1 \in 1 .. n /\ walk.todo[b + 1] = new.todo[b] /\ b + 1 # 1
      BY <1>4
    <3>2. new.todo[b].id # x
      BY <1>2, <2>1, <3>1 DEF WalkOK, WalkStack, n
    <3>3. walk.todo[b + 1].id \in walk.stack /\ walk.todo[b + 1].id \notin Ids(walk.result)
      BY <2>1, <3>1 DEF WalkOK, WalkStack, n
    <3> QED BY <1>6, <3>1, <3>2, <3>3
  <2>2. ASSUME NEW y \in new.stack PROVE \E b \in 1 .. n - 1 : new.todo[b] = Leave(y)
    <3>1. y \in walk.stack /\ y # x
      OBVIOUS
    <3>2. PICK b \in 1 .. n : walk.todo[b] = Leave(y)
      BY <3>1 DEF WalkOK, WalkStack, n
    <3>3. b # 1
      BY <1>2, <3>1, <3>2 DEF Leave
    <3>4. b - 1 \in 1 .. n - 1 /\ b - 1 + 1 = b
      BY <1>1, <3>3
    <3>5. new.todo[b - 1] = walk.todo[b]
      BY <1>4, <3>4
    <3> QED BY <3>2, <3>4, <3>5
  <2>3. ASSUME NEW a \in 1 .. n - 1, NEW b \in 1 .. n - 1, new.todo[a].does = "leave", new.todo[b].does = "leave",
               new.todo[a].id = new.todo[b].id
        PROVE  a = b
    <3>1. a + 1 = b + 1
      BY <1>4, <2>3 DEF WalkOK, WalkStack, n
    <3> QED BY <3>1
  <2> QED BY <1>4, <2>1, <2>2, <2>3 DEF WalkStack
<1>11. WalkAll(tasks, new)
  <2> SUFFICES ASSUME NEW y \in Ids(tasks), y \notin Ids(new.result)
               PROVE  \E a \in 1 .. n - 1 : new.todo[a].id = y
    BY <1>4 DEF WalkAll
  <2>1. y # x /\ y \notin Ids(walk.result)
    BY <1>6
  <2>2. PICK a \in 1 .. n : walk.todo[a].id = y
    BY <2>1 DEF WalkOK, WalkAll, n
  <2>3. a # 1
    BY <1>2, <2>1, <2>2
  <2>4. a - 1 \in 1 .. n - 1 /\ a - 1 + 1 = a
    BY <1>1, <2>3
  <2>5. new.todo[a - 1] = walk.todo[a]
    BY <1>4, <2>4
  <2> QED BY <2>2, <2>4, <2>5
<1>12. WalkPath(tasks, new)
  <2> SUFFICES ASSUME NEW a \in 1 .. n - 1, NEW b \in 1 .. n - 1, a < b, new.todo[b].does = "leave"
               PROVE  Needs(tasks, new.todo[b].id, new.todo[a].id)
    BY <1>4 DEF WalkPath
  <2>1. a + 1 < b + 1
    OBVIOUS
  <2> QED BY <1>4, <2>1 DEF WalkOK, WalkPath, n
<1>13. WalkDeps(tasks, new)
  <2> SUFFICES ASSUME NEW b \in 1 .. n - 1, new.todo[b].does = "leave", NEW d \in DepsOf(tasks, new.todo[b].id),
                      d \notin Ids(new.result), ~Needs(tasks, d, new.todo[b].id)
               PROVE  \E a \in 1 .. n - 1 : a < b /\ new.todo[a].id = d
    BY <1>4 DEF WalkDeps
  <2>1. b + 1 \in 1 .. n /\ walk.todo[b + 1] = new.todo[b]
    BY <1>4
  <2>2. d # x /\ d \notin Ids(walk.result)
    BY <1>6
  <2>3. PICK a \in 1 .. n : a < b + 1 /\ walk.todo[a].id = d
    BY <2>1, <2>2 DEF WalkOK, WalkDeps, n
  <2>4. a # 1
    BY <1>2, <2>2, <2>3
  <2>5. a - 1 \in 1 .. n - 1 /\ a - 1 + 1 = a /\ a - 1 < b
    BY <1>1, <2>3, <2>4
  <2>6. new.todo[a - 1] = walk.todo[a]
    BY <1>4, <2>5
  <2> QED BY <2>3, <2>5, <2>6
<1>14. WalkOrder(tasks, new)
  <2> SUFFICES ASSUME NEW i \in 1 .. r + 1, NEW d \in DepsOf(tasks, new.result[i].id), ~Needs(tasks, d, new.result[i].id)
               PROVE  \E j \in 1 .. r + 1 : j < i /\ new.result[j].id = d
    BY <1>5 DEF WalkOrder
  <2>1. CASE i \in 1 .. r
    <3>1. PICK j \in 1 .. r : j < i /\ walk.result[j].id = d
      BY <1>5, <2>1 DEF WalkOK, WalkOrder, r
    <3>2. j \in 1 .. r + 1
      BY <1>1
    <3> QED BY <1>5, <3>1, <3>2
  <2>2. CASE i = r + 1
    <3>1. d \in DepsOf(tasks, x) /\ ~Needs(tasks, d, x)
      BY <1>3, <1>5, <2>2
    <3>2. ~ \E a \in 1 .. n : a < 1 /\ walk.todo[a].id = d
      OBVIOUS
    <3>3. d \in Ids(walk.result)
      BY <1>2, <3>1, <3>2 DEF WalkOK, WalkDeps, n
    <3>4. DOMAIN walk.result = 1 .. r
      BY <1>1 DEF r
    <3>5. PICK j \in 1 .. r : walk.result[j].id = d
      BY <3>3, <3>4 DEF Ids
    <3>6. j \in 1 .. r + 1 /\ j < i
      BY <1>1, <2>2
    <3> QED BY <1>5, <3>5, <3>6
  <2>3. i \in 1 .. r \/ i = r + 1
    BY <1>1
  <2> QED BY <2>1, <2>2, <2>3
<1> QED BY <1>8, <1>9, <1>10, <1>11, <1>12, <1>13, <1>14 DEF WalkOK

\* A step that skips a visit: the id was emitted, or is on the stack.
LEMMA SkippingKeepsWalk ==
  ASSUME NEW tasks \in Seq(Task), Closed(tasks), NEW walk, WalkOK(tasks, walk), Len(walk.todo) > 0,
         walk.todo[1].does # "leave", walk.todo[1].id \in walk.stack \cup Ids(walk.result),
         NEW new, new.todo = Tail(walk.todo), new.stack = walk.stack, new.result = walk.result
  PROVE  WalkOK(tasks, new)
<1> DEFINE n == Len(walk.todo)
<1>1. walk.todo \in Seq([id : Ids(tasks), does : {"enter", "leave"}]) /\ n \in Nat /\ n > 0
  BY DEF WalkOK, WalkTypes
<1>2. PICK x \in Ids(tasks) : x = walk.todo[1].id
  <2>1. walk.todo[1] \in [id : Ids(tasks), does : {"enter", "leave"}]
    <3>1. 1 \in 1 .. Len(walk.todo)
      BY <1>1
    <3> QED BY <1>1, <3>1, ElementOfSeq
  <2> QED BY <2>1
<1>3. /\ new.todo \in Seq([id : Ids(tasks), does : {"enter", "leave"}])
      /\ Len(new.todo) = n - 1
      /\ \A a \in 1 .. n - 1 : new.todo[a] = walk.todo[a + 1] /\ a + 1 \in 1 .. n
  BY <1>1
<1> HIDE DEF n
<1>4. WalkTypes(tasks, new) /\ WalkOnce(new) /\ WalkOrder(tasks, new)
  BY <1>3 DEF WalkOK, WalkTypes, WalkOnce, WalkOrder
<1>5. \A b \in 1 .. n : walk.todo[b].does = "leave" => b - 1 \in 1 .. n - 1 /\ new.todo[b - 1] = walk.todo[b]
  <2> TAKE b \in 1 .. n
  <2> HAVE walk.todo[b].does = "leave"
  <2>1. b # 1
    OBVIOUS
  <2>2. b - 1 \in 1 .. n - 1 /\ b - 1 + 1 = b
    BY <1>1, <2>1
  <2> QED BY <1>3, <2>2
<1>6. \A y \in walk.stack : \E b \in 1 .. n : walk.todo[b] = Leave(y) /\ walk.todo[b].does = "leave" /\ walk.todo[b].id = y
  BY DEF WalkOK, WalkStack, Leave, n
<1>7. WalkStack(new)
  <2>1. ASSUME NEW b \in 1 .. n - 1, new.todo[b].does = "leave"
        PROVE  new.todo[b].id \in new.stack /\ new.todo[b].id \notin Ids(new.result)
    BY <1>3, <2>1 DEF WalkOK, WalkStack, n
  <2>2. ASSUME NEW y \in new.stack PROVE \E b \in 1 .. n - 1 : new.todo[b] = Leave(y)
    <3>1. PICK b \in 1 .. n : walk.todo[b] = Leave(y) /\ walk.todo[b].does = "leave"
      BY <1>6
    <3>2. b - 1 \in 1 .. n - 1 /\ new.todo[b - 1] = walk.todo[b]
      BY <1>5, <3>1
    <3> QED BY <3>1, <3>2
  <2>3. ASSUME NEW a \in 1 .. n - 1, NEW b \in 1 .. n - 1, new.todo[a].does = "leave", new.todo[b].does = "leave",
               new.todo[a].id = new.todo[b].id
        PROVE  a = b
    <3>1. a + 1 = b + 1
      BY <1>3, <2>3 DEF WalkOK, WalkStack, n
    <3> QED BY <3>1
  <2> QED BY <1>3, <2>1, <2>2, <2>3 DEF WalkStack
<1>8. WalkAll(tasks, new)
  <2> SUFFICES ASSUME NEW y \in Ids(tasks), y \notin Ids(new.result)
               PROVE  \E a \in 1 .. n - 1 : new.todo[a].id = y
    BY <1>3 DEF WalkAll
  <2>1. PICK a \in 1 .. n : walk.todo[a].id = y
    BY DEF WalkOK, WalkAll, n
  <2>2. CASE a = 1
    <3>1. y \in walk.stack
      BY <2>1, <2>2
    <3>2. PICK b \in 1 .. n : walk.todo[b].does = "leave" /\ walk.todo[b].id = y
      BY <1>6, <3>1
    <3>3. b - 1 \in 1 .. n - 1 /\ new.todo[b - 1] = walk.todo[b]
      BY <1>5, <3>2
    <3> QED BY <3>2, <3>3
  <2>3. CASE a # 1
    <3>1. a - 1 \in 1 .. n - 1 /\ a - 1 + 1 = a
      BY <1>1, <2>3
    <3>2. new.todo[a - 1] = walk.todo[a]
      BY <1>3, <3>1
    <3> QED BY <2>1, <3>1, <3>2
  <2> QED BY <2>2, <2>3
<1>9. WalkPath(tasks, new)
  <2> SUFFICES ASSUME NEW a \in 1 .. n - 1, NEW b \in 1 .. n - 1, a < b, new.todo[b].does = "leave"
               PROVE  Needs(tasks, new.todo[b].id, new.todo[a].id)
    BY <1>3 DEF WalkPath
  <2>1. a + 1 < b + 1
    OBVIOUS
  <2> QED BY <1>3, <2>1 DEF WalkOK, WalkPath, n
<1>10. WalkDeps(tasks, new)
  <2> SUFFICES ASSUME NEW b \in 1 .. n - 1, new.todo[b].does = "leave", NEW d \in DepsOf(tasks, new.todo[b].id)
               PROVE  \/ d \in Ids(new.result)
                      \/ \E a \in 1 .. n - 1 : a < b /\ new.todo[a].id = d
                      \/ Needs(tasks, d, new.todo[b].id)
    BY <1>3 DEF WalkDeps
  <2>0. SUFFICES ASSUME d \notin Ids(new.result), ~Needs(tasks, d, new.todo[b].id)
                 PROVE  \E a \in 1 .. n - 1 : a < b /\ new.todo[a].id = d
    OBVIOUS
  <2>1. b + 1 \in 1 .. n /\ walk.todo[b + 1] = new.todo[b]
    BY <1>3
  <2>2. PICK a \in 1 .. n : a < b + 1 /\ walk.todo[a].id = d
    BY <2>0, <2>1 DEF WalkOK, WalkDeps, n
  <2>3. CASE a # 1
    <3>1. a - 1 \in 1 .. n - 1 /\ a - 1 + 1 = a /\ a - 1 < b
      BY <1>1, <2>2, <2>3
    <3>2. new.todo[a - 1] = walk.todo[a]
      BY <1>3, <3>1
    <3> QED BY <2>2, <3>1, <3>2
  <2>4. CASE a = 1
    <3>1. d = x /\ x \in walk.stack
      BY <1>2, <2>0, <2>2, <2>4
    <3>2. PICK c \in 1 .. n : walk.todo[c].does = "leave" /\ walk.todo[c].id = d
      BY <1>6, <3>1
    <3>3. c - 1 \in 1 .. n - 1 /\ new.todo[c - 1] = walk.todo[c]
      BY <1>5, <3>2
    <3>4. CASE c < b + 1
      <4>1. c - 1 < b
        BY <3>4
      <4> QED BY <3>2, <3>3, <4>1
    <3>5. CASE c = b + 1
      <4>1. new.todo[b].id = d
        BY <2>1, <3>2, <3>5
      <4>2. d \in DepsOf(tasks, d) /\ d \in Ids(tasks)
        BY <1>2, <3>1, <4>1
      <4>3. Needs(tasks, d, d)
        BY <4>2, DependedOnIsNeeded
      <4> QED BY <2>0, <4>1, <4>3
    <3>6. CASE b + 1 < c
      <4>1. Needs(tasks, walk.todo[c].id, walk.todo[b + 1].id)
        BY <2>1, <3>2, <3>6 DEF WalkOK, WalkPath, n
      <4> QED BY <2>0, <2>1, <3>2, <4>1
    <3>7. c < b + 1 \/ c = b + 1 \/ b + 1 < c
      BY <1>1
    <3> QED BY <3>4, <3>5, <3>6, <3>7
  <2> QED BY <2>3, <2>4
<1> QED BY <1>4, <1>7, <1>8, <1>9, <1>10 DEF WalkOK

\* What is left to do when a task is entered: its dependencies, its end, the rest.
Entered(tasks, walk, x) == Enter(Named(tasks, x).deps) \o <<Leave(x)>> \o Tail(walk.todo)

HasEntered(tasks, walk, x, new) == Len(new.todo) = Len(walk.todo) + Len(Named(tasks, x).deps)

\* A step that enters a task.
LEMMA EnteringKeepsWalk ==
  ASSUME NEW tasks \in Seq(Task), Closed(tasks), NEW walk, WalkOK(tasks, walk), Len(walk.todo) > 0,
         NEW x, x = walk.todo[1].id, walk.todo[1].does # "leave", x \notin walk.stack, x \notin Ids(walk.result),
         NEW new, new.todo = Entered(tasks, walk, x),
         new.stack = walk.stack \cup {x}, new.result = walk.result
  PROVE  /\ WalkOK(tasks, new)
         /\ HasEntered(tasks, walk, x, new)
<1> DEFINE n == Len(walk.todo)
           Todo == [id : Ids(tasks), does : {"enter", "leave"}]
<1>1. walk.todo \in Seq(Todo) /\ n \in Nat /\ n > 0
  BY DEF WalkOK, WalkTypes
<1>2. x \in Ids(tasks)
  <2>1. walk.todo[1] \in Todo
    <3>1. 1 \in 1 .. Len(walk.todo)
      BY <1>1
    <3> QED BY <1>1, <3>1, ElementOfSeq
  <2> QED BY <2>1
<1>3. PICK deps \in Seq(Nat) : deps = Named(tasks, x).deps
  BY <1>2, NamedIsThere DEF Task
<1>4. PICK m \in Nat : m = Len(deps)
  OBVIOUS
<1>5. \A i \in 1 .. m : deps[i] \in Ids(tasks) /\ deps[i] \in DepsOf(tasks, x)
  BY <1>2, <1>3, <1>4 DEF Closed, DepsOf, ToSet
<1>6. \A d \in DepsOf(tasks, x) : \E i \in 1 .. m : deps[i] = d
  <2>1. DOMAIN deps = 1 .. m
    BY <1>4
  <2>2. DepsOf(tasks, x) = {deps[i] : i \in 1 .. m}
    BY <1>3, <2>1 DEF DepsOf, ToSet
  <2> QED BY <2>2
<1>7. /\ Enter(deps) \in Seq(Todo) /\ Len(Enter(deps)) = m
      /\ \A i \in 1 .. m : Enter(deps)[i].id = deps[i] /\ Enter(deps)[i].does = "enter"
  <2>1. Enter(deps) = [i \in 1 .. m |-> [id |-> deps[i], does |-> "enter"]]
    BY <1>4 DEF Enter
  <2>2. \A i \in 1 .. m : [id |-> deps[i], does |-> "enter"] \in Todo
    BY <1>5
  <2> HIDE DEF Todo
  <2> QED BY <2>1, <2>2
<1>8. <<Leave(x)>> \in Seq(Todo) /\ Len(<<Leave(x)>>) = 1 /\ Leave(x).id = x /\ Leave(x).does = "leave"
  BY <1>2 DEF Leave
<1>9. /\ Tail(walk.todo) \in Seq(Todo) /\ Len(Tail(walk.todo)) = n - 1
      /\ \A a \in 1 .. n - 1 : Tail(walk.todo)[a] = walk.todo[a + 1]
  BY <1>1
<1> HIDE DEF Todo, n
<1>10. PICK front \in Seq(Todo) : front = Enter(deps) \o <<Leave(x)>>
  BY <1>7, <1>8, ConcatProperties
<1>11. /\ Len(front) = m + 1
       /\ \A i \in 1 .. m : front[i].id = deps[i] /\ front[i].does = "enter"
       /\ front[m + 1] = Leave(x)
  <2>1. PICK e \in Seq(Todo) : e = Enter(deps)
    BY <1>7
  <2>2. Len(e) = m /\ front = e \o <<Leave(x)>> /\ <<Leave(x)>> \in Seq(Todo) /\ Len(<<Leave(x)>>) = 1
    BY <1>7, <1>8, <1>10, <2>1
  <2>3. /\ Len(front) = m + 1
        /\ \A i \in 1 .. m + 1 : front[i] = IF i <= m THEN e[i] ELSE <<Leave(x)>>[i - m]
    BY <2>2, ConcatProperties
  <2>4. \A i \in 1 .. m : front[i] = e[i]
    BY <2>3
  <2>5. front[m + 1] = <<Leave(x)>>[1]
    BY <2>3
  <2> QED BY <1>7, <2>1, <2>3, <2>4, <2>5
<1>12. PICK rest \in Seq(Todo) : rest = Tail(walk.todo)
  BY <1>9
<1>13. new.todo = front \o rest /\ Len(rest) = n - 1
  BY <1>3, <1>9, <1>10, <1>12 DEF Entered
<1>14. /\ new.todo \in Seq(Todo)
       /\ Len(new.todo) = n + m
       /\ \A a \in 1 .. n + m : new.todo[a] = IF a <= m + 1 THEN front[a] ELSE rest[a - (m + 1)]
  <2>1. /\ front \o rest \in Seq(Todo)
        /\ Len(front \o rest) = Len(front) + Len(rest)
        /\ \A a \in 1 .. Len(front) + Len(rest) : (front \o rest)[a] = IF a <= Len(front) THEN front[a] ELSE rest[a - Len(front)]
    BY ConcatProperties
  <2>2. Len(front) + Len(rest) = n + m
    BY <1>1, <1>11, <1>13
  <2> QED BY <1>11, <1>13, <2>1, <2>2
<1>15. \A i \in 1 .. m : /\ i \in 1 .. n + m
                         /\ new.todo[i].id = deps[i] /\ new.todo[i].does = "enter"
  <2> TAKE i \in 1 .. m
  <2>1. i \in 1 .. n + m /\ i <= m + 1
    BY <1>1
  <2>2. new.todo[i] = front[i]
    BY <1>14, <2>1
  <2> QED BY <1>11, <2>1, <2>2
<1>16. m + 1 \in 1 .. n + m /\ new.todo[m + 1].id = x /\ new.todo[m + 1].does = "leave" /\ new.todo[m + 1] = Leave(x)
  <2>1. m + 1 \in 1 .. n + m /\ m + 1 <= m + 1
    BY <1>1
  <2>2. new.todo[m + 1] = front[m + 1]
    BY <1>14, <2>1
  <2> QED BY <1>8, <1>11, <2>1, <2>2
<1>17. \A a \in 2 .. n : a + m \in 1 .. n + m /\ new.todo[a + m] = walk.todo[a]
  <2> TAKE a \in 2 .. n
  <2>1. PICK b \in 1 .. n + m : b = a + m
    BY <1>1
  <2>2. ~(b <= m + 1) /\ b - (m + 1) = a - 1 /\ a - 1 \in 1 .. n - 1 /\ a - 1 + 1 = a
    <3>1. a \in Nat /\ m \in Nat /\ n \in Nat /\ 2 <= a /\ a <= n
      BY <1>1
    <3>2. b = a + m
      BY <2>1
    <3> HIDE DEF n
    <3>3. ~(b <= m + 1) /\ b - (m + 1) = a - 1
      BY <3>1, <3>2
    <3>4. a - 1 \in 1 .. n - 1 /\ a - 1 + 1 = a
      BY <3>1
    <3> QED BY <3>3, <3>4
  <2>3. new.todo[b] = rest[b - (m + 1)]
    BY <1>14, <2>2
  <2>4. new.todo[b] = rest[a - 1]
    BY <2>2, <2>3
  <2> QED BY <1>9, <1>12, <2>1, <2>2, <2>4
<1>18. \A b \in 1 .. n + m : \/ b \in 1 .. m
                             \/ b = m + 1
                             \/ \E a \in 2 .. n : b = a + m
  <2> TAKE b \in 1 .. n + m
  <2>1. CASE b > m + 1
    <3>1. b - m \in 2 .. n /\ b = b - m + m
      BY <1>1, <2>1
    <3> QED BY <3>1
  <2> QED BY <1>1, <2>1
<1>19. \A b \in 1 .. n : b = 1 \/ b \in 2 .. n
  BY <1>1
<1>20. \A a \in 2 .. n : a \in 1 .. n
  BY <1>1
<1>21. WalkTypes(tasks, new) /\ WalkOnce(new) /\ WalkOrder(tasks, new)
  BY <1>2, <1>14 DEF WalkOK, WalkTypes, WalkOnce, WalkOrder, Todo
<1>22. WalkStack(new)
  <2>1. ASSUME NEW b \in 1 .. n + m, new.todo[b].does = "leave"
        PROVE  new.todo[b].id \in new.stack /\ new.todo[b].id \notin Ids(new.result)
    <3>1. CASE b = m + 1
      BY <1>16, <3>1
    <3>2. CASE \E a \in 2 .. n : b = a + m
      <4>1. PICK a \in 2 .. n : b = a + m
        BY <3>2
      <4>2. walk.todo[a].does = "leave" /\ new.todo[b] = walk.todo[a] /\ a \in 1 .. n
        BY <1>17, <1>20, <2>1, <4>1
      <4> QED BY <4>2 DEF WalkOK, WalkStack, n
    <3>3. b \notin 1 .. m
      BY <1>15, <2>1
    <3> QED BY <1>18, <3>1, <3>2, <3>3
  <2>2. ASSUME NEW y \in new.stack PROVE \E b \in 1 .. n + m : new.todo[b] = Leave(y)
    <3>1. CASE y = x
      BY <1>16, <3>1
    <3>2. CASE y # x
      <4>3. y \in walk.stack /\ WalkStack(walk)
        BY <3>2 DEF WalkOK
      <4>1. PICK b \in 1 .. n : walk.todo[b] = Leave(y)
        BY <4>3 DEF WalkStack, n
      <4>2. b # 1
        BY <4>1 DEF Leave
      <4> QED BY <1>17, <1>19, <4>1, <4>2
    <3> QED BY <3>1, <3>2
  <2>3. ASSUME NEW a \in 1 .. n + m, NEW b \in 1 .. n + m, new.todo[a].does = "leave", new.todo[b].does = "leave",
               new.todo[a].id = new.todo[b].id
        PROVE  a = b
    <3>1. \A c \in 2 .. n : walk.todo[c].does = "leave" => walk.todo[c].id # x
      <4>1. \A c \in 1 .. n : walk.todo[c].does = "leave" => walk.todo[c].id \in walk.stack
        BY DEF WalkOK, WalkStack, n
      <4> QED BY <1>20, <4>1
    <3>2. a \notin 1 .. m /\ b \notin 1 .. m
      BY <1>15, <2>3
    <3>3. CASE a = m + 1 /\ b = m + 1
      BY <3>3
    <3>4. CASE a = m + 1 /\ \E c \in 2 .. n : b = c + m
      <4>1. PICK c \in 2 .. n : b = c + m
        BY <3>4
      <4>2. new.todo[b] = walk.todo[c] /\ new.todo[a].id = x
        BY <1>16, <1>17, <3>4, <4>1
      <4> QED BY <2>3, <3>1, <4>2
    <3>5. CASE b = m + 1 /\ \E c \in 2 .. n : a = c + m
      <4>1. PICK c \in 2 .. n : a = c + m
        BY <3>5
      <4>2. new.todo[a] = walk.todo[c] /\ new.todo[b].id = x
        BY <1>16, <1>17, <3>5, <4>1
      <4> QED BY <2>3, <3>1, <4>2
    <3>6. CASE (\E c \in 2 .. n : a = c + m) /\ (\E c \in 2 .. n : b = c + m)
      <4>1. PICK c \in 2 .. n : a = c + m
        BY <3>6
      <4>2. PICK e \in 2 .. n : b = e + m
        BY <3>6
      <4>3. walk.todo[c] = new.todo[a] /\ walk.todo[e] = new.todo[b] /\ c \in 1 .. n /\ e \in 1 .. n
        BY <1>17, <1>20, <4>1, <4>2
      <4>4. c = e
        BY <2>3, <4>3 DEF WalkOK, WalkStack, n
      <4> QED BY <4>1, <4>2, <4>4
    <3> QED BY <1>18, <3>2, <3>3, <3>4, <3>5, <3>6
  <2> QED BY <1>14, <2>1, <2>2, <2>3 DEF WalkStack
<1>23. WalkAll(tasks, new)
  <2> SUFFICES ASSUME NEW y \in Ids(tasks), y \notin Ids(new.result)
               PROVE  \E a \in 1 .. n + m : new.todo[a].id = y
    BY <1>14 DEF WalkAll
  <2>1. PICK a \in 1 .. n : walk.todo[a].id = y
    BY DEF WalkOK, WalkAll, n
  <2>2. CASE a = 1
    BY <1>16, <2>1, <2>2
  <2>3. CASE a \in 2 .. n
    BY <1>17, <2>1, <2>3
  <2> QED BY <1>19, <2>2, <2>3
<1>24. \A b \in 2 .. n : walk.todo[b].does = "leave" => Needs(tasks, walk.todo[b].id, x)
  <2> TAKE b \in 2 .. n
  <2>1. 1 \in 1 .. n /\ b \in 1 .. n /\ 1 < b
    BY <1>1
  <2> QED BY <2>1 DEF WalkOK, WalkPath, n
<1>25. \A i \in 1 .. m : Needs(tasks, x, deps[i])
  BY <1>2, <1>5, DependedOnIsNeeded
<1>26. WalkPath(tasks, new)
  <2> SUFFICES ASSUME NEW a \in 1 .. n + m, NEW b \in 1 .. n + m, a < b, new.todo[b].does = "leave"
               PROVE  Needs(tasks, new.todo[b].id, new.todo[a].id)
    BY <1>14 DEF WalkPath
  <2>1. b \notin 1 .. m
    BY <1>15
  <2>2. CASE b = m + 1
    <3>1. a \in 1 .. m
      BY <2>2
    <3> QED BY <1>15, <1>16, <1>25, <2>2, <3>1
  <2>3. CASE \E c \in 2 .. n : b = c + m
    <3>1. PICK c \in 2 .. n : b = c + m
      BY <2>3
    <3>2. new.todo[b] = walk.todo[c] /\ walk.todo[c].does = "leave" /\ Needs(tasks, walk.todo[c].id, x)
      BY <1>17, <1>24, <3>1
    <3>3. CASE a \in 1 .. m
      <4>1. new.todo[a].id = deps[a] /\ Needs(tasks, x, deps[a])
        BY <1>15, <1>25, <3>3
      <4>2. Needs(tasks, walk.todo[c].id, deps[a])
        BY <3>2, <4>1, NeedsTransitive
      <4> QED BY <3>2, <4>1, <4>2
    <3>4. CASE a = m + 1
      BY <1>16, <3>2, <3>4
    <3>5. CASE \E e \in 2 .. n : a = e + m
      <4>1. PICK e \in 2 .. n : a = e + m
        BY <3>5
      <4>2. e < c /\ e \in 1 .. n /\ c \in 1 .. n
        BY <1>1, <3>1, <4>1
      <4>3. Needs(tasks, walk.todo[c].id, walk.todo[e].id)
        BY <3>2, <4>2 DEF WalkOK, WalkPath, n
      <4> QED BY <1>17, <3>2, <4>1, <4>3
    <3> QED BY <1>18, <3>3, <3>4, <3>5
  <2> QED BY <1>18, <2>1, <2>2, <2>3
<1>27. WalkDeps(tasks, new)
  <2> SUFFICES ASSUME NEW b \in 1 .. n + m, new.todo[b].does = "leave", NEW d \in DepsOf(tasks, new.todo[b].id)
               PROVE  \/ d \in Ids(new.result)
                      \/ \E a \in 1 .. n + m : a < b /\ new.todo[a].id = d
                      \/ Needs(tasks, d, new.todo[b].id)
    BY <1>14 DEF WalkDeps
  <2>1. b \notin 1 .. m
    BY <1>15
  <2>2. CASE b = m + 1
    <3>1. PICK i \in 1 .. m : deps[i] = d
      BY <1>6, <1>16, <2>2
    <3>2. i < b
      BY <2>2
    <3> QED BY <1>15, <3>1, <3>2
  <2>3. CASE \E c \in 2 .. n : b = c + m
    <3>1. PICK c \in 2 .. n : b = c + m
      BY <2>3
    <3>2. new.todo[b] = walk.todo[c] /\ c \in 1 .. n
      BY <1>17, <1>20, <3>1
    <3>3. CASE \E a \in 1 .. n : a < c /\ walk.todo[a].id = d
      <4>1. PICK a \in 1 .. n : a < c /\ walk.todo[a].id = d
        BY <3>3
      <4>2. CASE a = 1
        <5>1. d = x
          BY <4>1, <4>2
        <5>2. m + 1 < b
          BY <1>1, <1>4, <3>1
        <5> QED BY <1>16, <5>1, <5>2
      <4>3. CASE a \in 2 .. n
        <5>1. a + m < b
          BY <3>1, <4>1, <4>3
        <5>2. a + m \in 1 .. n + m /\ new.todo[a + m].id = d
          BY <1>17, <4>1, <4>3
        <5> QED BY <5>1, <5>2
      <4> QED BY <1>19, <4>2, <4>3
    <3>4. d \in Ids(walk.result) \/ Needs(tasks, d, walk.todo[c].id) \/ \E a \in 1 .. n : a < c /\ walk.todo[a].id = d
      BY <3>2 DEF WalkOK, WalkDeps, n
    <3> QED BY <3>2, <3>3, <3>4
  <2> QED BY <1>18, <2>1, <2>2, <2>3
<1> QED BY <1>3, <1>4, <1>14, <1>21, <1>22, <1>23, <1>26, <1>27 DEF WalkOK, HasEntered, n

Walks(tasks) ==
  [todo : Seq([id : Ids(tasks), does : {"enter", "leave"}]), stack : SUBSET Ids(tasks), result : Seq(Task)]

\* What is left of the walk: no visit adds more than its most dependencies and its end.
ToEnter(tasks, walk) == Ids(tasks) \ (walk.stack \cup Ids(walk.result))
WalkLeft(tasks, most, walk) == Len(walk.todo) + (most + 1) * Cardinality(ToEnter(tasks, walk))

LEMMA IdsAreFinite ==
  ASSUME NEW tasks \in Seq(Task)
  PROVE  IsFiniteSet(Ids(tasks)) /\ Cardinality(Ids(tasks)) \in Nat /\ Cardinality(Ids(tasks)) <= Len(tasks)
<1> DEFINE f == [i \in 1 .. Len(tasks) |-> tasks[i].id]
<1>1. Len(tasks) \in Nat /\ DOMAIN tasks = 1 .. Len(tasks)
  OBVIOUS
<1>2. f \in Surjection(1 .. Len(tasks), Ids(tasks))
  BY <1>1 DEF Surjection, Ids
<1>3. IsFiniteSet(1 .. Len(tasks)) /\ Cardinality(1 .. Len(tasks)) = Len(tasks)
  BY <1>1, FS_Interval
<1> HIDE DEF f
<1>4. IsFiniteSet(Ids(tasks)) /\ Cardinality(Ids(tasks)) <= Len(tasks)
  BY <1>2, <1>3, FS_Surjection
<1> QED BY <1>4, FS_CardinalityType

\* Each of the calls of visit keeps the walk as it should be, and gets on.
LEMMA VisitKeepsWalk ==
  ASSUME NEW tasks \in Seq(Task), Closed(tasks), NEW walk \in Walks(tasks), WalkOK(tasks, walk),
         NEW most \in Nat, \A x \in Ids(tasks) : Len(Named(tasks, x).deps) <= most
  PROVE  /\ Visit(tasks, walk) \in Walks(tasks)
         /\ WalkOK(tasks, Visit(tasks, walk))
         /\ Len(walk.todo) = 0 => Visit(tasks, walk) = walk
         /\ Len(walk.todo) > 0 => WalkLeft(tasks, most, Visit(tasks, walk)) < WalkLeft(tasks, most, walk)
         /\ WalkLeft(tasks, most, walk) \in Nat
         /\ Len(walk.todo) <= WalkLeft(tasks, most, walk)
<1> DEFINE Todo == [id : Ids(tasks), does : {"enter", "leave"}]
<1>1. /\ walk.todo \in Seq(Todo) /\ Len(walk.todo) \in Nat /\ walk.stack \in SUBSET Ids(tasks) /\ walk.result \in Seq(Task)
  BY DEF Walks
<1>2. PICK w \in SUBSET Ids(tasks) : w = ToEnter(tasks, walk)
  BY DEF ToEnter
<1>3. IsFiniteSet(w) /\ Cardinality(w) \in Nat
  BY IdsAreFinite, FS_Subset, FS_CardinalityType
<1>4. PICK c \in Nat : c = Cardinality(w)
  BY <1>3
<1>6. PICK p \in Nat : p = (most + 1) * c
  OBVIOUS
<1>5. WalkLeft(tasks, most, walk) = Len(walk.todo) + p
  BY <1>2, <1>4, <1>6 DEF WalkLeft
<1>7. WalkLeft(tasks, most, walk) \in Nat /\ Len(walk.todo) <= WalkLeft(tasks, most, walk)
  BY <1>1, <1>5, <1>6
<1>8. CASE Len(walk.todo) = 0
  <2>1. walk.todo = <<>>
    BY <1>1, <1>8
  <2>2. Visit(tasks, walk) = walk
    BY <2>1 DEF Visit
  <2> QED BY <1>7, <1>8, <2>2
<1>9. CASE Len(walk.todo) > 0
  <2>1. walk.todo # <<>> /\ Head(walk.todo) = walk.todo[1]
    BY <1>1, <1>9
  <2>2. PICK x : x = walk.todo[1].id
    OBVIOUS
  <2>3. walk.todo[1] \in Todo
    <3>1. 1 \in 1 .. Len(walk.todo)
      BY <1>1, <1>9
    <3> QED BY <1>1, <3>1, ElementOfSeq
  <2>4. x \in Ids(tasks) /\ walk.todo[1] = [id |-> x, does |-> walk.todo[1].does]
    BY <2>2, <2>3
  <2>5. Tail(walk.todo) \in Seq(Todo) /\ Len(Tail(walk.todo)) = Len(walk.todo) - 1
    BY <1>1, <1>9
  <2>6. CASE walk.todo[1].does = "leave"
    <3> DEFINE new == [todo |-> Tail(walk.todo), stack |-> walk.stack \ {x}, result |-> Append(walk.result, Named(tasks, x))]
    <3>1. Visit(tasks, walk) = new
      BY <2>1, <2>2, <2>6 DEF Visit
    <3>2. walk.todo[1] = Leave(x)
      BY <2>4, <2>6 DEF Leave
    <3>3. /\ new.todo = Tail(walk.todo) /\ new.stack = walk.stack \ {x}
          /\ new.result = Append(walk.result, Named(tasks, x))
      OBVIOUS
    <3>4. new \in Walks(tasks)
      BY <1>1, <2>4, <2>5, NamedIsThere DEF Walks
    <3> HIDE DEF new
    <3>5. WalkOK(tasks, new)
      BY <1>9, <3>2, <3>3, LeavingKeepsWalk
    <3>6. x \in walk.stack
      <4>1. 1 \in 1 .. Len(walk.todo)
        BY <1>1, <1>9
      <4> QED BY <2>2, <2>6, <4>1 DEF WalkOK, WalkStack
    <3>7. ToEnter(tasks, new) = w
      <4>1. Ids(new.result) = Ids(walk.result) \cup {x}
        <5>1. PICK r \in Nat : r = Len(walk.result)
          BY <1>1
        <5>2. Named(tasks, x) \in Task /\ Named(tasks, x).id = x
          BY <2>4, NamedIsThere
        <5>3. DOMAIN new.result = 1 .. r + 1 /\ DOMAIN walk.result = 1 .. r
          BY <1>1, <3>3, <5>1, <5>2
        <5>4. (\A i \in 1 .. r : new.result[i] = walk.result[i]) /\ new.result[r + 1] = Named(tasks, x)
          BY <1>1, <3>3, <5>1, <5>2
        <5>5. \A i : i \in 1 .. r + 1 <=> i \in 1 .. r \/ i = r + 1
          OBVIOUS
        <5>6. ASSUME NEW y, y \in Ids(new.result) PROVE y \in Ids(walk.result) \cup {x}
          <6>1. PICK i \in 1 .. r + 1 : new.result[i].id = y
            BY <5>3, <5>6 DEF Ids
          <6> QED BY <5>2, <5>3, <5>4, <5>5, <6>1 DEF Ids
        <5>7. ASSUME NEW y, y \in Ids(walk.result) PROVE y \in Ids(new.result)
          <6>1. PICK i \in 1 .. r : walk.result[i].id = y
            BY <5>3, <5>7 DEF Ids
          <6>2. i \in 1 .. r + 1 /\ new.result[i].id = y
            BY <5>4, <5>5, <6>1
          <6> QED BY <5>3, <6>2 DEF Ids
        <5>8. x \in Ids(new.result)
          <6>1. r + 1 \in 1 .. r + 1 /\ new.result[r + 1].id = x
            BY <5>2, <5>4
          <6> QED BY <5>3, <6>1 DEF Ids
        <5> QED BY <5>6, <5>7, <5>8
      <4> QED BY <1>2, <3>3, <3>6, <4>1 DEF ToEnter
    <3>8. WalkLeft(tasks, most, new) = Len(walk.todo) - 1 + p
      BY <1>4, <1>6, <2>5, <3>3, <3>7 DEF WalkLeft
    <3>9. WalkLeft(tasks, most, new) < WalkLeft(tasks, most, walk)
      BY <1>1, <1>5, <3>8
    <3> QED BY <1>7, <1>9, <3>1, <3>4, <3>5, <3>9
  <2>7. CASE walk.todo[1].does # "leave" /\ x \in walk.stack \cup Ids(walk.result)
    <3> DEFINE new == [walk EXCEPT !.todo = Tail(walk.todo)]
    <3>1. Visit(tasks, walk) = new
      BY <2>1, <2>2, <2>7 DEF Visit
    <3>2. new.todo = Tail(walk.todo) /\ new.stack = walk.stack /\ new.result = walk.result
      BY DEF Walks
    <3>3. new \in Walks(tasks)
      BY <2>5 DEF Walks
    <3> HIDE DEF new
    <3>4. WalkOK(tasks, new)
      BY <1>9, <2>2, <2>7, <3>2, SkippingKeepsWalk
    <3>5. WalkLeft(tasks, most, new) = Len(walk.todo) - 1 + p
      BY <1>2, <1>4, <1>6, <2>5, <3>2 DEF WalkLeft, ToEnter
    <3>6. WalkLeft(tasks, most, new) < WalkLeft(tasks, most, walk)
      BY <1>1, <1>5, <3>5
    <3> QED BY <1>7, <1>9, <3>1, <3>3, <3>4, <3>6
  <2>8. CASE walk.todo[1].does # "leave" /\ x \notin walk.stack \cup Ids(walk.result)
    <3> DEFINE new == [todo   |-> Entered(tasks, walk, x),
                       stack  |-> walk.stack \cup {x},
                       result |-> walk.result]
    <3>1. Visit(tasks, walk) = new
      BY <2>1, <2>2, <2>8 DEF Visit, Entered
    <3>2. /\ new.todo = Entered(tasks, walk, x)
          /\ new.stack = walk.stack \cup {x} /\ new.result = walk.result
          /\ new = [todo |-> new.todo, stack |-> new.stack, result |-> new.result]
      OBVIOUS
    <3> HIDE DEF new
    <3>3. WalkOK(tasks, new) /\ Len(new.todo) = Len(walk.todo) + Len(Named(tasks, x).deps)
      <4>1. x \notin walk.stack /\ x \notin Ids(walk.result)
        BY <2>8
      <4>2. x = walk.todo[1].id /\ walk.todo[1].does # "leave"
        BY <2>2, <2>8
      <4>3. /\ new.todo = Entered(tasks, walk, x)
            /\ new.stack = walk.stack \cup {x} /\ new.result = walk.result
        BY <3>2
      <4>4. PICK y : y = new
        OBVIOUS
      <4>5. y.todo = Entered(tasks, walk, x) /\ y.stack = walk.stack \cup {x} /\ y.result = walk.result
        BY <4>3, <4>4
      <4>6. WalkOK(tasks, y)
        BY <1>9, <4>1, <4>2, <4>5, EnteringKeepsWalk
      <4>7. HasEntered(tasks, walk, x, y)
        BY <1>9, <4>1, <4>2, <4>5, EnteringKeepsWalk
      <4> QED BY <4>4, <4>6, <4>7 DEF HasEntered
    <3>4. new \in Walks(tasks)
      <4>1. WalkTypes(tasks, new)
        BY <3>3 DEF WalkOK
      <4>2. new.todo \in Seq(Todo) /\ new.stack \in SUBSET Ids(tasks) /\ new.result \in Seq(Task)
        BY <4>1 DEF WalkTypes
      <4> QED BY <3>2, <4>2 DEF Walks
    <3>5. ToEnter(tasks, new) = w \ {x} /\ x \in w
      BY <1>2, <2>4, <2>8, <3>2 DEF ToEnter
    <3>6. Cardinality(w \ {x}) = c - 1
      BY <1>3, <1>4, <3>5, FS_RemoveElement
    <3>7. PICK m \in Nat : m = Len(Named(tasks, x).deps) /\ m <= most
      <4>1. Named(tasks, x) \in Task
        BY <2>4, NamedIsThere
      <4>2. Named(tasks, x).deps \in Seq(Nat)
        BY <4>1 DEF Task
      <4>3. PICK m \in Nat : m = Len(Named(tasks, x).deps)
        BY <4>2
      <4>4. m <= most
        BY <2>4, <4>3
      <4> QED BY <4>3, <4>4
    <3>8. PICK q \in Int : q = (most + 1) * (c - 1)
      OBVIOUS
    <3>9. p = q + most + 1
      BY <1>6, <3>8
    <3>10. WalkLeft(tasks, most, new) = Len(walk.todo) + m + q
      BY <3>3, <3>5, <3>6, <3>7, <3>8 DEF WalkLeft
    <3>11. WalkLeft(tasks, most, new) < WalkLeft(tasks, most, walk)
      <4>1. PICK len \in Nat : len = Len(walk.todo)
        BY <1>1
      <4>2. len + m + q < len + p
        BY <3>7, <3>9
      <4> QED BY <1>5, <3>10, <4>1, <4>2
    <3> QED BY <1>7, <1>9, <3>1, <3>3, <3>4, <3>11
  <2> QED BY <2>6, <2>7, <2>8
<1> QED BY <1>1, <1>8, <1>9

----------------------------------------------------------------------------
(* topoSort.                                                               *)

\* The same task, whatever it depends on.
SameTask(t, u) ==
  t.id = u.id /\ t.title = u.title /\ t.expected = u.expected /\ t.kind = u.kind /\ t.from = u.from

\* new has the tasks of old, and of their dependencies those on tasks of old.
Relinked(new, old) ==
  /\ new \in Seq(Task) /\ Len(new) = Len(old)
  /\ \A i \in 1 .. Len(old) : SameTask(new[i], old[i]) /\ ToSet(new[i].deps) = ToSet(old[i].deps) \cap Ids(old)

LEMMA RelinkRelinks ==
  ASSUME NEW tasks \in Seq(Task)
  PROVE  Relinked(RelinkDependencies(tasks), tasks)
<1> DEFINE Own(i) == {d \in DOMAIN tasks[i].deps : tasks[i].deps[d] \in Ids(tasks)}
           With(i) == [tasks[i] EXCEPT !.deps = Those(tasks[i].deps, Own(i))]
<1>1. Len(tasks) \in Nat /\ DOMAIN tasks = 1 .. Len(tasks) /\ \A i \in 1 .. Len(tasks) : tasks[i] \in Task
  OBVIOUS
<1>2. ASSUME NEW i \in 1 .. Len(tasks)
      PROVE  /\ With(i) \in Task /\ SameTask(With(i), tasks[i])
             /\ ToSet(With(i).deps) = ToSet(tasks[i].deps) \cap Ids(tasks)
  <2>1. PICK t \in Task : t = tasks[i]
    BY <1>1
  <2>2. PICK places : places = Own(i)
    OBVIOUS
  <2>3. t.deps \in Seq(Nat) /\ places \in SUBSET DOMAIN t.deps
    BY <2>1, <2>2 DEF Task
  <2>4. PICK new : new = Those(t.deps, places)
    OBVIOUS
  <2>5. new \in Seq(Nat) /\ Keeps(new, t.deps, places)
    BY <2>3, <2>4, ThoseAreKept
  <2>6. With(i) = [t EXCEPT !.deps = new]
    BY <2>1, <2>2, <2>4
  <2>7. [t EXCEPT !.deps = new] \in Task /\ SameTask([t EXCEPT !.deps = new], t) /\ [t EXCEPT !.deps = new].deps = new
    BY <2>5 DEF Task, SameTask
  <2>8. ToSet(new) = ToSet(t.deps) \cap Ids(tasks)
    <3>1. DOMAIN new = 1 .. Len(new)
      BY <2>5
    <3>2. PICK at \in [1 .. Len(new) -> places] :
            /\ \A n \in 1 .. Len(new) : new[n] = t.deps[at[n]]
            /\ \A j \in places : \E n \in 1 .. Len(new) : at[n] = j
      BY <2>5 DEF Keeps
    <3>3. \A j : j \in places <=> j \in DOMAIN t.deps /\ t.deps[j] \in Ids(tasks)
      BY <2>1, <2>2
    <3>4. ASSUME NEW d \in ToSet(new) PROVE d \in ToSet(t.deps) \cap Ids(tasks)
      <4>1. PICK n \in 1 .. Len(new) : d = new[n]
        BY <3>1 DEF ToSet
      <4>2. at[n] \in places /\ d = t.deps[at[n]]
        BY <3>2, <4>1
      <4> QED BY <3>3, <4>2 DEF ToSet
    <3>5. ASSUME NEW d \in ToSet(t.deps), d \in Ids(tasks) PROVE d \in ToSet(new)
      <4>1. PICK j \in DOMAIN t.deps : d = t.deps[j]
        BY DEF ToSet
      <4>2. j \in places
        BY <3>3, <3>5, <4>1
      <4>3. PICK n \in 1 .. Len(new) : at[n] = j
        BY <3>2, <4>2
      <4> QED BY <3>1, <3>2, <4>1, <4>3 DEF ToSet
    <3> QED BY <3>4, <3>5
  <2> QED BY <2>1, <2>6, <2>7, <2>8
<1>3. RelinkDependencies(tasks) = [i \in 1 .. Len(tasks) |-> With(i)]
  BY <1>1 DEF RelinkDependencies
<1> HIDE DEF With, Own
<1>4. RelinkDependencies(tasks) \in Seq(Task)
  BY <1>1, <1>2, <1>3
<1>5. Len(RelinkDependencies(tasks)) = Len(tasks)
  BY <1>1, <1>3, <1>4
<1>6. \A i \in 1 .. Len(tasks) : RelinkDependencies(tasks)[i] = With(i)
  BY <1>3
<1> QED BY <1>2, <1>4, <1>5, <1>6 DEF Relinked

\* What is relinked has the same ids, the same tasks under them and, among its
\* own tasks, the same dependencies.
LEMMA RelinkedIsAlike ==
  ASSUME NEW old \in Seq(Task), NEW new, Relinked(new, old)
  PROVE  /\ Ids(new) = Ids(old)
         /\ \A x \in Ids(old) : /\ SameTask(Named(new, x), Named(old, x))
                                /\ DepsOf(new, x) = DepsOf(old, x) \cap Ids(old)
         /\ Closed(new)
         /\ \A x \in Ids(old) : \A y : Needs(new, x, y) => Needs(old, x, y)
<1>1. /\ new \in Seq(Task) /\ Len(new) = Len(old) /\ Len(old) \in Nat
      /\ DOMAIN new = 1 .. Len(old) /\ DOMAIN old = 1 .. Len(old)
  BY DEF Relinked
<1>2. \A i \in 1 .. Len(old) : new[i].id = old[i].id
  BY DEF Relinked, SameTask
<1>3. Ids(new) = Ids(old)
  BY <1>1, <1>2 DEF Ids
<1>4. ASSUME NEW x \in Ids(old)
      PROVE  SameTask(Named(new, x), Named(old, x)) /\ DepsOf(new, x) = DepsOf(old, x) \cap Ids(old)
  <2>1. PICK T : T = {i \in DOMAIN old : old[i].id = x}
    OBVIOUS
  <2>2. {i \in DOMAIN new : new[i].id = x} = T
    BY <1>1, <1>2, <2>1
  <2>3. T \in SUBSET Nat /\ T # {} /\ T \in SUBSET (1 .. Len(old))
    BY <1>1, <2>1 DEF Ids
  <2>4. IsFiniteSet(T)
    <3>1. IsFiniteSet(1 .. Len(old))
      BY <1>1, FS_Interval
    <3> QED BY <2>3, <3>1, FS_Subset
  <2>5. PICK i \in 1 .. Len(old) : i = Max(T)
    BY <2>3, <2>4, LargestIsThere
  <2>6. Named(new, x) = new[i] /\ Named(old, x) = old[i]
    BY <2>1, <2>2, <2>5 DEF Named
  <2> QED BY <2>6 DEF Relinked, DepsOf
<1>5. Closed(new)
  BY <1>3, <1>4 DEF Closed
<1>6. ASSUME NEW x \in Ids(old), NEW y, Needs(new, x, y) PROVE Needs(old, x, y)
  <2> SUFFICES ASSUME NEW C \in SUBSET Ids(old),
                      \A id \in C \cup {x} : ToSet(Named(old, id).deps) \cap Ids(old) \subseteq C
               PROVE  y \in C
    BY DEF Needs
  <2>1. C \in SUBSET Ids(new)
    BY <1>3
  <2>2. ASSUME NEW id \in C \cup {x} PROVE ToSet(Named(new, id).deps) \cap Ids(new) \subseteq C
    <3>1. id \in Ids(old)
      OBVIOUS
    <3>2. ToSet(Named(new, id).deps) = ToSet(Named(old, id).deps) \cap Ids(old)
      BY <1>4, <3>1 DEF DepsOf
    <3> QED BY <3>2
  <2> QED BY <1>6, <2>1, <2>2 DEF Needs
<1> QED BY <1>3, <1>4, <1>5, <1>6

\* result has the tasks of old (of each id the last), each after those it
\* depends on but for cycles.
Sorted(result, old) ==
  /\ result \in Seq(Task)
  /\ Ids(result) = Ids(old)
  /\ \A i \in 1 .. Len(result) : SameTask(result[i], Named(old, result[i].id))
  /\ \A i \in 1 .. Len(result) : ToSet(result[i].deps) = DepsOf(old, result[i].id) \cap Ids(old)
  /\ \A i, j \in 1 .. Len(result) : result[i].id = result[j].id => i = j
  /\ \A i \in 1 .. Len(result) : \A d \in DepsOf(old, result[i].id) \cap Ids(old) :
       \/ \E j \in 1 .. Len(result) : j < i /\ result[j].id = d
       \/ Needs(old, d, result[i].id)

\* A walk with nothing left to do has sorted the tasks.
LEMMA WalkedIsSorted ==
  ASSUME NEW old \in Seq(Task), NEW new, Relinked(new, old), NEW walk, WalkOK(new, walk), Len(walk.todo) = 0
  PROVE  Sorted(walk.result, old)
<1> DEFINE r == walk.result
<1>1. /\ Ids(new) = Ids(old)
      /\ \A x \in Ids(old) : SameTask(Named(new, x), Named(old, x)) /\ DepsOf(new, x) = DepsOf(old, x) \cap Ids(old)
      /\ \A x \in Ids(old) : \A y : Needs(new, x, y) => Needs(old, x, y)
  BY RelinkedIsAlike
<1>2. r \in Seq(Task) /\ \A i \in 1 .. Len(r) : r[i].id \in Ids(old) /\ r[i] = Named(new, r[i].id)
  BY <1>1 DEF WalkOK, WalkTypes
<1>3. Ids(r) = Ids(old)
  <2>1. \A x \in Ids(new) : x \in Ids(r)
    BY DEF WalkOK, WalkAll
  <2>2. \A x \in Ids(r) : x \in Ids(old)
    <3>1. DOMAIN r = 1 .. Len(r)
      BY <1>2
    <3> QED BY <1>2, <3>1 DEF Ids
  <2> QED BY <1>1, <2>1, <2>2
<1>4. \A i \in 1 .. Len(r) : SameTask(r[i], Named(old, r[i].id))
  BY <1>1, <1>2
<1>5. \A i \in 1 .. Len(r) : /\ ToSet(r[i].deps) = DepsOf(old, r[i].id) \cap Ids(old)
                             /\ DepsOf(new, r[i].id) = DepsOf(old, r[i].id) \cap Ids(old)
  <2> TAKE i \in 1 .. Len(r)
  <2>1. r[i].id \in Ids(old) /\ ToSet(r[i].deps) = DepsOf(new, r[i].id)
    BY <1>2 DEF DepsOf
  <2> QED BY <1>1, <2>1
<1>6. \A i, j \in 1 .. Len(r) : r[i].id = r[j].id => i = j
  BY DEF WalkOK, WalkOnce
<1>7. ASSUME NEW i \in 1 .. Len(r), NEW d \in DepsOf(old, r[i].id) \cap Ids(old)
      PROVE  \/ \E j \in 1 .. Len(r) : j < i /\ r[j].id = d
             \/ Needs(old, d, r[i].id)
  <2>1. d \in DepsOf(new, r[i].id)
    BY <1>5
  <2>2. \/ \E j \in 1 .. Len(r) : j < i /\ r[j].id = d
        \/ Needs(new, d, r[i].id)
    BY <2>1 DEF WalkOK, WalkOrder
  <2> QED BY <1>1, <2>2
<1> QED BY <1>2, <1>3, <1>4, <1>5, <1>6, <1>7 DEF Sorted

\* The walk before the first visit, as it should be.
StartOf(tasks) == [todo |-> Enter([i \in DOMAIN tasks |-> tasks[i].id]), stack |-> {}, result |-> <<>>]

LEMMA StartIsOK ==
  ASSUME NEW tasks \in Seq(Task)
  PROVE  /\ StartOf(tasks) \in Walks(tasks)
         /\ WalkOK(tasks, StartOf(tasks))
         /\ Len(StartOf(tasks).todo) = Len(tasks)
         /\ ToEnter(tasks, StartOf(tasks)) = Ids(tasks)
<1> DEFINE todo == [i \in 1 .. Len(tasks) |-> [id |-> tasks[i].id, does |-> "enter"]]
<1>1. Len(tasks) \in Nat /\ DOMAIN tasks = 1 .. Len(tasks)
  OBVIOUS
<1>2. \A i \in 1 .. Len(tasks) : tasks[i].id \in Ids(tasks)
  BY <1>1 DEF Ids
<1>3. Enter([i \in DOMAIN tasks |-> tasks[i].id]) = todo
  BY <1>1 DEF Enter
<1>4. todo \in Seq([id : Ids(tasks), does : {"enter", "leave"}]) /\ Len(todo) = Len(tasks)
  BY <1>1, <1>2
<1>5. \A i \in 1 .. Len(tasks) : todo[i].id = tasks[i].id /\ todo[i].does = "enter"
  OBVIOUS
<1> HIDE DEF todo
<1>6. PICK w : w = StartOf(tasks)
  OBVIOUS
<1>7. w = [todo |-> todo, stack |-> {}, result |-> <<>>] /\ w.todo = todo /\ w.stack = {} /\ w.result = <<>>
  BY <1>3, <1>6 DEF StartOf
<1>8. Len(w.result) = 0 /\ Ids(w.result) = {} /\ w.result \in Seq(Task)
  BY <1>7 DEF Ids
<1>9. w \in Walks(tasks)
  BY <1>4, <1>7, <1>8 DEF Walks
<1>10. WalkTypes(tasks, w) /\ WalkOnce(w) /\ WalkOrder(tasks, w)
  BY <1>4, <1>7, <1>8 DEF WalkTypes, WalkOnce, WalkOrder
<1>11. \A b \in 1 .. Len(w.todo) : w.todo[b].does # "leave"
  BY <1>4, <1>5, <1>7
<1>12. WalkStack(w) /\ WalkPath(tasks, w) /\ WalkDeps(tasks, w)
  BY <1>7, <1>11 DEF WalkStack, WalkPath, WalkDeps
<1>13. WalkAll(tasks, w)
  <2> SUFFICES ASSUME NEW x \in Ids(tasks) PROVE \E a \in 1 .. Len(w.todo) : w.todo[a].id = x
    BY DEF WalkAll
  <2>1. PICK i \in 1 .. Len(tasks) : tasks[i].id = x
    BY <1>1 DEF Ids
  <2> QED BY <1>4, <1>5, <1>7, <2>1
<1>14. ToEnter(tasks, w) = Ids(tasks)
  BY <1>7, <1>8 DEF ToEnter
<1> QED BY <1>4, <1>6, <1>7, <1>9, <1>10, <1>12, <1>13, <1>14 DEF WalkOK

\* The most dependencies a task has.
Most(tasks) == Max({0} \cup {Len(tasks[i].deps) : i \in DOMAIN tasks})

LEMMA MostIsMost ==
  ASSUME NEW tasks \in Seq(Task)
  PROVE  Most(tasks) \in Nat /\ \A x \in Ids(tasks) : Len(Named(tasks, x).deps) <= Most(tasks)
<1> DEFINE S == 1 .. Len(tasks)
           g == [i \in S |-> Len(tasks[i].deps)]
<1>1. Len(tasks) \in Nat /\ DOMAIN tasks = S
  OBVIOUS
<1>2. \A i \in S : Len(tasks[i].deps) \in Nat
  <2> TAKE i \in S
  <2>1. tasks[i] \in Task
    BY <1>1
  <2>2. tasks[i].deps \in Seq(Nat)
    BY <2>1 DEF Task
  <2> QED BY <2>2
<1>3. g \in [S -> Nat] /\ IsFiniteSet(S)
  <2>1. IsFiniteSet(S)
    BY <1>1, FS_Interval
  <2> QED BY <1>2, <2>1
<1>4. {Len(tasks[i].deps) : i \in DOMAIN tasks} = {g[i] : i \in S}
  BY <1>1
<1>5. \A i \in S : g[i] = Len(tasks[i].deps)
  OBVIOUS
<1> HIDE DEF S, g
<1>6. PICK most : most = Max({0} \cup {g[i] : i \in S})
  OBVIOUS
<1>7. most \in {0} \cup {g[i] : i \in S} /\ \A i \in S : g[i] <= most
  BY <1>3, <1>6, LargestValue
<1>8. Most(tasks) = most
  BY <1>4, <1>6 DEF Most
<1>9. most \in Nat
  BY <1>3, <1>7
<1>10. \A x \in Ids(tasks) : \E i \in S : Named(tasks, x) = tasks[i]
  BY <1>1, NamedIsThere
<1> QED BY <1>5, <1>7, <1>8, <1>9, <1>10

\* What topoSort returns is sorted: each of the tasks once, after those it
\* depends on, but for cycles.
THEOREM TopoSortSorts ==
  ASSUME NEW tasks \in Seq(Task)
  PROVE  Sorted(TopoSort(tasks), tasks)
<1>1. PICK sane : sane = RelinkDependencies(tasks)
  OBVIOUS
<1>2. Relinked(sane, tasks)
  BY <1>1, RelinkRelinks
<1>3. sane \in Seq(Task) /\ Closed(sane)
  BY <1>2, RelinkedIsAlike DEF Relinked
<1>4. PICK most \in Nat : most = Most(sane)
  BY <1>3, MostIsMost
<1>5. \A x \in Ids(sane) : Len(Named(sane, x).deps) <= most
  BY <1>3, <1>4, MostIsMost
<1>6. PICK len \in Nat : len = Len(sane)
  BY <1>3
<1>7. PICK calls \in Nat : calls = len * (most + 2)
  OBVIOUS
<1>8. Calls(sane) = calls
  BY <1>4, <1>6, <1>7 DEF Calls, Most
<1> DEFINE S == {w \in Walks(sane) : WalkOK(sane, w)}
           F == [w \in S |-> Visit(sane, w)]
           Rule(f) == f = [n \in 0 .. calls |-> IF n = 0 THEN StartOf(sane) ELSE Visit(sane, f[n - 1])]
<1>9. F \in [S -> S] /\ StartOf(sane) \in S
  <2>1. \A w \in S : Visit(sane, w) \in S
    BY <1>3, <1>5, VisitKeepsWalk
  <2> QED BY <1>3, <2>1, StartIsOK
<1>10. \E f : Rule(f)
  <2>1. PICK S1, F1, x : S1 = S /\ F1 = F /\ x = StartOf(sane)
    OBVIOUS
  <2>2. F1 \in [S1 -> S1] /\ x \in S1 /\ \A w \in S1 : F1[w] = Visit(sane, w)
    BY <1>9, <2>1
  <2> HIDE DEF F, S, Rule
  <2>25. \E f : Iterates(f, S1, F1, x, calls)
    BY <2>2, Iterated
  <2>3. PICK f : f \in [0 .. calls -> S1] /\ f[0] = x /\ \A n \in 1 .. calls : f[n] = F1[f[n - 1]]
    BY <2>25 DEF Iterates
  <2>4. \A n \in 0 .. calls : n = 0 \/ (n \in 1 .. calls /\ n - 1 \in 0 .. calls)
    OBVIOUS
  <2>5. \A n \in 1 .. calls : f[n] = Visit(sane, f[n - 1])
    BY <2>2, <2>3, <2>4
  <2>6. \A n \in 0 .. calls : f[n] = IF n = 0 THEN StartOf(sane) ELSE Visit(sane, f[n - 1])
    BY <2>1, <2>3, <2>4, <2>5
  <2>7. f = [n \in 0 .. calls |-> IF n = 0 THEN StartOf(sane) ELSE Visit(sane, f[n - 1])]
    BY <2>3, <2>6
  <2> QED BY <2>7 DEF Rule
<1>11. PICK walk : walk = CHOOSE f : Rule(f)
  OBVIOUS
<1>12. \A n \in 0 .. calls : walk[n] = IF n = 0 THEN StartOf(sane) ELSE Visit(sane, walk[n - 1])
  <2>1. Rule(walk)
    BY <1>10, <1>11
  <2> QED BY <2>1
<1>13. TopoSort(tasks) = walk[calls].result
  BY <1>1, <1>8, <1>11 DEF TopoSort, StartOf
<1> DEFINE OK(n) == /\ walk[n] \in Walks(sane) /\ WalkOK(sane, walk[n])
                    /\ Len(walk[n].todo) = 0 \/ WalkLeft(sane, most, walk[n]) <= calls - n
<1>14. OK(0)
  <2>1. walk[0] = StartOf(sane)
    BY <1>12
  <2>2. walk[0] \in Walks(sane) /\ WalkOK(sane, walk[0]) /\ Len(walk[0].todo) = len /\ ToEnter(sane, walk[0]) = Ids(sane)
    BY <1>3, <1>6, <2>1, StartIsOK
  <2>3. PICK c \in Nat : c = Cardinality(Ids(sane)) /\ c <= len
    BY <1>3, <1>6, IdsAreFinite
  <2>4. WalkLeft(sane, most, walk[0]) = len + (most + 1) * c
    BY <2>2, <2>3 DEF WalkLeft
  <2>5. len + (most + 1) * c <= calls
    <3>1. PICK e \in Nat : len = c + e
      <4>1. len - c \in Nat /\ len = c + (len - c)
        BY <2>3
      <4> QED BY <4>1
    <3>2. (most + 1) * e \in Nat
      OBVIOUS
    <3>3. (most + 1) * (c + e) = (most + 1) * c + (most + 1) * e
      OBVIOUS
    <3>4. (c + e) * (most + 2) = (most + 1) * (c + e) + (c + e)
      OBVIOUS
    <3> QED BY <1>7, <3>1, <3>2, <3>3, <3>4
  <2> QED BY <2>2, <2>4, <2>5
<1>15. ASSUME NEW n \in 1 .. calls, OK(n - 1) PROVE OK(n)
  <2>1. PICK w \in Walks(sane) : w = walk[n - 1] /\ WalkOK(sane, w)
    BY <1>15
  <2>2. walk[n] = Visit(sane, w)
    BY <1>12, <2>1
  <2>3. /\ walk[n] \in Walks(sane) /\ WalkOK(sane, walk[n])
        /\ Len(w.todo) = 0 => walk[n] = w
        /\ Len(w.todo) > 0 => WalkLeft(sane, most, walk[n]) < WalkLeft(sane, most, w)
        /\ WalkLeft(sane, most, w) \in Nat
    BY <1>3, <1>5, <2>1, <2>2, VisitKeepsWalk
  <2>4. WalkLeft(sane, most, walk[n]) \in Nat
    BY <1>3, <1>5, <2>3, VisitKeepsWalk
  <2>5. Len(w.todo) \in Nat
    BY DEF Walks
  <2>6. CASE Len(w.todo) = 0
    BY <2>3, <2>6
  <2>7. CASE Len(w.todo) > 0
    <3>1. WalkLeft(sane, most, w) <= calls - (n - 1)
      BY <1>15, <2>1, <2>7
    <3>2. WalkLeft(sane, most, walk[n]) <= calls - n
      BY <2>3, <2>4, <2>7, <3>1
    <3> QED BY <2>3, <3>2
  <2> QED BY <2>5, <2>6, <2>7
<1> HIDE DEF OK
<1>16. OK(calls)
  <2> DEFINE Wrong == {n \in 0 .. calls : ~OK(n)}
  <2>0. calls \in 0 .. calls
    OBVIOUS
  <2> SUFFICES ASSUME Wrong # {} PROVE FALSE
    BY <2>0
  <2>1. PICK n \in Wrong : \A k \in Wrong : n <= k
    <3>1. Wrong \subseteq Nat
      OBVIOUS
    <3> HIDE DEF Wrong
    <3> QED BY <3>1, Least
  <2>2. n # 0 /\ n \in 1 .. calls /\ n - 1 \in 0 .. calls /\ n - 1 \notin Wrong
    BY <1>14, <2>1
  <2>3. OK(n - 1)
    BY <2>2
  <2> QED BY <1>15, <2>1, <2>2, <2>3
<1>17. PICK last \in Walks(sane) : last = walk[calls] /\ WalkOK(sane, last)
  BY <1>16 DEF OK
<1>18. Len(last.todo) = 0
  <2>1. Len(last.todo) \in Nat /\ Len(last.todo) <= WalkLeft(sane, most, last) /\ WalkLeft(sane, most, last) \in Nat
    <3>1. Len(last.todo) \in Nat
      BY DEF Walks
    <3>2. Len(last.todo) <= WalkLeft(sane, most, last) /\ WalkLeft(sane, most, last) \in Nat
      BY <1>3, <1>5, <1>17, VisitKeepsWalk
    <3> QED BY <3>1, <3>2
  <2>2. Len(last.todo) = 0 \/ WalkLeft(sane, most, last) <= calls - calls
    BY <1>16, <1>17 DEF OK
  <2>3. calls - calls = 0
    OBVIOUS
  <2> QED BY <2>1, <2>2, <2>3
<1> QED BY <1>2, <1>13, <1>17, <1>18, WalkedIsSorted

----------------------------------------------------------------------------
(* What holds of a plan, from its tasks to those the provider gave.        *)

\* All the tasks given, each with its place.
GivenOK(gv) ==
  /\ gv \in Seq(Seq(Task)) /\ gv # <<>>
  /\ \A s \in 1 .. Len(gv) : \A i \in 1 .. Len(gv[s]) : gv[s][i].from = <<s, i>>

\* A task that neither logs in nor out.
Plain(t) == ~ IsLogin(t) /\ ~ IsLogout(t)

\* t reads like u and came from the same place.
Alike(t, u) == t.title = u.title /\ t.expected = u.expected /\ t.kind = u.kind /\ t.from = u.from

\* t was given, or it is the task the planner makes up.
GivenAs(t, gv) ==
  \/ Alike(t, FallbackAuthTask)
  \/ \E s \in 1 .. Len(gv) : \E i \in 1 .. Len(gv[s]) : Alike(t, gv[s][i])

PrerequisitesFirst(plan, gv) ==
  \A i \in 1 .. Len(plan) : plan[i].from # <<0, 0>> /\ ~ IsLogout(plan[i]) =>
    \A p \in Prerequisites(gv[plan[i].from[1]], plan[i].from[2]) :
      \E j \in 1 .. i - 1 : Key(plan[j]) = Key(p) /\ Plain(plan[j])

Tidy(plan, gv) ==
  /\ plan \in Seq(Task)
  /\ \A i \in 1 .. Len(plan) : GivenAs(plan[i], gv)
  /\ PrerequisitesFirst(plan, gv)

Distinct(plan) == \A i, j \in 1 .. Len(plan) : plan[i].id = plan[j].id => i = j

\* A dependency on a task of the plan comes earlier, but for cycles.
Linked(plan, tasks) ==
  \A i \in 1 .. Len(plan) : \A d \in ToSet(plan[i].deps) : d \in Ids(plan) =>
    \/ \E j \in 1 .. i - 1 : plan[j].id = d
    \/ Needs(tasks, plan[i].id, d) /\ Needs(tasks, d, plan[i].id)

Covers(plan, tasks) ==
  \A x \in Ids(tasks) : Plain(Named(tasks, x)) =>
    \E i \in 1 .. Len(plan) : Key(plan[i]) = Key(Named(tasks, x)) /\ Plain(plan[i])

HasLogout(plan) == \E i \in 1 .. Len(plan) : IsLogout(plan[i])
LogsOut(plan, tasks) == (\E x \in Ids(tasks) : IsLogout(Named(tasks, x))) => HasLogout(plan)

\* A part that has all the plain tasks keeps the prerequisites, the order and
\* what is covered.
LEMMA PartIsTidy ==
  ASSUME NEW gv, NEW plan, Tidy(plan, gv), NEW places, NEW c \in Seq(Task), Keeps(c, plan, places),
         places \subseteq 1 .. Len(plan), \A i \in 1 .. Len(plan) : Plain(plan[i]) => i \in places
  PROVE  Tidy(c, gv)
<1>0. plan \in Seq(Task) /\ Len(plan) \in Nat /\ Len(c) \in Nat
  BY DEF Tidy
<1>1. PICK at \in [1 .. Len(c) -> places] :
        /\ \A n \in 1 .. Len(c) : c[n] = plan[at[n]]
        /\ \A i \in places : \E n \in 1 .. Len(c) : at[n] = i
        /\ \A n, k \in 1 .. Len(c) : n < k => at[n] < at[k]
  BY DEF Keeps
<1>2. \A n \in 1 .. Len(c) : at[n] \in 1 .. Len(plan) /\ at[n] \in places
  BY <1>1
<1>3. \A n \in 1 .. Len(c) : GivenAs(c[n], gv)
  BY <1>1, <1>2 DEF Tidy
<1>4. ASSUME NEW n \in 1 .. Len(c), c[n].from # <<0, 0>>, ~ IsLogout(c[n]),
             NEW p \in Prerequisites(gv[c[n].from[1]], c[n].from[2])
      PROVE  \E k \in 1 .. n - 1 : Key(c[k]) = Key(p) /\ Plain(c[k])
  <2>1. PICK i \in 1 .. Len(plan) : i = at[n] /\ c[n] = plan[i]
    BY <1>1, <1>2
  <2>2. PICK j \in 1 .. i - 1 : Key(plan[j]) = Key(p) /\ Plain(plan[j])
    BY <1>4, <2>1 DEF Tidy, PrerequisitesFirst
  <2>3. j \in 1 .. Len(plan) /\ j < i
    BY <1>0
  <2>4. j \in places
    BY <2>2, <2>3
  <2>5. PICK k \in 1 .. Len(c) : at[k] = j
    BY <1>1, <2>4
  <2>6. k < n
    <3>1. ~ n < k /\ k # n
      BY <1>1, <2>1, <2>3, <2>5
    <3> QED BY <1>0, <3>1
  <2>7. k \in 1 .. n - 1 /\ c[k] = plan[j]
    BY <1>0, <1>1, <2>5, <2>6
  <2> QED BY <2>2, <2>7
<1>5. PrerequisitesFirst(c, gv)
  BY <1>4 DEF PrerequisitesFirst
<1> QED BY <1>3, <1>5 DEF Tidy

LEMMA PartIsLinked ==
  ASSUME NEW tasks, NEW plan \in Seq(Task), Distinct(plan), Linked(plan, tasks),
         NEW places, NEW c \in Seq(Task), Keeps(c, plan, places), places \subseteq 1 .. Len(plan)
  PROVE  Distinct(c) /\ Linked(c, tasks)
<1>0. Len(plan) \in Nat /\ Len(c) \in Nat /\ DOMAIN c = 1 .. Len(c) /\ DOMAIN plan = 1 .. Len(plan)
  OBVIOUS
<1>1. PICK at \in [1 .. Len(c) -> places] :
        /\ \A n \in 1 .. Len(c) : c[n] = plan[at[n]]
        /\ \A n, k \in 1 .. Len(c) : n < k => at[n] < at[k]
  BY DEF Keeps
<1>2. \A n \in 1 .. Len(c) : at[n] \in 1 .. Len(plan)
  BY <1>1
<1>3. \A n, k \in 1 .. Len(c) : at[n] = at[k] => n = k
  BY <1>0, <1>1, <1>2
<1>4. Distinct(c)
  <2> SUFFICES ASSUME NEW n \in 1 .. Len(c), NEW k \in 1 .. Len(c), c[n].id = c[k].id PROVE n = k
    BY DEF Distinct
  <2>1. at[n] = at[k]
    BY <1>1, <1>2 DEF Distinct
  <2> QED BY <1>3, <2>1
<1>5. ASSUME NEW n \in 1 .. Len(c), NEW d \in ToSet(c[n].deps), d \in Ids(c)
      PROVE  \/ \E k \in 1 .. n - 1 : c[k].id = d
             \/ Needs(tasks, c[n].id, d) /\ Needs(tasks, d, c[n].id)
  <2>1. PICK i \in 1 .. Len(plan) : i = at[n] /\ c[n] = plan[i]
    BY <1>1, <1>2
  <2>2. PICK k \in 1 .. Len(c) : c[k].id = d
    BY <1>0, <1>5 DEF Ids
  <2>3. PICK l \in 1 .. Len(plan) : l = at[k] /\ plan[l].id = d
    BY <1>1, <1>2, <2>2
  <2>4. d \in Ids(plan)
    BY <1>0, <2>3 DEF Ids
  <2>5. CASE \E j \in 1 .. i - 1 : plan[j].id = d
    <3>1. PICK j \in 1 .. i - 1 : plan[j].id = d
      BY <2>5
    <3>2. j \in 1 .. Len(plan) /\ j < i
      BY <1>0
    <3>3. j = l
      BY <2>3, <3>1, <3>2 DEF Distinct
    <3>4. ~ n < k /\ n # k
      BY <1>1, <2>1, <2>3, <3>2, <3>3
    <3>5. k \in 1 .. n - 1
      BY <1>0, <3>4
    <3> QED BY <2>2, <3>5
  <2>6. CASE Needs(tasks, plan[i].id, d) /\ Needs(tasks, d, plan[i].id)
    BY <2>1, <2>6
  <2> QED BY <1>5, <2>1, <2>4, <2>5, <2>6 DEF Linked
<1> QED BY <1>4, <1>5 DEF Linked

LEMMA PartCovers ==
  ASSUME NEW tasks, NEW plan, Covers(plan, tasks), NEW places, NEW c, Keeps(c, plan, places),
         \A i \in 1 .. Len(plan) : Plain(plan[i]) => i \in places
  PROVE  Covers(c, tasks)
<1>1. PICK at \in [1 .. Len(c) -> places] :
        /\ \A n \in 1 .. Len(c) : c[n] = plan[at[n]]
        /\ \A i \in places : \E n \in 1 .. Len(c) : at[n] = i
  BY DEF Keeps
<1> SUFFICES ASSUME NEW x \in Ids(tasks), Plain(Named(tasks, x))
             PROVE  \E n \in 1 .. Len(c) : Key(c[n]) = Key(Named(tasks, x)) /\ Plain(c[n])
  BY DEF Covers
<1>2. PICK i \in 1 .. Len(plan) : Key(plan[i]) = Key(Named(tasks, x)) /\ Plain(plan[i])
  BY DEF Covers
<1>3. PICK n \in 1 .. Len(c) : at[n] = i
  BY <1>1, <1>2
<1> QED BY <1>1, <1>2, <1>3

\* The first tasks of a plan are a plan.
LEMMA StartIsTidy ==
  ASSUME NEW gv, NEW plan, Tidy(plan, gv), NEW n \in Nat
  PROVE  Tidy(FirstOf(plan, n), gv)
<1>1. plan \in Seq(Task) /\ Len(plan) \in Nat
  BY DEF Tidy
<1>2. PICK c \in Seq(Task) : c = FirstOf(plan, n) /\ Len(c) <= Len(plan) /\ \A i \in 1 .. Len(c) : c[i] = plan[i]
  <2>1. /\ FirstOf(plan, n) \in Seq(Task)
        /\ Len(FirstOf(plan, n)) = IF Len(plan) < n THEN Len(plan) ELSE n
        /\ \A i \in 1 .. Len(FirstOf(plan, n)) : FirstOf(plan, n)[i] = plan[i]
    BY <1>1, FirstOnes
  <2> QED BY <1>1, <2>1
<1>3. Len(c) \in Nat /\ \A i \in 1 .. Len(c) : i \in 1 .. Len(plan) /\ \A j \in 1 .. i - 1 : j \in 1 .. Len(c)
  BY <1>1, <1>2
<1>4. \A i \in 1 .. Len(c) : GivenAs(c[i], gv)
  BY <1>2, <1>3 DEF Tidy
<1>5. PrerequisitesFirst(c, gv)
  <2> SUFFICES ASSUME NEW i \in 1 .. Len(c), c[i].from # <<0, 0>>, ~ IsLogout(c[i]),
                      NEW p \in Prerequisites(gv[c[i].from[1]], c[i].from[2])
               PROVE  \E j \in 1 .. i - 1 : Key(c[j]) = Key(p) /\ Plain(c[j])
    BY DEF PrerequisitesFirst
  <2>1. i \in 1 .. Len(plan) /\ c[i] = plan[i]
    BY <1>2, <1>3
  <2>2. PICK j \in 1 .. i - 1 : Key(plan[j]) = Key(p) /\ Plain(plan[j])
    BY <2>1 DEF Tidy, PrerequisitesFirst
  <2>3. c[j] = plan[j]
    BY <1>2, <1>3
  <2> QED BY <2>2, <2>3
<1> QED BY <1>2, <1>4, <1>5 DEF Tidy

\* What tells the tasks apart is kept by a part.
LEMMA PartIsDistinct ==
  ASSUME NEW plan, Distinct(plan), NEW places, NEW c, Keeps(c, plan, places), places \subseteq 1 .. Len(plan)
  PROVE  Distinct(c)
<1>1. PICK at \in [1 .. Len(c) -> places] :
        /\ \A n \in 1 .. Len(c) : c[n] = plan[at[n]]
        /\ \A n, k \in 1 .. Len(c) : n < k => at[n] < at[k]
  BY DEF Keeps
<1>2. \A n \in 1 .. Len(c) : at[n] \in 1 .. Len(plan) /\ Len(c) \in Nat
  BY <1>1 DEF Keeps
<1> SUFFICES ASSUME NEW n \in 1 .. Len(c), NEW k \in 1 .. Len(c), c[n].id = c[k].id PROVE n = k
  BY DEF Distinct
<1>3. at[n] = at[k]
  BY <1>1, <1>2 DEF Distinct
<1>4. ~ n < k /\ ~ k < n
  BY <1>1, <1>2, <1>3
<1> QED BY <1>2, <1>4

\* The same tasks under other ids, or with other dependencies.
Rewritten(new, old) ==
  new \in Seq(Task) /\ Len(new) = Len(old) /\ \A i \in 1 .. Len(old) : Alike(new[i], old[i])

LEMMA AlikeIsAsGood ==
  ASSUME NEW t, NEW u, Alike(t, u)
  PROVE  /\ Key(t) = Key(u) /\ t.from = u.from
         /\ IsLogin(t) <=> IsLogin(u)
         /\ IsLogout(t) <=> IsLogout(u)
         /\ Plain(t) <=> Plain(u)
         /\ \A gv : GivenAs(u, gv) => GivenAs(t, gv)
BY DEF Alike, Key, IsLogin, IsLogout, Plain, GivenAs

LEMMA RewrittenIsTidy ==
  ASSUME NEW gv, NEW old, Tidy(old, gv), NEW new, Rewritten(new, old)
  PROVE  Tidy(new, gv)
<1>1. Len(old) \in Nat /\ Len(new) = Len(old) /\ new \in Seq(Task)
  BY DEF Tidy, Rewritten
<1>2. \A i \in 1 .. Len(old) : /\ Key(new[i]) = Key(old[i]) /\ new[i].from = old[i].from
                               /\ IsLogout(new[i]) <=> IsLogout(old[i])
                               /\ Plain(new[i]) <=> Plain(old[i])
                               /\ GivenAs(new[i], gv)
  BY AlikeIsAsGood DEF Rewritten, Tidy
<1>3. PrerequisitesFirst(new, gv)
  <2> SUFFICES ASSUME NEW i \in 1 .. Len(new), new[i].from # <<0, 0>>, ~ IsLogout(new[i]),
                      NEW p \in Prerequisites(gv[new[i].from[1]], new[i].from[2])
               PROVE  \E j \in 1 .. i - 1 : Key(new[j]) = Key(p) /\ Plain(new[j])
    BY DEF PrerequisitesFirst
  <2>1. PICK j \in 1 .. i - 1 : Key(old[j]) = Key(p) /\ Plain(old[j])
    BY <1>1, <1>2 DEF Tidy, PrerequisitesFirst
  <2>2. j \in 1 .. Len(old)
    BY <1>1
  <2> QED BY <1>2, <2>1, <2>2
<1> QED BY <1>1, <1>2, <1>3 DEF Tidy

LEMMA RewrittenCovers ==
  ASSUME NEW old, NEW new, Rewritten(new, old)
  PROVE  /\ \A tasks : Covers(old, tasks) => Covers(new, tasks)
         /\ HasLogout(old) => HasLogout(new)
<1>1. \A i \in 1 .. Len(old) : /\ Key(new[i]) = Key(old[i])
                               /\ IsLogout(new[i]) <=> IsLogout(old[i])
                               /\ Plain(new[i]) <=> Plain(old[i])
  BY AlikeIsAsGood DEF Rewritten
<1>2. Len(new) = Len(old)
  BY DEF Rewritten
<1> QED BY <1>1, <1>2 DEF Covers, HasLogout

LEMMA RelinkRewrites ==
  ASSUME NEW tasks \in Seq(Task)
  PROVE  /\ Rewritten(RelinkDependencies(tasks), tasks)
         /\ Distinct(tasks) => Distinct(RelinkDependencies(tasks))
         /\ \A i \in 1 .. Len(tasks) : /\ RelinkDependencies(tasks)[i].id = tasks[i].id
                                       /\ ToSet(RelinkDependencies(tasks)[i].deps) = ToSet(tasks[i].deps) \cap Ids(tasks)
         /\ Ids(RelinkDependencies(tasks)) = Ids(tasks)
         /\ \A g : Distinct(tasks) /\ Linked(tasks, g) => Linked(RelinkDependencies(tasks), g)
<1>1. PICK new : new = RelinkDependencies(tasks)
  OBVIOUS
<1>2. Relinked(new, tasks)
  BY <1>1, RelinkRelinks
<1>3. /\ new \in Seq(Task) /\ Len(new) = Len(tasks) /\ Len(tasks) \in Nat
      /\ \A i \in 1 .. Len(tasks) : /\ new[i].id = tasks[i].id /\ Alike(new[i], tasks[i])
                                    /\ ToSet(new[i].deps) = ToSet(tasks[i].deps) \cap Ids(tasks)
  BY <1>2 DEF Relinked, SameTask, Alike
<1>4. Ids(new) = Ids(tasks)
  BY <1>2, RelinkedIsAlike
<1>5. Rewritten(new, tasks) /\ (Distinct(tasks) => Distinct(new))
  BY <1>3 DEF Rewritten, Distinct
<1>6. ASSUME NEW g, Linked(tasks, g) PROVE Linked(new, g)
  <2> SUFFICES ASSUME NEW i \in 1 .. Len(new), NEW d \in ToSet(new[i].deps), d \in Ids(new)
               PROVE  \/ \E j \in 1 .. i - 1 : new[j].id = d
                      \/ Needs(g, new[i].id, d) /\ Needs(g, d, new[i].id)
    BY DEF Linked
  <2>1. i \in 1 .. Len(tasks) /\ d \in ToSet(tasks[i].deps) /\ d \in Ids(tasks) /\ new[i].id = tasks[i].id
    BY <1>3, <1>4
  <2>2. CASE \E j \in 1 .. i - 1 : tasks[j].id = d
    <3>1. PICK j \in 1 .. i - 1 : tasks[j].id = d
      BY <2>2
    <3>2. j \in 1 .. Len(tasks)
      BY <1>3
    <3> QED BY <1>3, <3>1, <3>2
  <2>3. CASE Needs(g, tasks[i].id, d) /\ Needs(g, d, tasks[i].id)
    BY <2>1, <2>3
  <2> QED BY <1>6, <2>1, <2>2, <2>3 DEF Linked
<1> QED BY <1>1, <1>3, <1>4, <1>5, <1>6

\* ids 1, 2, ..., each task depending on the one before.
LEMMA SequentialRewrites ==
  ASSUME NEW tasks \in Seq(Task)
  PROVE  /\ Rewritten(Sequential(tasks), tasks)
         /\ \A i \in 1 .. Len(tasks) : Sequential(tasks)[i].id = i
         /\ \A i \in 1 .. Len(tasks) : \A d \in ToSet(Sequential(tasks)[i].deps) : i > 1 /\ d = i - 1
<1> DEFINE With(i) == [tasks[i] EXCEPT !.id = i, !.deps = IF i = 1 THEN <<>> ELSE <<i - 1>>]
<1>1. Len(tasks) \in Nat /\ DOMAIN tasks = 1 .. Len(tasks) /\ \A i \in 1 .. Len(tasks) : tasks[i] \in Task
  OBVIOUS
<1>2. ASSUME NEW i \in 1 .. Len(tasks)
      PROVE  /\ With(i) \in Task /\ Alike(With(i), tasks[i]) /\ With(i).id = i
             /\ \A d \in ToSet(With(i).deps) : i > 1 /\ d = i - 1
  <2>1. PICK t \in Task : t = tasks[i]
    BY <1>1
  <2>2. PICK l : l = IF i = 1 THEN <<>> ELSE <<i - 1>>
    OBVIOUS
  <2>3. i \in Nat /\ (i = 1 \/ i - 1 \in Nat)
    BY <1>1
  <2>4. l \in Seq(Nat)
    BY <2>2, <2>3
  <2>5. \A d \in ToSet(l) : i > 1 /\ d = i - 1
    <3>1. CASE i = 1
      BY <2>2, <3>1 DEF ToSet
    <3>2. CASE i # 1
      <4>1. i > 1 /\ l = <<i - 1>> /\ DOMAIN l = {1} /\ l[1] = i - 1
        BY <1>1, <2>2, <3>2
      <4> QED BY <4>1 DEF ToSet
    <3> QED BY <3>1, <3>2
  <2>6. /\ [t EXCEPT !.id = i, !.deps = l] \in Task
        /\ Alike([t EXCEPT !.id = i, !.deps = l], t)
        /\ [t EXCEPT !.id = i, !.deps = l].id = i /\ [t EXCEPT !.id = i, !.deps = l].deps = l
    BY <2>3, <2>4 DEF Task, Alike
  <2>7. With(i) = [t EXCEPT !.id = i, !.deps = l]
    BY <2>1, <2>2
  <2> QED BY <2>1, <2>5, <2>6, <2>7
<1>3. PICK new : new = Sequential(tasks)
  OBVIOUS
<1>4. new = [i \in 1 .. Len(tasks) |-> With(i)]
  BY <1>1, <1>3 DEF Sequential
<1> HIDE DEF With
<1>5. new \in Seq(Task) /\ Len(new) = Len(tasks) /\ \A i \in 1 .. Len(tasks) : new[i] = With(i)
  BY <1>1, <1>2, <1>4
<1> QED BY <1>2, <1>3, <1>5 DEF Rewritten

\* A logout after the others disturbs nothing.
LEMMA EndIsTidy ==
  ASSUME NEW gv, NEW body, Tidy(body, gv), NEW end \in Seq(Task),
         \A i \in 1 .. Len(end) : IsLogout(end[i]) /\ GivenAs(end[i], gv)
  PROVE  /\ Tidy(body \o end, gv)
         /\ \A tasks : Covers(body, tasks) => Covers(body \o end, tasks)
<1>1. PICK b \in Nat : b = Len(body)
  BY DEF Tidy
<1>2. PICK e \in Nat : e = Len(end)
  OBVIOUS
<1>3. PICK all \in Seq(Task) : /\ all = body \o end /\ Len(all) = b + e
                               /\ \A i \in 1 .. b : all[i] = body[i]
                               /\ \A i \in 1 .. e : all[b + i] = end[i]
  <2>1. body \in Seq(Task)
    BY DEF Tidy
  <2>2. body \o end \in Seq(Task) /\ Len(body \o end) = b + e
    BY <1>1, <1>2, <2>1
  <2>3. \A i \in 1 .. b : (body \o end)[i] = body[i]
    BY <1>1, <1>2, <2>1
  <2>4. \A i \in 1 .. e : (body \o end)[b + i] = end[i]
    BY <1>1, <1>2, <2>1
  <2> QED BY <2>2, <2>3, <2>4
<1>4. \A i \in 1 .. b + e : i \in 1 .. b \/ (i - b \in 1 .. e /\ b + (i - b) = i)
  OBVIOUS
<1>5. ASSUME NEW i \in 1 .. b + e PROVE (i \in 1 .. b /\ all[i] = body[i]) \/ (IsLogout(all[i]) /\ GivenAs(all[i], gv))
  <2>1. CASE i \in 1 .. b
    BY <1>3, <2>1
  <2>2. CASE i - b \in 1 .. e /\ b + (i - b) = i
    <3>1. all[i] = end[i - b]
      BY <1>3, <2>2
    <3> QED BY <1>2, <2>2, <3>1
  <2> QED BY <1>4, <2>1, <2>2
<1>6. \A i \in 1 .. Len(all) : GivenAs(all[i], gv)
  BY <1>1, <1>3, <1>5 DEF Tidy
<1>7. PrerequisitesFirst(all, gv)
  <2> SUFFICES ASSUME NEW i \in 1 .. Len(all), all[i].from # <<0, 0>>, ~ IsLogout(all[i]),
                      NEW p \in Prerequisites(gv[all[i].from[1]], all[i].from[2])
               PROVE  \E j \in 1 .. i - 1 : Key(all[j]) = Key(p) /\ Plain(all[j])
    BY DEF PrerequisitesFirst
  <2>1. i \in 1 .. b /\ all[i] = body[i]
    BY <1>3, <1>5
  <2>2. PICK j \in 1 .. i - 1 : Key(body[j]) = Key(p) /\ Plain(body[j])
    BY <1>1, <2>1 DEF Tidy, PrerequisitesFirst
  <2>3. all[j] = body[j]
    BY <1>3, <2>1
  <2> QED BY <2>2, <2>3
<1>8. ASSUME NEW tasks, Covers(body, tasks) PROVE Covers(all, tasks)
  <2>1. \A i \in 1 .. Len(body) : i \in 1 .. Len(all) /\ all[i] = body[i]
    BY <1>1, <1>3
  <2> QED BY <1>8, <2>1 DEF Covers
<1> QED BY <1>3, <1>6, <1>7, <1>8 DEF Tidy

LEMMA SortedIsTidy ==
  ASSUME NEW gv, GivenOK(gv), NEW s \in 1 .. Len(gv), NEW r, Sorted(r, gv[s])
  PROVE  /\ Tidy(r, gv) /\ Distinct(r) /\ Linked(r, gv[s])
         /\ Covers(r, gv[s]) /\ LogsOut(r, gv[s])
<1>1. PICK old \in Seq(Task) : old = gv[s]
  BY DEF GivenOK
<1>2. /\ r \in Seq(Task) /\ DOMAIN r = 1 .. Len(r) /\ Len(r) \in Nat
      /\ DOMAIN old = 1 .. Len(old) /\ Len(old) \in Nat
  BY <1>1 DEF Sorted
<1>3. /\ Ids(r) = Ids(old)
      /\ \A i \in 1 .. Len(r) : SameTask(r[i], Named(old, r[i].id))
      /\ \A i \in 1 .. Len(r) : ToSet(r[i].deps) = DepsOf(old, r[i].id) \cap Ids(old)
      /\ Distinct(r)
      /\ \A i \in 1 .. Len(r) : \A d \in DepsOf(old, r[i].id) \cap Ids(old) :
           \/ \E j \in 1 .. Len(r) : j < i /\ r[j].id = d
           \/ Needs(old, d, r[i].id)
  BY <1>1 DEF Sorted, Distinct
<1>4. \A i \in 1 .. Len(r) : r[i].id \in Ids(old) /\ Alike(r[i], Named(old, r[i].id))
  BY <1>2, <1>3 DEF Ids, SameTask, Alike
<1>5. \A x \in Ids(old) : \E k \in 1 .. Len(old) : /\ Named(old, x) = old[k] /\ old[k].id = x
                                                   /\ old[k].from = <<s, k>>
  <2> TAKE x \in Ids(old)
  <2>1. PICK k \in 1 .. Len(old) : Named(old, x) = old[k] /\ Named(old, x).id = x
    BY <1>2, NamedIsThere
  <2> QED BY <1>1, <2>1 DEF GivenOK
<1>6. \A i \in 1 .. Len(r) : GivenAs(r[i], gv)
  <2> TAKE i \in 1 .. Len(r)
  <2>1. PICK k \in 1 .. Len(old) : Named(old, r[i].id) = old[k]
    BY <1>4, <1>5
  <2>2. Alike(r[i], gv[s][k]) /\ k \in 1 .. Len(gv[s])
    BY <1>1, <1>4, <2>1
  <2> QED BY <2>2 DEF GivenAs
<1>7. PrerequisitesFirst(r, gv)
  <2> SUFFICES ASSUME NEW i \in 1 .. Len(r), NEW p \in Prerequisites(gv[r[i].from[1]], r[i].from[2])
               PROVE  \E j \in 1 .. i - 1 : Key(r[j]) = Key(p) /\ Plain(r[j])
    BY DEF PrerequisitesFirst
  <2>1. PICK x \in Ids(old) : x = r[i].id
    BY <1>4
  <2>2. PICK k \in 1 .. Len(old) : Named(old, x) = old[k] /\ old[k].id = x /\ old[k].from = <<s, k>>
    BY <1>5
  <2>3. r[i].from = <<s, k>>
    BY <1>4, <2>1, <2>2 DEF Alike
  <2>4. p \in Prerequisites(old, k)
    BY <1>1, <2>3
  <2>5. PICK d \in ToSet(old[k].deps) \cap Ids(old) : p = Named(old, d) /\ ~ Needs(old, d, x) /\ Plain(p)
    BY <2>2, <2>4 DEF Prerequisites, Plain
  <2>6. d \in DepsOf(old, r[i].id) \cap Ids(old)
    BY <2>1, <2>2, <2>5 DEF DepsOf
  <2>7. PICK j \in 1 .. Len(r) : j < i /\ r[j].id = d
    BY <1>3, <2>1, <2>5, <2>6
  <2>8. Alike(r[j], p)
    BY <1>4, <2>5, <2>7
  <2>9. j \in 1 .. i - 1 /\ Key(r[j]) = Key(p) /\ Plain(r[j])
    BY <1>2, <2>5, <2>7, <2>8, AlikeIsAsGood
  <2> QED BY <2>9
<1>8. Linked(r, old)
  <2> SUFFICES ASSUME NEW i \in 1 .. Len(r), NEW d \in ToSet(r[i].deps), d \in Ids(r)
               PROVE  \/ \E j \in 1 .. i - 1 : r[j].id = d
                      \/ Needs(old, r[i].id, d) /\ Needs(old, d, r[i].id)
    BY DEF Linked
  <2>1. PICK x \in Ids(old) : x = r[i].id
    BY <1>4
  <2>2. d \in DepsOf(old, x) \cap Ids(old)
    BY <1>3, <2>1
  <2>3. Needs(old, x, d)
    BY <2>2, DependedOnIsNeeded
  <2>4. CASE \E j \in 1 .. Len(r) : j < i /\ r[j].id = d
    <3>1. PICK j \in 1 .. Len(r) : j < i /\ r[j].id = d
      BY <2>4
    <3>2. j \in 1 .. i - 1
      BY <1>2, <3>1
    <3> QED BY <3>1, <3>2
  <2>5. CASE Needs(old, d, x)
    BY <2>1, <2>3, <2>5
  <2> QED BY <1>3, <2>1, <2>2, <2>4, <2>5
<1>9. ASSUME NEW x \in Ids(old)
      PROVE  \E i \in 1 .. Len(r) : /\ Key(r[i]) = Key(Named(old, x))
                                    /\ IsLogout(r[i]) <=> IsLogout(Named(old, x))
                                    /\ Plain(r[i]) <=> Plain(Named(old, x))
  <2>1. PICK i \in 1 .. Len(r) : r[i].id = x
    BY <1>2, <1>3 DEF Ids
  <2>2. Alike(r[i], Named(old, x))
    BY <1>4, <2>1
  <2> QED BY <2>2, AlikeIsAsGood
<1>10. Covers(r, old) /\ LogsOut(r, old)
  BY <1>9 DEF Covers, LogsOut, HasLogout
<1> QED BY <1>1, <1>2, <1>3, <1>6, <1>7, <1>8, <1>10 DEF Tidy

NoLogin(plan) == \A i \in 1 .. Len(plan) : ~ IsLogin(plan[i])
NoLogout(plan) == \A i \in 1 .. Len(plan) : ~ IsLogout(plan[i])

\* What is left without some of the tasks to log in or out.
LEMMA WithoutLogins ==
  ASSUME NEW plan \in Seq(Task)
  PROVE  \E places : /\ places \subseteq 1 .. Len(plan)
                     /\ NonLogins(plan) \in Seq(Task) /\ Keeps(NonLogins(plan), plan, places)
                     /\ \A i \in 1 .. Len(plan) : i \in places <=> ~ IsLogin(plan[i])
<1>1. DOMAIN plan = 1 .. Len(plan)
  OBVIOUS
<1>2. PICK places : places = {i \in 1 .. Len(plan) : ~ IsLogin(plan[i])}
  OBVIOUS
<1>3. places \in SUBSET DOMAIN plan /\ NonLogins(plan) = Those(plan, places)
  BY <1>1, <1>2 DEF NonLogins
<1>4. Those(plan, places) \in Seq(Task) /\ Keeps(Those(plan, places), plan, places)
  BY <1>3, ThoseAreKept
<1>5. places \subseteq 1 .. Len(plan) /\ \A i \in 1 .. Len(plan) : i \in places <=> ~ IsLogin(plan[i])
  BY <1>2
<1> QED BY <1>3, <1>4, <1>5

LEMMA WithoutLogouts ==
  ASSUME NEW plan \in Seq(Task)
  PROVE  \E places : /\ places \subseteq 1 .. Len(plan)
                     /\ NonLogouts(plan) \in Seq(Task) /\ Keeps(NonLogouts(plan), plan, places)
                     /\ \A i \in 1 .. Len(plan) : i \in places <=> ~ IsLogout(plan[i])
<1>1. DOMAIN plan = 1 .. Len(plan)
  OBVIOUS
<1>2. PICK places : places = {i \in 1 .. Len(plan) : ~ IsLogout(plan[i])}
  OBVIOUS
<1>3. places \in SUBSET DOMAIN plan /\ NonLogouts(plan) = Those(plan, places)
  BY <1>1, <1>2 DEF NonLogouts
<1>4. Those(plan, places) \in Seq(Task) /\ Keeps(Those(plan, places), plan, places)
  BY <1>3, ThoseAreKept
<1>5. places \subseteq 1 .. Len(plan) /\ \A i \in 1 .. Len(plan) : i \in places <=> ~ IsLogout(plan[i])
  BY <1>2
<1> QED BY <1>3, <1>4, <1>5

LEMMA LoginsAreGone ==
  ASSUME NEW gv, NEW plan, Tidy(plan, gv)
  PROVE  /\ Tidy(NonLogins(plan), gv) /\ NoLogin(NonLogins(plan))
         /\ HasLogout(plan) => HasLogout(NonLogins(plan))
         /\ \A tasks : Covers(plan, tasks) => Covers(NonLogins(plan), tasks)
         /\ \A tasks : Distinct(plan) /\ Linked(plan, tasks) => Distinct(NonLogins(plan)) /\ Linked(NonLogins(plan), tasks)
         /\ NoLogout(plan) => NoLogout(NonLogins(plan))
<1>1. plan \in Seq(Task)
  BY DEF Tidy
<1>2. PICK c : c = NonLogins(plan)
  OBVIOUS
<1>3. PICK places : /\ places \subseteq 1 .. Len(plan) /\ c \in Seq(Task) /\ Keeps(c, plan, places)
                    /\ \A i \in 1 .. Len(plan) : i \in places <=> ~ IsLogin(plan[i])
  BY <1>1, <1>2, WithoutLogins
<1>4. \A i \in 1 .. Len(plan) : Plain(plan[i]) \/ IsLogout(plan[i]) => i \in places
  BY <1>3 DEF Plain, IsLogin, IsLogout
<1>5. Tidy(c, gv)
  BY <1>3, <1>4, PartIsTidy
<1>6. /\ \A n \in 1 .. Len(c) : \E i \in places : i \in 1 .. Len(plan) /\ c[n] = plan[i]
      /\ \A i \in places : \E n \in 1 .. Len(c) : c[n] = plan[i]
  <2>1. PartOf(c, plan, places)
    BY <1>3, PartIsThere
  <2> QED BY <2>1 DEF PartOf
<1>7. NoLogin(c) /\ (HasLogout(plan) => HasLogout(c)) /\ (NoLogout(plan) => NoLogout(c))
  BY <1>3, <1>4, <1>6 DEF NoLogin, HasLogout, NoLogout
<1>8. \A tasks : Covers(plan, tasks) => Covers(c, tasks)
  BY <1>3, <1>4, PartCovers
<1>9. \A tasks : Distinct(plan) /\ Linked(plan, tasks) => Distinct(c) /\ Linked(c, tasks)
  BY <1>1, <1>3, PartIsLinked
<1> QED BY <1>2, <1>5, <1>7, <1>8, <1>9

LEMMA LogoutsAreGone ==
  ASSUME NEW gv, NEW plan, Tidy(plan, gv)
  PROVE  /\ Tidy(NonLogouts(plan), gv) /\ NoLogout(NonLogouts(plan))
         /\ NoLogin(plan) => NoLogin(NonLogouts(plan))
         /\ \A tasks : Covers(plan, tasks) => Covers(NonLogouts(plan), tasks)
         /\ \A tasks : Distinct(plan) /\ Linked(plan, tasks) => Distinct(NonLogouts(plan)) /\ Linked(NonLogouts(plan), tasks)
<1>1. plan \in Seq(Task)
  BY DEF Tidy
<1>2. PICK c : c = NonLogouts(plan)
  OBVIOUS
<1>3. PICK places : /\ places \subseteq 1 .. Len(plan) /\ c \in Seq(Task) /\ Keeps(c, plan, places)
                    /\ \A i \in 1 .. Len(plan) : i \in places <=> ~ IsLogout(plan[i])
  BY <1>1, <1>2, WithoutLogouts
<1>4. \A i \in 1 .. Len(plan) : Plain(plan[i]) => i \in places
  BY <1>3 DEF Plain
<1>5. Tidy(c, gv)
  BY <1>3, <1>4, PartIsTidy
<1>6. \A n \in 1 .. Len(c) : \E i \in places : i \in 1 .. Len(plan) /\ c[n] = plan[i]
  <2>1. PartOf(c, plan, places)
    BY <1>3, PartIsThere
  <2> QED BY <2>1 DEF PartOf
<1>7. NoLogout(c) /\ (NoLogin(plan) => NoLogin(c))
  BY <1>3, <1>6 DEF NoLogin, NoLogout
<1>8. \A tasks : Covers(plan, tasks) => Covers(c, tasks)
  BY <1>3, <1>4, PartCovers
<1>9. \A tasks : Distinct(plan) /\ Linked(plan, tasks) => Distinct(c) /\ Linked(c, tasks)
  BY <1>1, <1>3, PartIsLinked
<1> QED BY <1>2, <1>5, <1>7, <1>8, <1>9

----------------------------------------------------------------------------
(* authAwareTasks, applyAuthPolicy and enforcePlanPolicy.                  *)

\* Only a plan with authentication logs out, and at its end.
LogoutAtEnd(plan) == \A i \in 1 .. Len(plan) : IsLogout(plan[i]) => auth /\ i = Len(plan)

LEMMA FallbackIsTidy ==
  ASSUME criteria \in Criteria
  PROVE  /\ FallbackAuthTask \in Task /\ FallbackAuthTask.deps = <<>>
         /\ Plain(FallbackAuthTask)
         /\ \A gv : Tidy(<<FallbackAuthTask>>, gv)
<1>1. criteria \in Seq(Texts) /\ criteria # <<>>
  BY PlannerAssumption
<1>2. criteria[1] \in Texts
  BY <1>1
<1>3. <<0, 0>> \in Nat \X Nat /\ <<>> \in Seq(Nat)
  OBVIOUS
<1>4. FallbackAuthTask \in Task
  BY <1>2, <1>3 DEF FallbackAuthTask, Task
<1>5. PICK t \in Task : t = FallbackAuthTask
  BY <1>4
<1>6. t.from = <<0, 0>> /\ t.deps = <<>> /\ Plain(t)
  BY <1>5 DEF FallbackAuthTask, Plain, IsLogin, IsLogout
<1>7. Len(<<t>>) = 1 /\ <<t>>[1] = t /\ <<t>> \in Seq(Task)
  OBVIOUS
<1>8. \A gv : GivenAs(t, gv)
  BY <1>5 DEF GivenAs, Alike
<1>9. ASSUME NEW gv PROVE Tidy(<<t>>, gv)
  <2>1. \A i \in 1 .. Len(<<t>>) : <<t>>[i] = t
    BY <1>7
  <2> QED BY <1>6, <1>7, <1>8, <2>1 DEF Tidy, PrerequisitesFirst
<1> QED BY <1>4, <1>5, <1>6, <1>9

OrFallback(plan) == IF plan = <<>> THEN <<FallbackAuthTask>> ELSE plan

LEMMA FallbackIsAsGood ==
  ASSUME criteria \in Criteria, NEW gv, NEW plan, Tidy(plan, gv)
  PROVE  /\ Tidy(OrFallback(plan), gv) /\ Len(OrFallback(plan)) \in Nat /\ Len(OrFallback(plan)) > 0
         /\ Distinct(plan) => Distinct(OrFallback(plan))
         /\ NoLogin(plan) => NoLogin(OrFallback(plan))
         /\ NoLogout(plan) => NoLogout(OrFallback(plan))
         /\ LogoutAtEnd(plan) => LogoutAtEnd(OrFallback(plan))
         /\ HasLogout(plan) => HasLogout(OrFallback(plan))
         /\ \A tasks : Covers(plan, tasks) => Covers(OrFallback(plan), tasks)
         /\ \A tasks : Linked(plan, tasks) => Linked(OrFallback(plan), tasks)
<1>1. CASE plan # <<>>
  <2>1. OrFallback(plan) = plan /\ Len(plan) \in Nat /\ Len(plan) > 0
    <3>1. plan \in Seq(Task)
      BY DEF Tidy
    <3> QED BY <1>1, <3>1 DEF OrFallback
  <2> QED BY <2>1
<1>2. CASE plan = <<>>
  <2>1. PICK t \in Task : t = FallbackAuthTask /\ t.deps = <<>> /\ Plain(t) /\ \A g : Tidy(<<t>>, g)
    BY FallbackIsTidy
  <2>2. OrFallback(plan) = <<t>> /\ Len(<<t>>) = 1 /\ <<t>>[1] = t /\ Len(plan) = 0
    BY <1>2, <2>1 DEF OrFallback
  <2>3. \A i \in 1 .. Len(<<t>>) : <<t>>[i] = t /\ i = 1
    BY <2>2
  <2>4. \A i : i \notin 1 .. Len(plan)
    BY <2>2
  <2>5. Distinct(<<t>>) /\ NoLogin(<<t>>) /\ NoLogout(<<t>>)
    BY <2>1, <2>3 DEF Distinct, NoLogin, NoLogout, Plain
  <2>6. LogoutAtEnd(<<t>>)
    BY <2>5 DEF LogoutAtEnd, NoLogout
  <2>7. ~ HasLogout(plan)
    BY <2>4 DEF HasLogout
  <2>8. \A tasks : Covers(plan, tasks) => Covers(<<t>>, tasks)
    BY <2>4 DEF Covers
  <2>9. \A tasks : Linked(<<t>>, tasks)
    <3>1. \A d : d \notin ToSet(t.deps)
      BY <2>1 DEF ToSet
    <3> QED BY <2>3, <3>1 DEF Linked
  <2> QED BY <2>1, <2>2, <2>5, <2>6, <2>7, <2>8, <2>9
<1> QED BY <1>1, <1>2

AuthOK(plan, gv, s) ==
  /\ Tidy(plan, gv) /\ Distinct(plan) /\ NoLogin(plan)
  /\ Linked(plan, gv[s]) /\ Covers(plan, gv[s])
  /\ auth => LogsOut(plan, gv[s])
  /\ ~ auth => NoLogout(plan)

\* What normalizeScenarioTasks makes of a scenario.
LEMMA AwareIsGood ==
  ASSUME criteria \in Criteria, auth \in BOOLEAN,
         NEW gv, GivenOK(gv), NEW s \in 1 .. Len(gv), NEW r, Sorted(r, gv[s])
  PROVE  AuthOK(AuthAwareTasks(r), gv, s)
<1>1. /\ Tidy(r, gv) /\ Distinct(r) /\ Linked(r, gv[s])
      /\ Covers(r, gv[s]) /\ LogsOut(r, gv[s])
  BY SortedIsTidy
<1>2. PICK mid : mid = NonLogins(r)
  OBVIOUS
<1>3. /\ Tidy(mid, gv) /\ Distinct(mid) /\ Linked(mid, gv[s])
      /\ Covers(mid, gv[s]) /\ LogsOut(mid, gv[s]) /\ NoLogin(mid)
  BY <1>1, <1>2, LoginsAreGone DEF LogsOut
<1>4. PICK kept : kept = IF auth THEN mid ELSE NonLogouts(mid)
  OBVIOUS
<1>5. /\ Tidy(kept, gv) /\ Distinct(kept) /\ Linked(kept, gv[s]) /\ Covers(kept, gv[s]) /\ NoLogin(kept)
      /\ auth => LogsOut(kept, gv[s])
      /\ ~ auth => NoLogout(kept)
  <2>1. CASE auth
    BY <1>3, <1>4, <2>1
  <2>2. CASE ~ auth
    <3>1. kept = NonLogouts(mid)
      BY <1>4, <2>2
    <3>2. /\ Tidy(kept, gv) /\ Distinct(kept) /\ Linked(kept, gv[s]) /\ Covers(kept, gv[s])
          /\ NoLogin(kept) /\ NoLogout(kept)
      BY <1>3, <3>1, LogoutsAreGone
    <3> QED BY <2>2, <3>2
  <2> QED BY <2>1, <2>2
<1>6. PICK new : new = RelinkDependencies(kept)
  OBVIOUS
<1>7. kept \in Seq(Task)
  BY <1>5 DEF Tidy
<1>8. Rewritten(new, kept) /\ Distinct(new) /\ Linked(new, gv[s])
  BY <1>5, <1>6, <1>7, RelinkRewrites
<1>9. Tidy(new, gv)
  BY <1>5, <1>8, RewrittenIsTidy
<1>10. Covers(new, gv[s]) /\ (HasLogout(kept) => HasLogout(new))
  BY <1>5, <1>8, RewrittenCovers
<1>11. NoLogin(new) /\ (NoLogout(kept) => NoLogout(new))
  BY <1>5, <1>8, AlikeIsAsGood DEF Rewritten, NoLogin, NoLogout
<1>12. AuthOK(new, gv, s)
  BY <1>5, <1>8, <1>9, <1>10, <1>11 DEF AuthOK, LogsOut
<1>13. AuthAwareTasks(r) = IF auth /\ kept = <<>> THEN <<FallbackAuthTask>> ELSE new
  BY <1>2, <1>4, <1>6 DEF AuthAwareTasks
<1>14. CASE auth /\ kept = <<>>
  <2>1. AuthAwareTasks(r) = OrFallback(kept)
    BY <1>13, <1>14 DEF OrFallback
  <2>2. /\ Tidy(OrFallback(kept), gv) /\ Distinct(OrFallback(kept)) /\ NoLogin(OrFallback(kept))
        /\ Covers(OrFallback(kept), gv[s]) /\ Linked(OrFallback(kept), gv[s])
        /\ HasLogout(kept) => HasLogout(OrFallback(kept))
    BY <1>5, FallbackIsAsGood
  <2> QED BY <1>5, <1>14, <2>1, <2>2 DEF AuthOK, LogsOut
<1> QED BY <1>12, <1>13, <1>14

\* The first logout of a plan, if there is one.
LEMMA LogoutFound ==
  ASSUME NEW plan \in Seq(Task)
  PROVE  /\ Logout(plan) \in Seq(Task) /\ (Len(Logout(plan)) = 0 \/ Len(Logout(plan)) = 1)
         /\ \A i \in 1 .. Len(Logout(plan)) : /\ IsLogout(Logout(plan)[i])
                                              /\ \E j \in 1 .. Len(plan) : Logout(plan)[i] = plan[j]
         /\ HasLogout(plan) => Len(Logout(plan)) = 1
<1>1. DOMAIN plan = 1 .. Len(plan) /\ Len(plan) \in Nat
  OBVIOUS
<1>2. PICK places : places = {i \in 1 .. Len(plan) : IsLogout(plan[i])}
  OBVIOUS
<1>3. places \in SUBSET DOMAIN plan /\ Logout(plan) = FirstOf(Those(plan, places), 1)
  BY <1>1, <1>2 DEF Logout
<1>4. PICK all : all = Those(plan, places)
  OBVIOUS
<1>5. all \in Seq(Task) /\ Keeps(all, plan, places)
  BY <1>3, <1>4, ThoseAreKept
<1>6. PartOf(all, plan, places)
  BY <1>1, <1>3, <1>5, PartIsThere
<1>7. PICK first : first = FirstOf(all, 1)
  OBVIOUS
<1>8. /\ first \in Seq(Task) /\ Len(first) = IF Len(all) < 1 THEN Len(all) ELSE 1
      /\ \A i \in 1 .. Len(first) : first[i] = all[i]
  BY <1>5, <1>7, FirstOnes
<1>9. Len(all) \in Nat
  BY <1>5
<1>10. ASSUME NEW i \in 1 .. Len(first) PROVE IsLogout(first[i]) /\ \E j \in 1 .. Len(plan) : first[i] = plan[j]
  <2>1. i \in 1 .. Len(all) /\ first[i] = all[i]
    BY <1>8, <1>9
  <2>2. PICK j \in places : j \in 1 .. Len(plan) /\ all[i] = plan[j]
    BY <1>6, <2>1 DEF PartOf
  <2> QED BY <1>2, <2>1, <2>2
<1>11. HasLogout(plan) => Len(first) = 1
  <2> SUFFICES ASSUME NEW j \in 1 .. Len(plan), IsLogout(plan[j]) PROVE Len(first) = 1
    BY DEF HasLogout
  <2>1. PICK n \in 1 .. Len(all) : all[n] = plan[j]
    BY <1>2, <1>6 DEF PartOf
  <2> QED BY <1>8, <1>9, <2>1
<1>12. Len(first) = 0 \/ Len(first) = 1
  BY <1>8, <1>9
<1> QED BY <1>3, <1>4, <1>7, <1>8, <1>10, <1>11, <1>12

\* A body without logouts and at most one logout after it.
LEMMA LogoutAfterBody ==
  ASSUME NEW gv, NEW body, Tidy(body, gv), NoLogin(body), NoLogout(body),
         NEW plan, Tidy(plan, gv), auth \/ NoLogout(plan)
  PROVE  /\ Tidy(body \o Logout(plan), gv) /\ NoLogin(body \o Logout(plan))
         /\ LogoutAtEnd(body \o Logout(plan))
         /\ HasLogout(plan) => HasLogout(body \o Logout(plan))
         /\ \A tasks : Covers(body, tasks) => Covers(body \o Logout(plan), tasks)
         /\ Len(body \o Logout(plan)) = Len(body) + Len(Logout(plan))
         /\ NoLogout(plan) => body \o Logout(plan) = body
<1>1. PICK end : end = Logout(plan)
  OBVIOUS
<1>2. plan \in Seq(Task) /\ body \in Seq(Task)
  BY DEF Tidy
<1>3. /\ end \in Seq(Task) /\ (Len(end) = 0 \/ Len(end) = 1)
      /\ \A i \in 1 .. Len(end) : IsLogout(end[i]) /\ \E j \in 1 .. Len(plan) : end[i] = plan[j]
      /\ HasLogout(plan) => Len(end) = 1
  BY <1>1, <1>2, LogoutFound
<1>4. \A i \in 1 .. Len(end) : IsLogout(end[i]) /\ GivenAs(end[i], gv)
  BY <1>3 DEF Tidy
<1>5. PICK all : all = body \o end
  OBVIOUS
<1>6. Tidy(all, gv) /\ \A tasks : Covers(body, tasks) => Covers(all, tasks)
  BY <1>3, <1>4, <1>5, EndIsTidy
<1>7. PICK b \in Nat : b = Len(body)
  BY <1>2
<1>8. Len(all) = b + Len(end) /\ \A i \in 1 .. b : all[i] = body[i]
  BY <1>2, <1>3, <1>5, <1>7
<1>9. Len(end) = 1 => all[b + 1] = end[1]
  <2>1. end \in Seq(Task) /\ body \in Seq(Task)
    BY <1>2, <1>3
  <2>2. \A i \in 1 .. Len(end) : (body \o end)[b + i] = end[i]
    BY <1>7, <2>1
  <2>3. Len(end) = 1 => 1 \in 1 .. Len(end)
    OBVIOUS
  <2>4. Len(end) = 1 => (body \o end)[b + 1] = end[1]
    BY <2>2, <2>3
  <2> QED BY <1>5, <2>4
<1>10. \A i \in 1 .. Len(all) : i \in 1 .. b \/ (Len(end) = 1 /\ i = b + 1 /\ i = Len(all))
  BY <1>3, <1>8
<1>11. Len(end) = 1 => IsLogout(all[b + 1]) /\ b + 1 \in 1 .. Len(all) /\ auth
  <2> SUFFICES ASSUME Len(end) = 1 PROVE IsLogout(all[b + 1]) /\ b + 1 \in 1 .. Len(all) /\ auth
    OBVIOUS
  <2>1. IsLogout(end[1]) /\ \E j \in 1 .. Len(plan) : end[1] = plan[j]
    BY <1>3
  <2>2. auth
    BY <2>1 DEF NoLogout
  <2>3. b + 1 \in 1 .. Len(all)
    BY <1>8
  <2> QED BY <1>9, <2>1, <2>2, <2>3
<1>12. \A i \in 1 .. b : ~ IsLogin(all[i]) /\ ~ IsLogout(all[i])
  BY <1>7, <1>8 DEF NoLogin, NoLogout
<1>13. NoLogin(all)
  <2> SUFFICES ASSUME NEW i \in 1 .. Len(all) PROVE ~ IsLogin(all[i])
    BY DEF NoLogin
  <2>1. IsLogout(all[i]) => ~ IsLogin(all[i])
    BY DEF IsLogin, IsLogout
  <2> QED BY <1>10, <1>11, <1>12, <2>1
<1>14. LogoutAtEnd(all)
  BY <1>10, <1>11, <1>12 DEF LogoutAtEnd
<1>15. HasLogout(plan) => HasLogout(all)
  BY <1>3, <1>11 DEF HasLogout
<1>16. NoLogout(plan) => all = body
  <2> SUFFICES ASSUME NoLogout(plan) PROVE all = body
    OBVIOUS
  <2>1. Len(end) = 0
    <3> SUFFICES ASSUME Len(end) = 1 PROVE FALSE
      BY <1>3
    <3>1. IsLogout(end[1]) /\ \E j \in 1 .. Len(plan) : end[1] = plan[j]
      BY <1>3
    <3> QED BY <3>1 DEF NoLogout
  <2>2. end = <<>>
    BY <1>3, <2>1
  <2> QED BY <1>2, <1>5, <2>2
<1> QED BY <1>1, <1>5, <1>6, <1>7, <1>8, <1>13, <1>14, <1>15, <1>16

LEMMA SequentialIsGood ==
  ASSUME NEW gv, NEW plan, Tidy(plan, gv)
  PROVE  /\ Tidy(Sequential(plan), gv) /\ Distinct(Sequential(plan)) /\ Len(Sequential(plan)) = Len(plan)
         /\ NoLogin(plan) => NoLogin(Sequential(plan))
         /\ LogoutAtEnd(plan) => LogoutAtEnd(Sequential(plan))
         /\ HasLogout(plan) => HasLogout(Sequential(plan))
         /\ \A tasks : Covers(plan, tasks) => Covers(Sequential(plan), tasks)
<1>1. PICK new : new = Sequential(plan)
  OBVIOUS
<1>2. plan \in Seq(Task)
  BY DEF Tidy
<1>3. Rewritten(new, plan) /\ \A i \in 1 .. Len(plan) : new[i].id = i
  BY <1>1, <1>2, SequentialRewrites
<1>4. Len(new) = Len(plan)
  BY <1>3 DEF Rewritten
<1>5. \A i \in 1 .. Len(plan) : (IsLogin(new[i]) <=> IsLogin(plan[i])) /\ (IsLogout(new[i]) <=> IsLogout(plan[i]))
  BY <1>3, AlikeIsAsGood DEF Rewritten
<1>6. /\ NoLogin(plan) => NoLogin(new)
      /\ LogoutAtEnd(plan) => LogoutAtEnd(new)
      /\ Distinct(new)
  BY <1>3, <1>4, <1>5 DEF NoLogin, LogoutAtEnd, Distinct
<1>7. Tidy(new, gv)
  BY <1>3, RewrittenIsTidy
<1>8. (HasLogout(plan) => HasLogout(new)) /\ \A tasks : Covers(plan, tasks) => Covers(new, tasks)
  BY <1>3, RewrittenCovers
<1> QED BY <1>1, <1>4, <1>6, <1>7, <1>8

\* What applyAuthPolicy makes of the scenarios.
MergedOK(plan, gv) ==
  /\ Tidy(plan, gv) /\ Distinct(plan) /\ NoLogin(plan) /\ LogoutAtEnd(plan)
  /\ \A s \in 1 .. Len(gv) : Covers(plan, gv[s]) /\ LogsOut(plan, gv[s])

LEMMA JoinedIsTidy ==
  ASSUME NEW gv, NEW plans \in Seq(Seq(Task)), Len(plans) = Len(gv),
         \A s \in 1 .. Len(gv) : AuthOK(plans[s], gv, s)
  PROVE  /\ Tidy(FlattenSeq(plans), gv)
         /\ \A s \in 1 .. Len(gv) : /\ Covers(FlattenSeq(plans), gv[s])
                                    /\ HasLogout(plans[s]) => HasLogout(FlattenSeq(plans))
<1>1. PICK flat \in Seq(Task) : flat = FlattenSeq(plans) /\ Joins(flat, plans, Len(plans))
  BY FlattenJoins
<1>2. Len(flat) \in Nat /\ Len(plans) \in Nat
  BY <1>1
<1>3. \A s \in 1 .. Len(plans) : Tidy(plans[s], gv) /\ Covers(plans[s], gv[s]) /\ Len(plans[s]) \in Nat
  <2> TAKE s \in 1 .. Len(plans)
  <2>1. plans[s] \in Seq(Task)
    OBVIOUS
  <2> QED BY <2>1 DEF AuthOK
<1>4. \A s \in 1 .. Len(plans) : \A i \in 1 .. Len(plans[s]) : \E n \in 1 .. Len(flat) : flat[n] = plans[s][i]
  BY <1>1 DEF Joins
<1>5. \A n \in 1 .. Len(flat) : GivenAs(flat[n], gv)
  <2> TAKE n \in 1 .. Len(flat)
  <2>1. PICK s \in 1 .. Len(plans) : \E i \in 1 .. Len(plans[s]) : flat[n] = plans[s][i]
    BY <1>1 DEF Joins
  <2> QED BY <1>3, <2>1 DEF Tidy
<1>6. PrerequisitesFirst(flat, gv)
  <2> SUFFICES ASSUME NEW n \in 1 .. Len(flat), flat[n].from # <<0, 0>>, ~ IsLogout(flat[n]),
                      NEW p \in Prerequisites(gv[flat[n].from[1]], flat[n].from[2])
               PROVE  \E k \in 1 .. n - 1 : Key(flat[k]) = Key(p) /\ Plain(flat[k])
    BY DEF PrerequisitesFirst
  <2>0. PICK s \in 1 .. Len(plans) : \E i \in 1 .. Len(plans[s]) :
          flat[n] = plans[s][i] /\ \A j \in 1 .. i - 1 : \E k \in 1 .. n - 1 : flat[k] = plans[s][j]
    BY <1>1 DEF Joins
  <2>1. PICK i \in 1 .. Len(plans[s]) :
          flat[n] = plans[s][i] /\ \A j \in 1 .. i - 1 : \E k \in 1 .. n - 1 : flat[k] = plans[s][j]
    BY <2>0
  <2>2. PICK j \in 1 .. i - 1 : Key(plans[s][j]) = Key(p) /\ Plain(plans[s][j])
    <3>1. PICK plan : plan = plans[s]
      OBVIOUS
    <3>2. PrerequisitesFirst(plan, gv) /\ i \in 1 .. Len(plan)
      BY <1>3, <3>1 DEF Tidy
    <3>3. plan[i].from # <<0, 0>> /\ ~ IsLogout(plan[i]) /\ p \in Prerequisites(gv[plan[i].from[1]], plan[i].from[2])
      BY <2>1, <3>1
    <3>4. \E j \in 1 .. i - 1 : Key(plan[j]) = Key(p) /\ Plain(plan[j])
      BY <3>2, <3>3 DEF PrerequisitesFirst
    <3> QED BY <3>1, <3>4
  <2>3. PICK k \in 1 .. n - 1 : flat[k] = plans[s][j]
    BY <2>1, <2>2
  <2> QED BY <2>2, <2>3
<1>7. ASSUME NEW s \in 1 .. Len(gv) PROVE Covers(flat, gv[s])
  <2> SUFFICES ASSUME NEW x \in Ids(gv[s]), Plain(Named(gv[s], x))
               PROVE  \E n \in 1 .. Len(flat) : Key(flat[n]) = Key(Named(gv[s], x)) /\ Plain(flat[n])
    BY DEF Covers
  <2>1. PICK i \in 1 .. Len(plans[s]) : Key(plans[s][i]) = Key(Named(gv[s], x)) /\ Plain(plans[s][i])
    BY <1>3 DEF Covers
  <2>2. PICK n \in 1 .. Len(flat) : flat[n] = plans[s][i]
    BY <1>4
  <2> QED BY <2>1, <2>2
<1>8. \A s \in 1 .. Len(gv) : HasLogout(plans[s]) => HasLogout(flat)
  BY <1>4 DEF HasLogout
<1> QED BY <1>1, <1>5, <1>6, <1>7, <1>8 DEF Tidy

LEMMA MergedIsGood ==
  ASSUME criteria \in Criteria, auth, NEW gv, NEW plans \in Seq(Seq(Task)), Len(plans) = Len(gv),
         \A s \in 1 .. Len(gv) : AuthOK(plans[s], gv, s)
  PROVE  /\ AuthenticatedPlan(plans) \in Seq(Seq(Task))
         /\ Len(AuthenticatedPlan(plans)) = 1 /\ MergedOK(AuthenticatedPlan(plans)[1], gv)
<1>1. PICK flat : flat = FlattenSeq(plans)
  OBVIOUS
<1>2. /\ Tidy(flat, gv)
      /\ \A s \in 1 .. Len(gv) : Covers(flat, gv[s]) /\ (HasLogout(plans[s]) => HasLogout(flat))
  BY <1>1, JoinedIsTidy
<1>3. PICK tasks : tasks = NonLogins(flat)
  OBVIOUS
<1>4. /\ Tidy(tasks, gv) /\ NoLogin(tasks)
      /\ \A s \in 1 .. Len(gv) : Covers(tasks, gv[s]) /\ (HasLogout(plans[s]) => HasLogout(tasks))
  BY <1>2, <1>3, LoginsAreGone
<1>5. PICK body : body = NonLogouts(tasks)
  OBVIOUS
<1>6. Tidy(body, gv) /\ NoLogin(body) /\ NoLogout(body) /\ \A s \in 1 .. Len(gv) : Covers(body, gv[s])
  BY <1>4, <1>5, LogoutsAreGone
<1>7. PICK ordered : ordered = body \o Logout(tasks)
  OBVIOUS
<1>8. /\ Tidy(ordered, gv) /\ NoLogin(ordered) /\ LogoutAtEnd(ordered)
      /\ HasLogout(tasks) => HasLogout(ordered)
      /\ \A g : Covers(body, g) => Covers(ordered, g)
  BY <1>4, <1>6, <1>7, LogoutAfterBody
<1>9. PICK full : full = OrFallback(ordered)
  OBVIOUS
<1>10. /\ Tidy(full, gv) /\ NoLogin(full) /\ LogoutAtEnd(full)
       /\ HasLogout(ordered) => HasLogout(full)
       /\ \A g : Covers(ordered, g) => Covers(full, g)
  BY <1>8, <1>9, FallbackIsAsGood
<1>11. PICK plan : plan = Sequential(full)
  OBVIOUS
<1>12. /\ Tidy(plan, gv) /\ NoLogin(plan) /\ LogoutAtEnd(plan) /\ Distinct(plan)
       /\ HasLogout(full) => HasLogout(plan)
       /\ \A g : Covers(full, g) => Covers(plan, g)
  BY <1>10, <1>11, SequentialIsGood
<1>13. \A s \in 1 .. Len(gv) : Covers(plan, gv[s])
  BY <1>6, <1>8, <1>10, <1>12
<1>14. \A s \in 1 .. Len(gv) : LogsOut(plan, gv[s])
  <2> TAKE s \in 1 .. Len(gv)
  <2>1. LogsOut(plans[s], gv[s])
    BY DEF AuthOK
  <2>2. HasLogout(plans[s]) => HasLogout(plan)
    BY <1>4, <1>8, <1>10, <1>12
  <2> QED BY <2>1, <2>2 DEF LogsOut
<1>15. MergedOK(plan, gv)
  BY <1>12, <1>13, <1>14 DEF MergedOK
<1>16. AuthenticatedPlan(plans) = <<plan>>
  BY <1>1, <1>3, <1>5, <1>7, <1>9, <1>11 DEF AuthenticatedPlan, OrFallback
<1>17. <<plan>> \in Seq(Seq(Task)) /\ Len(<<plan>>) = 1 /\ <<plan>>[1] = plan
  BY <1>12 DEF Tidy
<1> QED BY <1>15, <1>16, <1>17

\* The places of the first tasks of those that read alike.
Firsts(plan, places) ==
  /\ places \subseteq 1 .. Len(plan)
  /\ \A i \in 1 .. Len(plan) : \E j \in places : j <= i /\ Key(plan[j]) = Key(plan[i])

LEMMA DedupeKeepsFirsts ==
  ASSUME NEW plan \in Seq(Task)
  PROVE  \E places : /\ Firsts(plan, places)
                     /\ Dedupe(plan) \in Seq(Task) /\ Keeps(Dedupe(plan), plan, places)
<1>1. DOMAIN plan = 1 .. Len(plan) /\ Len(plan) \in Nat
  OBVIOUS
<1>2. PICK places : places = {i \in 1 .. Len(plan) : \A j \in 1 .. Len(plan) : Key(plan[j]) = Key(plan[i]) => i <= j}
  OBVIOUS
<1>3. places \in SUBSET DOMAIN plan /\ Dedupe(plan) = Those(plan, places)
  BY <1>1, <1>2 DEF Dedupe
<1>4. Those(plan, places) \in Seq(Task) /\ Keeps(Those(plan, places), plan, places)
  BY <1>3, ThoseAreKept
<1>5. ASSUME NEW i \in 1 .. Len(plan) PROVE \E j \in places : j <= i /\ Key(plan[j]) = Key(plan[i])
  <2> DEFINE T == {j \in 1 .. Len(plan) : Key(plan[j]) = Key(plan[i])}
  <2>1. T \subseteq Nat /\ T # {} /\ i \in T
    OBVIOUS
  <2> HIDE DEF T
  <2>2. PICK j \in T : \A k \in T : j <= k
    BY <2>1, Least
  <2>3. j \in 1 .. Len(plan) /\ Key(plan[j]) = Key(plan[i])
    BY DEF T
  <2>4. \A k \in 1 .. Len(plan) : Key(plan[k]) = Key(plan[j]) => j <= k
    BY <2>2, <2>3 DEF T
  <2>5. j \in places
    BY <1>2, <2>3, <2>4
  <2> QED BY <2>1, <2>2, <2>3, <2>5
<1>6. Firsts(plan, places)
  BY <1>1, <1>3, <1>5 DEF Firsts
<1> QED BY <1>3, <1>4, <1>6

LEMMA DedupedIsTidy ==
  ASSUME NEW gv, NEW plan, Tidy(plan, gv), NoLogin(plan), LogoutAtEnd(plan)
  PROVE  /\ Tidy(Dedupe(plan), gv) /\ NoLogin(Dedupe(plan))
         /\ \A tasks : Covers(plan, tasks) => Covers(Dedupe(plan), tasks)
         /\ \A tasks : Distinct(plan) /\ Linked(plan, tasks) => Linked(Dedupe(plan), tasks)
         /\ Distinct(plan) => Distinct(Dedupe(plan))
         /\ NoLogout(plan) => NoLogout(Dedupe(plan))
         /\ \A i \in 1 .. Len(plan) : \E n \in 1 .. Len(Dedupe(plan)) : Key(Dedupe(plan)[n]) = Key(plan[i])
<1>1. plan \in Seq(Task) /\ Len(plan) \in Nat
  BY DEF Tidy
<1>2. PICK u : u = Dedupe(plan)
  OBVIOUS
<1>3. PICK places : Firsts(plan, places) /\ u \in Seq(Task) /\ Keeps(u, plan, places)
  BY <1>1, <1>2, DedupeKeepsFirsts
<1>4. places \subseteq 1 .. Len(plan) /\ \A i \in 1 .. Len(plan) : \E j \in places : j <= i /\ Key(plan[j]) = Key(plan[i])
  BY <1>3 DEF Firsts
<1>5. PICK at \in [1 .. Len(u) -> places] :
        /\ \A n \in 1 .. Len(u) : u[n] = plan[at[n]]
        /\ \A i \in places : \E n \in 1 .. Len(u) : at[n] = i
        /\ \A n, k \in 1 .. Len(u) : n < k => at[n] < at[k]
  BY <1>3 DEF Keeps
<1>6. Len(u) \in Nat /\ \A n \in 1 .. Len(u) : at[n] \in 1 .. Len(plan)
  <2>1. Len(u) \in Nat
    BY <1>3
  <2>2. \A n \in 1 .. Len(u) : at[n] \in places
    BY <1>5
  <2> QED BY <1>4, <2>1, <2>2
<1>7. ASSUME NEW i \in 1 .. Len(plan), Plain(plan[i])
      PROVE  \E j \in places : j <= i /\ Key(plan[j]) = Key(plan[i]) /\ Plain(plan[j])
  <2>1. PICK j \in places : j <= i /\ Key(plan[j]) = Key(plan[i])
    BY <1>4
  <2>2. j \in 1 .. Len(plan)
    BY <1>4
  <2>3. IsLogout(plan[j]) => j = i
    BY <1>1, <2>1, <2>2 DEF LogoutAtEnd
  <2>4. Plain(plan[j])
    BY <1>7, <2>2, <2>3 DEF Plain, NoLogin
  <2> QED BY <2>1, <2>4
<1>8. \A n \in 1 .. Len(u) : GivenAs(u[n], gv)
  BY <1>5, <1>6 DEF Tidy
<1>9. ASSUME NEW n \in 1 .. Len(u), u[n].from # <<0, 0>>, ~ IsLogout(u[n]),
             NEW p \in Prerequisites(gv[u[n].from[1]], u[n].from[2])
      PROVE  \E k \in 1 .. n - 1 : Key(u[k]) = Key(p) /\ Plain(u[k])
  <2>1. PICK i \in 1 .. Len(plan) : i = at[n] /\ u[n] = plan[i]
    BY <1>5, <1>6
  <2>2. PICK l \in 1 .. i - 1 : Key(plan[l]) = Key(p) /\ Plain(plan[l])
    BY <1>9, <2>1 DEF Tidy, PrerequisitesFirst
  <2>3. l \in 1 .. Len(plan) /\ l < i
    BY <1>1
  <2>4. PICK j \in places : j <= l /\ Key(plan[j]) = Key(p) /\ Plain(plan[j])
    BY <1>7, <2>2, <2>3
  <2>5. PICK k \in 1 .. Len(u) : at[k] = j /\ u[k] = plan[j]
    BY <1>5, <2>4
  <2>6. j \in 1 .. Len(plan) /\ j < i
    BY <1>1, <1>4, <2>3, <2>4
  <2>7. ~ n < k /\ k # n
    BY <1>5, <2>1, <2>5, <2>6
  <2>8. k \in 1 .. n - 1
    BY <1>6, <2>7
  <2> QED BY <2>4, <2>5, <2>8
<1>10. Tidy(u, gv)
  BY <1>3, <1>8, <1>9 DEF Tidy, PrerequisitesFirst
<1>11. NoLogin(u) /\ (NoLogout(plan) => NoLogout(u))
  BY <1>5, <1>6 DEF NoLogin, NoLogout
<1>12. \A i \in places : \E n \in 1 .. Len(u) : u[n] = plan[i]
  BY <1>5
<1>13. ASSUME NEW tasks, Covers(plan, tasks) PROVE Covers(u, tasks)
  <2> SUFFICES ASSUME NEW x \in Ids(tasks), Plain(Named(tasks, x))
               PROVE  \E n \in 1 .. Len(u) : Key(u[n]) = Key(Named(tasks, x)) /\ Plain(u[n])
    BY DEF Covers
  <2>1. PICK i \in 1 .. Len(plan) : Key(plan[i]) = Key(Named(tasks, x)) /\ Plain(plan[i])
    BY <1>13 DEF Covers
  <2>2. PICK j \in places : Key(plan[j]) = Key(plan[i]) /\ Plain(plan[j])
    BY <1>7, <2>1
  <2> QED BY <1>12, <2>1, <2>2
<1>14. \A tasks : Distinct(plan) /\ Linked(plan, tasks) => Linked(u, tasks)
  BY <1>1, <1>3, <1>4, PartIsLinked
<1>15. Distinct(plan) => Distinct(u)
  BY <1>3, <1>4, PartIsDistinct
<1>16. \A i \in 1 .. Len(plan) : \E n \in 1 .. Len(u) : Key(u[n]) = Key(plan[i])
  <2> TAKE i \in 1 .. Len(plan)
  <2>1. PICK j \in places : Key(plan[j]) = Key(plan[i])
    BY <1>4
  <2> QED BY <1>12, <2>1
<1> QED BY <1>2, <1>10, <1>11, <1>13, <1>14, <1>15, <1>16

\* Equal tasks agree on whether they log out.
Agree(gv) == \A t, u : GivenAs(t, gv) /\ GivenAs(u, gv) /\ Key(t) = Key(u) => (IsLogout(t) <=> IsLogout(u))

DependenciesFirst(plan, tasks) ==
  \A i \in DOMAIN plan : \A d \in ToSet(plan[i].deps) :
    \E j \in DOMAIN plan :
      /\ plan[j].id = d
      /\ \/ j < i
         \/ ~ auth /\ Needs(tasks, plan[i].id, d) /\ Needs(tasks, d, plan[i].id)

\* What enforcePlanPolicy makes of a scenario.
PolicedOK(new, plan, gv) ==
  /\ Tidy(new, gv) /\ Distinct(new) /\ LogoutAtEnd(new) /\ Len(new) \in 1 .. Limit
  /\ \A tasks : auth \/ Linked(plan, tasks) => DependenciesFirst(new, tasks)
  /\ \A tasks : Covers(plan, tasks) => Covers(new, tasks) \/ Len(new) = Limit
  /\ auth /\ Agree(gv) /\ HasLogout(plan) => HasLogout(new)

\* The same before the ids and the dependencies are settled.
CutOK(cut, plan, gv, lim) ==
  /\ Tidy(cut, gv) /\ NoLogin(cut) /\ LogoutAtEnd(cut) /\ Len(cut) <= lim
  /\ \A tasks : Covers(plan, tasks) => Covers(cut, tasks) \/ Len(cut) = lim
  /\ ~ auth => Distinct(cut) /\ \A tasks : Linked(plan, tasks) => Linked(cut, tasks)
  /\ Agree(gv) /\ HasLogout(plan) => HasLogout(cut)

LEMMA CutIsGood ==
  ASSUME NEW gv, NEW plan, Tidy(plan, gv), Distinct(plan), NoLogin(plan), LogoutAtEnd(plan),
         NEW unique, unique = Dedupe(plan), NEW lim \in Nat \ {0},
         NEW body, body = FirstOf(NonLogouts(unique), lim - Len(Logout(unique))),
         NEW cut, cut = body \o Logout(unique), auth \in BOOLEAN
  PROVE  CutOK(cut, plan, gv, lim)
<1>1. /\ Tidy(unique, gv) /\ NoLogin(unique) /\ Distinct(unique)
      /\ \A tasks : Covers(plan, tasks) => Covers(unique, tasks)
      /\ \A tasks : Linked(plan, tasks) => Linked(unique, tasks)
      /\ NoLogout(plan) => NoLogout(unique)
      /\ \A i \in 1 .. Len(plan) : \E n \in 1 .. Len(unique) : Key(unique[n]) = Key(plan[i])
  BY DedupedIsTidy
<1>2. unique \in Seq(Task)
  BY <1>1 DEF Tidy
<1>3. PICK n \in Nat : n = lim - Len(Logout(unique)) /\ n + Len(Logout(unique)) = lim
  <2>1. PICK l : l = Len(Logout(unique)) /\ (l = 0 \/ l = 1)
    BY <1>2, LogoutFound
  <2>2. lim - l \in Nat /\ lim - l + l = lim
    BY <2>1
  <2> QED BY <2>1, <2>2
<1>4. PICK rest : rest = NonLogouts(unique)
  OBVIOUS
<1>5. /\ Tidy(rest, gv) /\ NoLogout(rest) /\ NoLogin(rest)
      /\ \A tasks : Covers(unique, tasks) => Covers(rest, tasks)
      /\ \A tasks : Distinct(unique) /\ Linked(unique, tasks) => Distinct(rest) /\ Linked(rest, tasks)
  BY <1>1, <1>4, LogoutsAreGone
<1>6. rest \in Seq(Task) /\ Len(rest) \in Nat
  BY <1>5 DEF Tidy
<1>7. body = FirstOf(rest, n)
  BY <1>3, <1>4
<1>8. /\ body \in Seq(Task) /\ Len(body) = IF Len(rest) < n THEN Len(rest) ELSE n
      /\ \A i \in 1 .. Len(body) : body[i] = rest[i]
  BY <1>6, <1>7, FirstOnes
<1>9. Tidy(body, gv)
  BY <1>5, <1>7, StartIsTidy
<1>10. \A i \in 1 .. Len(body) : i \in 1 .. Len(rest) /\ body[i] = rest[i]
  BY <1>6, <1>8
<1>11. NoLogin(body) /\ NoLogout(body)
  BY <1>5, <1>10 DEF NoLogin, NoLogout
<1>12. ~ auth => NoLogout(unique)
  <2>1. ~ auth => NoLogout(plan)
    BY DEF LogoutAtEnd, NoLogout
  <2> QED BY <1>1, <2>1
<1>13. auth \/ NoLogout(unique)
  BY <1>12
<1>14. /\ Tidy(cut, gv) /\ NoLogin(cut) /\ LogoutAtEnd(cut)
       /\ HasLogout(unique) => HasLogout(cut)
       /\ \A tasks : Covers(body, tasks) => Covers(cut, tasks)
       /\ Len(cut) = Len(body) + Len(Logout(unique))
       /\ NoLogout(unique) => cut = body
  BY <1>1, <1>9, <1>11, <1>13, LogoutAfterBody
<1>15. Len(body) <= n /\ Len(body) \in Nat /\ (body = rest \/ Len(body) = n)
  <2>1. CASE Len(rest) < n
    <3>1. body = rest
      BY <1>6, <1>8, <2>1
    <3> QED BY <1>6, <2>1, <3>1
  <2>2. CASE ~ Len(rest) < n
    BY <1>8, <2>2
  <2> QED BY <2>1, <2>2
<1>16. Len(Logout(unique)) \in Nat
  <2>1. Len(Logout(unique)) = 0 \/ Len(Logout(unique)) = 1
    BY <1>2, LogoutFound
  <2> QED BY <2>1
<1>17. Len(cut) <= lim /\ (body = rest \/ Len(cut) = lim)
  BY <1>3, <1>14, <1>15, <1>16
<1>18. \A tasks : Covers(plan, tasks) => Covers(cut, tasks) \/ Len(cut) = lim
  BY <1>1, <1>5, <1>14, <1>17
<1>19. Agree(gv) /\ HasLogout(plan) => HasLogout(cut)
  <2> SUFFICES ASSUME Agree(gv), HasLogout(plan) PROVE HasLogout(unique)
    BY <1>14
  <2>1. PICK i \in 1 .. Len(plan) : IsLogout(plan[i])
    BY DEF HasLogout
  <2>2. PICK k \in 1 .. Len(unique) : Key(unique[k]) = Key(plan[i])
    BY <1>1
  <2>3. GivenAs(unique[k], gv) /\ GivenAs(plan[i], gv)
    BY <1>1 DEF Tidy
  <2>4. IsLogout(unique[k])
    BY <2>1, <2>2, <2>3 DEF Agree
  <2> QED BY <2>4 DEF HasLogout
<1>20. ASSUME ~ auth PROVE Distinct(cut) /\ \A tasks : Linked(plan, tasks) => Linked(cut, tasks)
  <2>1. cut = body
    BY <1>12, <1>14, <1>20
  <2>2. DOMAIN body = 1 .. Len(body) /\ DOMAIN rest = 1 .. Len(rest) /\ Len(body) <= Len(rest)
    BY <1>6, <1>8
  <2>3. Distinct(rest)
    <3>1. PICK places : places \subseteq 1 .. Len(unique) /\ rest \in Seq(Task) /\ Keeps(rest, unique, places)
      BY <1>2, <1>4, WithoutLogouts
    <3> QED BY <1>1, <1>2, <3>1, PartIsDistinct
  <2>4. Distinct(body)
    BY <1>10, <2>3 DEF Distinct
  <2>5. ASSUME NEW tasks, Linked(plan, tasks) PROVE Linked(body, tasks)
    <3>1. Linked(rest, tasks)
      BY <1>1, <1>5, <2>5
    <3> SUFFICES ASSUME NEW i \in 1 .. Len(body), NEW d \in ToSet(body[i].deps), d \in Ids(body)
                 PROVE  \/ \E j \in 1 .. i - 1 : body[j].id = d
                        \/ Needs(tasks, body[i].id, d) /\ Needs(tasks, d, body[i].id)
      BY DEF Linked
    <3>2. i \in 1 .. Len(rest) /\ body[i] = rest[i] /\ \A j \in 1 .. i - 1 : j \in 1 .. Len(body) /\ body[j] = rest[j]
      BY <1>6, <1>8, <1>10
    <3>3. d \in Ids(rest)
      BY <1>10, <2>2 DEF Ids
    <3>4. \/ \E j \in 1 .. i - 1 : rest[j].id = d
          \/ Needs(tasks, rest[i].id, d) /\ Needs(tasks, d, rest[i].id)
      BY <3>1, <3>2, <3>3 DEF Linked
    <3> QED BY <3>2, <3>4
  <2> QED BY <2>1, <2>4, <2>5
<1> QED BY <1>14, <1>17, <1>18, <1>19, <1>20 DEF CutOK

LEMMA PolicedIsGood ==
  ASSUME criteria \in Criteria, auth \in BOOLEAN, NEW gv, NEW plan,
         Tidy(plan, gv), Distinct(plan), NoLogin(plan), LogoutAtEnd(plan)
  PROVE  PolicedOK(Policed(plan), plan, gv)
<1>1. PICK unique : unique = Dedupe(plan)
  OBVIOUS
<1>2. PICK lim \in Nat \ {0} : lim = Limit
  BY PlannerAssumption DEF Limit
<1>3. PICK body : body = FirstOf(NonLogouts(unique), lim - Len(Logout(unique)))
  OBVIOUS
<1>4. PICK cut : cut = body \o Logout(unique)
  OBVIOUS
<1>5. /\ Tidy(cut, gv) /\ NoLogin(cut) /\ LogoutAtEnd(cut) /\ Len(cut) <= lim
      /\ \A tasks : Covers(plan, tasks) => Covers(cut, tasks) \/ Len(cut) = lim
      /\ ~ auth => Distinct(cut) /\ \A tasks : Linked(plan, tasks) => Linked(cut, tasks)
      /\ Agree(gv) /\ HasLogout(plan) => HasLogout(cut)
  <2>1. CutOK(cut, plan, gv, lim)
    BY <1>1, <1>3, <1>4, CutIsGood
  <2> QED BY <2>1 DEF CutOK
<1>6. PICK new : new = Policed(plan)
  OBVIOUS
<1>7. new = IF cut = <<>> THEN <<FallbackAuthTask>>
            ELSE IF auth THEN Sequential(cut) ELSE RelinkDependencies(cut)
  BY <1>1, <1>2, <1>3, <1>4, <1>6 DEF Policed
<1>8. cut \in Seq(Task) /\ Len(cut) \in Nat /\ DOMAIN cut = 1 .. Len(cut)
  BY <1>5 DEF Tidy
<1>85. cut # <<>> => Len(cut) > 0
  BY <1>8
<1>9. CASE cut = <<>>
  <2>1. new = OrFallback(cut)
    BY <1>7, <1>9 DEF OrFallback
  <2>2. /\ Tidy(new, gv) /\ LogoutAtEnd(new)
        /\ HasLogout(cut) => HasLogout(new)
        /\ \A tasks : Covers(cut, tasks) => Covers(new, tasks)
    BY <1>5, <2>1, FallbackIsAsGood
  <2>3. PICK t : t = FallbackAuthTask /\ t.deps = <<>>
    BY FallbackIsTidy
  <2>4. new = <<t>> /\ Len(new) = 1 /\ DOMAIN new = {1} /\ new[1] = t
    BY <1>7, <1>9, <2>3
  <2>5. \A tasks : DependenciesFirst(new, tasks)
    <3>1. \A i \in DOMAIN new : ToSet(new[i].deps) = {}
      BY <2>3, <2>4 DEF ToSet
    <3> QED BY <3>1 DEF DependenciesFirst
  <2>6. Distinct(new)
    BY <2>4 DEF Distinct
  <2>7. Len(new) \in 1 .. lim
    BY <2>4
  <2>8. Len(cut) # lim
    BY <1>9
  <2>9. \A tasks : Covers(plan, tasks) => Covers(new, tasks)
    BY <1>5, <2>2, <2>8
  <2>10. Agree(gv) /\ HasLogout(plan) => HasLogout(new)
    BY <1>5, <2>2
  <2>11. PolicedOK(new, plan, gv)
    BY <1>2, <2>2, <2>5, <2>6, <2>7, <2>9, <2>10 DEF PolicedOK
  <2> QED BY <1>6, <2>11
<1>10. CASE cut # <<>> /\ auth
  <2>1. new = Sequential(cut)
    BY <1>7, <1>10
  <2>2. /\ Tidy(new, gv) /\ Distinct(new) /\ Len(new) = Len(cut) /\ LogoutAtEnd(new)
        /\ HasLogout(cut) => HasLogout(new)
        /\ \A tasks : Covers(cut, tasks) => Covers(new, tasks)
    BY <1>5, <2>1, SequentialIsGood
  <2>3. /\ \A i \in 1 .. Len(cut) : new[i].id = i
        /\ \A i \in 1 .. Len(cut) : \A d \in ToSet(new[i].deps) : i > 1 /\ d = i - 1
    BY <1>8, <2>1, SequentialRewrites
  <2>4. Len(new) \in Nat /\ DOMAIN new = 1 .. Len(new)
    BY <2>2 DEF Tidy
  <2>5. ASSUME NEW i \in DOMAIN new, NEW d \in ToSet(new[i].deps)
        PROVE  \E j \in DOMAIN new : new[j].id = d /\ j < i
    <3>1. i \in 1 .. Len(cut) /\ i > 1 /\ d = i - 1
      BY <2>2, <2>3, <2>4
    <3>2. i - 1 \in 1 .. Len(cut) /\ i - 1 < i
      BY <1>8, <3>1
    <3>3. i - 1 \in DOMAIN new /\ new[i - 1].id = i - 1
      BY <2>2, <2>3, <2>4, <3>2
    <3> QED BY <3>1, <3>2, <3>3
  <2>6. \A tasks : DependenciesFirst(new, tasks)
    BY <2>5 DEF DependenciesFirst
  <2>7. Len(new) \in 1 .. lim
    <3>1. PICK l : l = Len(cut) /\ l \in Nat /\ l > 0 /\ l <= lim
      BY <1>5, <1>8, <1>85, <1>10
    <3>2. l \in 1 .. lim
      BY <3>1
    <3> QED BY <2>2, <3>1, <3>2
  <2>8. \A tasks : Covers(plan, tasks) => Covers(new, tasks) \/ Len(new) = lim
    BY <1>5, <2>2
  <2>9. Agree(gv) /\ HasLogout(plan) => HasLogout(new)
    BY <1>5, <2>2
  <2>10. PolicedOK(new, plan, gv)
    BY <1>2, <2>2, <2>6, <2>7, <2>8, <2>9 DEF PolicedOK
  <2> QED BY <1>6, <2>10
<1>11. CASE cut # <<>> /\ ~ auth
  <2>1. new = RelinkDependencies(cut)
    BY <1>7, <1>11
  <2>2. Distinct(cut) /\ \A tasks : Linked(plan, tasks) => Linked(cut, tasks)
    BY <1>5, <1>11
  <2>3. /\ Rewritten(new, cut) /\ Distinct(new) /\ Ids(new) = Ids(cut)
        /\ \A i \in 1 .. Len(cut) : new[i].id = cut[i].id /\ ToSet(new[i].deps) = ToSet(cut[i].deps) \cap Ids(cut)
        /\ \A tasks : Linked(cut, tasks) => Linked(new, tasks)
    BY <1>8, <2>1, <2>2, RelinkRewrites
  <2>4. Tidy(new, gv) /\ \A tasks : Covers(cut, tasks) => Covers(new, tasks)
    BY <1>5, <2>3, RewrittenIsTidy, RewrittenCovers
  <2>5. new \in Seq(Task) /\ Len(new) = Len(cut) /\ DOMAIN new = 1 .. Len(new)
    BY <1>8, <2>3 DEF Rewritten
  <2>6. LogoutAtEnd(new)
    <3>1. \A i \in 1 .. Len(cut) : ~ IsLogout(cut[i])
      BY <1>5, <1>11 DEF LogoutAtEnd
    <3>2. \A i \in 1 .. Len(new) : ~ IsLogout(new[i])
      BY <2>3, <2>5, <3>1, AlikeIsAsGood DEF Rewritten
    <3> QED BY <3>2 DEF LogoutAtEnd
  <2>7. ASSUME NEW tasks, Linked(plan, tasks) PROVE DependenciesFirst(new, tasks)
    <3> SUFFICES ASSUME NEW i \in DOMAIN new, NEW d \in ToSet(new[i].deps)
                 PROVE  \E j \in DOMAIN new :
                          /\ new[j].id = d
                          /\ j < i \/ (Needs(tasks, new[i].id, d) /\ Needs(tasks, d, new[i].id))
      BY <1>11 DEF DependenciesFirst
    <3>1. d \in Ids(new)
      BY <2>3, <2>5
    <3>2. PICK j \in DOMAIN new : new[j].id = d
      BY <3>1 DEF Ids
    <3>3. \/ \E k \in 1 .. i - 1 : new[k].id = d
          \/ Needs(tasks, new[i].id, d) /\ Needs(tasks, d, new[i].id)
      BY <2>2, <2>3, <2>5, <2>7, <3>1 DEF Linked
    <3>4. CASE \E k \in 1 .. i - 1 : new[k].id = d
      <4>1. PICK k \in 1 .. i - 1 : new[k].id = d
        BY <3>4
      <4>2. k \in DOMAIN new /\ k < i
        BY <1>8, <2>5
      <4> QED BY <4>1, <4>2
    <3> QED BY <3>2, <3>3, <3>4
  <2>8. Len(new) \in 1 .. lim
    <3>1. PICK l : l = Len(cut) /\ l \in Nat /\ l > 0 /\ l <= lim
      BY <1>5, <1>8, <1>85, <1>11
    <3>2. l \in 1 .. lim
      BY <3>1
    <3> QED BY <2>5, <3>1, <3>2
  <2>9. \A tasks : Covers(plan, tasks) => Covers(new, tasks) \/ Len(new) = lim
    BY <1>5, <2>4, <2>5
  <2>10. PolicedOK(new, plan, gv)
    BY <1>2, <1>11, <2>3, <2>4, <2>6, <2>7, <2>8, <2>9 DEF PolicedOK
  <2> QED BY <1>6, <2>10
<1> QED BY <1>9, <1>10, <1>11

----------------------------------------------------------------------------
(* The stages of plan(), and the theorems about it.                        *)

\* After normalizeScenarioTasks, ...
NormalizedOK ==
  /\ Len(scenarios) = Len(given)
  /\ \A s \in 1 .. Len(given) : AuthOK(scenarios[s], given, s)

\* ... after applyAuthPolicy, ...
ReadyOK ==
  /\ auth => Len(scenarios) = 1 /\ MergedOK(scenarios[1], given)
  /\ ~ auth => NormalizedOK

\* ... and after enforcePlanPolicy.
CoveredBy(plan, tasks) == Covers(plan, tasks) \/ Len(plan) = Limit

PlannedTidy == \A s \in 1 .. Len(scenarios) : Tidy(scenarios[s], given) /\ Distinct(scenarios[s])

PlannedLengths ==
  /\ Len(scenarios) = IF auth THEN 1 ELSE Len(given)
  /\ \A s \in 1 .. Len(scenarios) : Len(scenarios[s]) \in 1 .. Limit

PlannedEnds == \A s \in 1 .. Len(scenarios) : LogoutAtEnd(scenarios[s])

PlannedOrder == \A s \in 1 .. Len(scenarios) : DependenciesFirst(scenarios[s], given[s])

PlannedCovers ==
  \A g \in 1 .. Len(given) :
    /\ auth => CoveredBy(scenarios[1], given[g])
    /\ ~ auth => CoveredBy(scenarios[g], given[g])

PlannedLogouts == auth /\ Agree(given) => \A g \in 1 .. Len(given) : LogsOut(scenarios[1], given[g])

PlannedOK == PlannedTidy /\ PlannedLengths /\ PlannedEnds /\ PlannedOrder /\ PlannedCovers /\ PlannedLogouts

PlannerTypes ==
  /\ auth \in BOOLEAN /\ criteria \in Criteria
  /\ stage \in {"build", "normalize", "auth", "policy", "done"}
  /\ scenarios \in Seq(Seq(Task)) /\ given \in Seq(Seq(Task))
  /\ stage # "build" => scenarios # <<>>

PlannerInv ==
  /\ PlannerTypes
  /\ stage = "normalize" => GivenOK(scenarios)
  /\ stage \in {"auth", "policy", "done"} => GivenOK(given)
  /\ stage = "auth" => NormalizedOK
  /\ stage = "policy" => ReadyOK
  /\ stage = "done" => PlannedOK

LEMMA PlannerInvInit ==
  ASSUME PlannerInit
  PROVE  PlannerInv
BY DEF PlannerInit, PlannerInv, PlannerTypes

LEMMA PlannerInvStays ==
  ASSUME PlannerInv, UNCHANGED plannerVars
  PROVE  PlannerInv'
<1>1. auth' = auth /\ criteria' = criteria /\ stage' = stage /\ given' = given /\ scenarios' = scenarios
  BY DEF plannerVars
<1>2. PlannerTypes'
  BY <1>1 DEF PlannerInv, PlannerTypes
<1>3. stage = "auth" => NormalizedOK'
  BY <1>1 DEF PlannerInv, NormalizedOK, AuthOK, Tidy, GivenAs, FallbackAuthTask
<1>4. stage = "policy" => ReadyOK'
  BY <1>1 DEF PlannerInv, ReadyOK, NormalizedOK, AuthOK, MergedOK, Tidy, GivenAs, FallbackAuthTask, LogoutAtEnd
<1>5. stage = "done" => PlannedOK'
  <2>1. PlannedTidy => PlannedTidy'
    BY <1>1 DEF PlannedTidy, Tidy, GivenAs, FallbackAuthTask
  <2>2. PlannedLengths => PlannedLengths'
    BY <1>1 DEF PlannedLengths, Limit
  <2>3. PlannedOrder => PlannedOrder'
    <3>1. SUFFICES ASSUME PlannedOrder, NEW s \in 1 .. Len(scenarios)
          PROVE  DependenciesFirst(scenarios[s], given[s])'
      BY <1>1 DEF PlannedOrder
    <3>2. DependenciesFirst(scenarios[s], given[s])
      BY <3>1 DEF PlannedOrder
    <3>3. PICK plan, tasks : plan = scenarios[s] /\ tasks = given[s]
      OBVIOUS
    <3>4. scenarios'[s] = plan /\ given'[s] = tasks
      BY <1>1, <3>3
    <3>5. DependenciesFirst(plan, tasks)
      BY <3>2, <3>3
    <3>6. ASSUME NEW i \in DOMAIN plan, NEW d \in ToSet(plan[i].deps)
          PROVE  \E j \in DOMAIN plan :
                   /\ plan[j].id = d
                   /\ \/ j < i
                      \/ ~ auth /\ Needs(tasks, plan[i].id, d) /\ Needs(tasks, d, plan[i].id)
      BY <3>5 DEF DependenciesFirst
    <3>7. SUFFICES ASSUME NEW i \in DOMAIN scenarios'[s], NEW d \in ToSet(scenarios'[s][i].deps)
          PROVE  \E j \in DOMAIN scenarios'[s] :
                   /\ scenarios'[s][j].id = d
                   /\ \/ j < i
                      \/ ~ auth' /\ Needs(given'[s], scenarios'[s][i].id, d) /\ Needs(given'[s], d, scenarios'[s][i].id)
      BY DEF DependenciesFirst
    <3>8. i \in DOMAIN plan /\ d \in ToSet(plan[i].deps)
      BY <3>4
    <3>9. PICK j \in DOMAIN plan :
            /\ plan[j].id = d
            /\ \/ j < i
               \/ ~ auth /\ Needs(tasks, plan[i].id, d) /\ Needs(tasks, d, plan[i].id)
      BY <3>6, <3>8
    <3>10. j \in DOMAIN scenarios'[s] /\ scenarios'[s][j].id = d
      BY <3>4, <3>9
    <3>11. CASE j < i
      BY <3>10, <3>11
    <3>12. CASE ~ auth /\ Needs(tasks, plan[i].id, d) /\ Needs(tasks, d, plan[i].id)
      <4>1. ~ auth' /\ Needs(given'[s], scenarios'[s][i].id, d) /\ Needs(given'[s], d, scenarios'[s][i].id)
        BY <1>1, <3>4, <3>12
      <4> QED BY <3>10, <4>1
    <3> QED BY <3>9, <3>11, <3>12
  <2>6. PlannedEnds => PlannedEnds'
    BY <1>1 DEF PlannedEnds, LogoutAtEnd
  <2>4. PlannedCovers => PlannedCovers'
    BY <1>1 DEF PlannedCovers, CoveredBy, Limit
  <2>5. PlannedLogouts => PlannedLogouts'
    BY <1>1 DEF PlannedLogouts, Agree, GivenAs, FallbackAuthTask
  <2> QED BY <2>1, <2>2, <2>3, <2>4, <2>5, <2>6 DEF PlannerInv, PlannedOK
<1>6. (stage = "normalize" => GivenOK(scenarios)') /\ (stage \in {"auth", "policy", "done"} => GivenOK(given)')
  BY <1>1 DEF PlannerInv, GivenOK
<1> QED BY <1>1, <1>2, <1>3, <1>4, <1>5, <1>6 DEF PlannerInv

LEMMA AnswersAreGiven ==
  ASSUME NEW a \in Answers \ {<<>>}
  PROVE  GivenOK(a)
<1>1. a \in Seq(Seq(Task)) /\ a # <<>>
  BY PlannerAssumption
<1>2. DOMAIN a = 1 .. Len(a) /\ \A s \in 1 .. Len(a) : DOMAIN a[s] = 1 .. Len(a[s])
  BY <1>1
<1>3. \A s \in DOMAIN a : \A i \in DOMAIN a[s] : a[s][i].from = <<s, i>>
  BY PlannerAssumption
<1> QED BY <1>1, <1>2, <1>3 DEF GivenOK

LEMMA FallbackIsGiven ==
  ASSUME criteria \in Criteria, NEW kinds \in [DOMAIN criteria -> OutcomeKind]
  PROVE  GivenOK(Fallback(kinds))
<1>1. criteria \in Seq(Texts)
  BY PlannerAssumption
<1>2. DOMAIN criteria = 1 .. Len(criteria) /\ Len(criteria) \in Nat
  BY <1>1
<1> DEFINE With(i) == [id |-> i, title |-> criteria[i], expected |-> criteria[i], kind |-> kinds[i],
                       deps |-> IF i = 1 THEN <<>> ELSE <<i - 1>>, from |-> <<1, i>>]
<1>3. ASSUME NEW i \in 1 .. Len(criteria) PROVE With(i) \in Task /\ With(i).from = <<1, i>>
  <2>1. i \in Nat /\ criteria[i] \in Texts /\ kinds[i] \in OutcomeKind /\ <<1, i>> \in Nat \X Nat
    BY <1>1, <1>2
  <2>2. PICK l : l = IF i = 1 THEN <<>> ELSE <<i - 1>>
    OBVIOUS
  <2>3. l \in Seq(Nat)
    <3>1. i = 1 \/ i - 1 \in Nat
      BY <2>1
    <3> QED BY <2>2, <3>1
  <2>4. With(i) = [id |-> i, title |-> criteria[i], expected |-> criteria[i], kind |-> kinds[i], deps |-> l, from |-> <<1, i>>]
    BY <2>2
  <2> HIDE DEF With
  <2> QED BY <2>1, <2>3, <2>4 DEF Task
<1>4. PICK plan : plan = [i \in 1 .. Len(criteria) |-> With(i)]
  OBVIOUS
<1>5. Fallback(kinds) = <<plan>>
  BY <1>2, <1>4 DEF Fallback
<1> HIDE DEF With
<1>6. plan \in Seq(Task) /\ Len(plan) = Len(criteria) /\ \A i \in 1 .. Len(plan) : plan[i].from = <<1, i>>
  BY <1>2, <1>3, <1>4
<1>7. <<plan>> \in Seq(Seq(Task)) /\ <<plan>> # <<>> /\ Len(<<plan>>) = 1 /\ <<plan>>[1] = plan
  BY <1>6
<1>8. \A s \in 1 .. 1 : s = 1
  OBVIOUS
<1> QED BY <1>5, <1>6, <1>7, <1>8 DEF GivenOK

LEMMA CanonicalIsTask ==
  ASSUME NEW t \in Task, NEW kind, t.kind = "none" => kind \in OutcomeKind
  PROVE  Canonical(t, kind) \in Task /\ Canonical(t, kind).from = t.from
BY DEF Canonical, Task, Described, OutcomeKind

\* The tasks with the kinds of outcome that the LLM resolves.
Resolved(old, kinds) == [s \in DOMAIN old |-> [i \in DOMAIN old[s] |-> Canonical(old[s][i], kinds[<<s, i>>])]]
Resolves(kinds, old) ==
  \A s \in 1 .. Len(old) : \A i \in 1 .. Len(old[s]) : old[s][i].kind = "none" => kinds[<<s, i>>] \in OutcomeKind

LEMMA NormalizedAreGiven ==
  ASSUME NEW old, GivenOK(old), NEW kinds, Resolves(kinds, old), NEW new, new = Resolved(old, kinds)
  PROVE  GivenOK(new) /\ Len(new) = Len(old) /\ DOMAIN new = 1 .. Len(old)
<1>1. old \in Seq(Seq(Task)) /\ old # <<>> /\ DOMAIN old = 1 .. Len(old) /\ Len(old) \in Nat
  BY DEF GivenOK
<1>2. ASSUME NEW s \in 1 .. Len(old)
      PROVE  new[s] \in Seq(Task) /\ \A i \in 1 .. Len(new[s]) : new[s][i].from = <<s, i>>
  <2>1. PICK plan \in Seq(Task) : plan = old[s]
    BY <1>1
  <2>2. DOMAIN plan = 1 .. Len(plan) /\ Len(plan) \in Nat
    OBVIOUS
  <2>3. PICK c : c = [i \in 1 .. Len(plan) |-> Canonical(plan[i], kinds[<<s, i>>])]
    OBVIOUS
  <2>4. new[s] = c
    BY <1>1, <2>1, <2>2, <2>3 DEF Resolved
  <2>5. ASSUME NEW i \in 1 .. Len(plan)
        PROVE  Canonical(plan[i], kinds[<<s, i>>]) \in Task /\ Canonical(plan[i], kinds[<<s, i>>]).from = <<s, i>>
    <3>1. plan[i] \in Task /\ plan[i].from = <<s, i>> /\ (plan[i].kind = "none" => kinds[<<s, i>>] \in OutcomeKind)
      BY <2>1 DEF GivenOK, Resolves
    <3> QED BY <3>1, CanonicalIsTask
  <2>6. c \in Seq(Task) /\ Len(c) = Len(plan) /\ \A i \in 1 .. Len(c) : c[i].from = <<s, i>>
    <3>1. \A i \in 1 .. Len(plan) : c[i] \in Task /\ c[i].from = <<s, i>>
      BY <2>3, <2>5
    <3>2. c \in [1 .. Len(plan) -> Task]
      BY <2>3, <3>1
    <3>3. c \in Seq(Task) /\ Len(c) = Len(plan)
      BY <2>2, <3>2
    <3> QED BY <3>1, <3>3
  <2> QED BY <2>4, <2>6
<1>3. PICK g : g = [s \in 1 .. Len(old) |-> new[s]]
  OBVIOUS
<1>4. new = g
  BY <1>1, <1>3 DEF Resolved
<1>5. g \in Seq(Seq(Task)) /\ Len(g) = Len(old) /\ DOMAIN g = 1 .. Len(old)
  <2>1. PICK n \in Nat : n = Len(old)
    BY <1>1
  <2>2. g \in [1 .. n -> Seq(Task)]
    BY <1>2, <1>3, <2>1
  <2> QED BY <2>1, <2>2
<1>6. g # <<>>
  BY <1>1, <1>5
<1> QED BY <1>2, <1>4, <1>5, <1>6 DEF GivenOK

LEMMA BuildStep ==
  ASSUME PlannerInv, BuildScenarios
  PROVE  PlannerInv'
<1>1. GivenOK(scenarios')
  <2>1. CASE scenarios' \in Answers \ {<<>>}
    BY <2>1, AnswersAreGiven
  <2>2. CASE \E kinds \in [DOMAIN criteria -> OutcomeKind] : scenarios' = Fallback(kinds)
    BY <2>2, FallbackIsGiven DEF PlannerInv, PlannerTypes
  <2> QED BY <2>1, <2>2 DEF BuildScenarios
<1>2. stage' = "normalize" /\ auth' = auth /\ criteria' = criteria /\ given' = given
  BY DEF BuildScenarios
<1>3. PlannerTypes'
  BY <1>1, <1>2 DEF PlannerInv, PlannerTypes, GivenOK
<1>4. GivenOK(scenarios)'
  BY <1>1 DEF GivenOK
<1> QED BY <1>2, <1>3, <1>4 DEF PlannerInv

LEMMA NormalizeStep ==
  ASSUME PlannerInv, NormalizeScenarioTasks
  PROVE  PlannerInv'
<1>1. stage = "normalize" /\ stage' = "auth" /\ auth' = auth /\ criteria' = criteria
  BY DEF NormalizeScenarioTasks
<1>2. PICK old : old = scenarios /\ GivenOK(old)
  BY <1>1 DEF PlannerInv
<1>3. PICK kinds \in [Unclassified -> OutcomeKind] : given' = Resolved(old, kinds)
  BY <1>2 DEF NormalizeScenarioTasks, Resolved
<1>4. PICK gv : gv = given'
  OBVIOUS
<1>5. old \in Seq(Seq(Task)) /\ DOMAIN old = 1 .. Len(old) /\ \A s \in 1 .. Len(old) : DOMAIN old[s] = 1 .. Len(old[s])
  BY <1>2 DEF GivenOK
<1>6. Resolves(kinds, old)
  <2> SUFFICES ASSUME NEW s \in 1 .. Len(old), NEW i \in 1 .. Len(old[s]), old[s][i].kind = "none"
               PROVE  <<s, i>> \in Unclassified
    BY DEF Resolves
  <2>1. <<s, i>> \in UNION {{z} \X DOMAIN old[z] : z \in DOMAIN old}
    BY <1>5
  <2> QED BY <1>2, <2>1 DEF Unclassified
<1>7. GivenOK(gv) /\ Len(gv) = Len(old) /\ DOMAIN gv = 1 .. Len(old)
  BY <1>2, <1>3, <1>4, <1>6, NormalizedAreGiven
<1>8. PICK plans : plans = [s \in 1 .. Len(old) |-> AuthAwareTasks(TopoSort(gv[s]))]
  OBVIOUS
<1>9. scenarios' = plans
  BY <1>4, <1>7, <1>8 DEF NormalizeScenarioTasks
<1>10. auth \in BOOLEAN /\ criteria \in Criteria
  BY DEF PlannerInv, PlannerTypes
<1>11. ASSUME NEW s \in 1 .. Len(gv) PROVE AuthOK(plans[s], gv, s) /\ plans[s] \in Seq(Task)
  <2>1. gv[s] \in Seq(Task)
    BY <1>7 DEF GivenOK
  <2>2. PICK r : r = TopoSort(gv[s]) /\ Sorted(r, gv[s])
    BY <2>1, TopoSortSorts
  <2>3. AuthOK(AuthAwareTasks(r), gv, s)
    BY <1>7, <1>10, <2>2, AwareIsGood
  <2>4. plans[s] = AuthAwareTasks(r)
    BY <1>7, <1>8, <2>2
  <2> QED BY <2>3, <2>4 DEF AuthOK, Tidy
<1>12. Len(old) \in Nat /\ Len(old) > 0
  BY <1>2, <1>5 DEF GivenOK
<1>13. plans \in Seq(Seq(Task)) /\ Len(plans) = Len(gv) /\ plans # <<>>
  BY <1>7, <1>8, <1>11, <1>12
<1>14. PlannerTypes'
  BY <1>1, <1>4, <1>7, <1>9, <1>10, <1>13 DEF PlannerTypes, GivenOK
<1>15. NormalizedOK'
  BY <1>1, <1>4, <1>9, <1>11, <1>13 DEF NormalizedOK, AuthOK, Tidy, GivenAs, FallbackAuthTask
<1>16. GivenOK(given)'
  BY <1>4, <1>7 DEF GivenOK
<1> QED BY <1>1, <1>14, <1>15, <1>16 DEF PlannerInv

LEMMA AuthStep ==
  ASSUME PlannerInv, ApplyAuthPolicy
  PROVE  PlannerInv'
<1>1. stage = "auth" /\ stage' = "policy" /\ auth' = auth /\ criteria' = criteria /\ given' = given
  BY DEF ApplyAuthPolicy
<1>2. auth \in BOOLEAN /\ criteria \in Criteria /\ NormalizedOK /\ GivenOK(given) /\ PlannerTypes
  BY <1>1 DEF PlannerInv, PlannerTypes
<1>3. PICK plans : plans = scenarios' /\ plans = IF auth THEN AuthenticatedPlan(scenarios) ELSE scenarios
  BY DEF ApplyAuthPolicy
<1>4. CASE auth
  <2>1. scenarios \in Seq(Seq(Task)) /\ Len(scenarios) = Len(given) /\ \A s \in 1 .. Len(given) : AuthOK(scenarios[s], given, s)
    BY <1>2 DEF NormalizedOK, PlannerTypes
  <2>2. plans \in Seq(Seq(Task)) /\ Len(plans) = 1 /\ MergedOK(plans[1], given)
    BY <1>2, <1>3, <1>4, <2>1, MergedIsGood
  <2>3. plans # <<>>
    BY <2>2
  <2>4. PlannerTypes'
    BY <1>1, <1>2, <1>3, <2>2, <2>3 DEF PlannerTypes
  <2>5. ReadyOK'
    BY <1>1, <1>3, <1>4, <2>2 DEF ReadyOK, MergedOK, Tidy, GivenAs, FallbackAuthTask, LogoutAtEnd
  <2>6. GivenOK(given)'
    BY <1>1, <1>2 DEF GivenOK
  <2> QED BY <1>1, <2>4, <2>5, <2>6 DEF PlannerInv
<1>5. CASE ~ auth
  <2>1. scenarios' = scenarios
    BY <1>3, <1>5
  <2>2. PlannerTypes'
    BY <1>1, <1>2, <2>1 DEF PlannerTypes
  <2>3. NormalizedOK'
    BY <1>1, <1>2, <2>1 DEF NormalizedOK, AuthOK, Tidy, GivenAs, FallbackAuthTask
  <2>4. ReadyOK'
    BY <1>1, <1>5, <2>3 DEF ReadyOK
  <2>5. GivenOK(given)'
    BY <1>1, <1>2 DEF GivenOK
  <2> QED BY <1>1, <2>2, <2>4, <2>5 DEF PlannerInv
<1> QED BY <1>2, <1>4, <1>5

\* All scenarios under enforcePlanPolicy.
LEMMA PolicedPlansAreGood ==
  ASSUME criteria \in Criteria, auth \in BOOLEAN, NEW gv, NEW plans \in Seq(Seq(Task)),
         \A s \in 1 .. Len(plans) : Tidy(plans[s], gv) /\ Distinct(plans[s]) /\ NoLogin(plans[s]) /\ LogoutAtEnd(plans[s]),
         NEW new, new = [s \in DOMAIN plans |-> Policed(plans[s])]
  PROVE  /\ new \in Seq(Seq(Task)) /\ Len(new) = Len(plans)
         /\ \A s \in 1 .. Len(plans) : PolicedOK(new[s], plans[s], gv)
<1>1. PICK n \in Nat : n = Len(plans) /\ DOMAIN plans = 1 .. n
  OBVIOUS
<1>2. ASSUME NEW s \in 1 .. n PROVE PolicedOK(new[s], plans[s], gv) /\ new[s] \in Seq(Task)
  <2>1. PICK plan : plan = plans[s] /\ Tidy(plan, gv) /\ Distinct(plan) /\ NoLogin(plan) /\ LogoutAtEnd(plan)
    BY <1>1
  <2>2. PolicedOK(Policed(plan), plan, gv)
    BY <2>1, PolicedIsGood
  <2>3. new[s] = Policed(plan)
    BY <1>1, <2>1
  <2> QED BY <2>1, <2>2, <2>3 DEF PolicedOK, Tidy
<1>3. new \in [1 .. n -> Seq(Task)]
  <2>1. DOMAIN new = 1 .. n /\ new = [s \in 1 .. n |-> new[s]]
    BY <1>1
  <2> QED BY <1>2, <2>1
<1>4. new \in Seq(Seq(Task)) /\ Len(new) = n
  BY <1>3
<1> QED BY <1>1, <1>2, <1>4

LEMMA PolicyStep ==
  ASSUME PlannerInv, EnforcePlanPolicy
  PROVE  PlannerInv'
<1>1. stage = "policy" /\ stage' = "done" /\ auth' = auth /\ criteria' = criteria /\ given' = given
  BY DEF EnforcePlanPolicy
<1>2. /\ auth \in BOOLEAN /\ criteria \in Criteria /\ ReadyOK /\ GivenOK(given) /\ PlannerTypes
      /\ scenarios \in Seq(Seq(Task)) /\ scenarios # <<>>
  BY <1>1 DEF PlannerInv, PlannerTypes
<1>3. PICK new : new = scenarios' /\ new = [s \in DOMAIN scenarios |-> Policed(scenarios[s])]
  BY DEF EnforcePlanPolicy
<1>4. auth => Len(scenarios) = 1 /\ MergedOK(scenarios[1], given)
  BY <1>2 DEF ReadyOK
<1>5. ~ auth => Len(scenarios) = Len(given) /\ \A s \in 1 .. Len(given) : AuthOK(scenarios[s], given, s)
  BY <1>2 DEF ReadyOK, NormalizedOK
<1>6. \A s \in 1 .. Len(scenarios) :
        Tidy(scenarios[s], given) /\ Distinct(scenarios[s]) /\ NoLogin(scenarios[s]) /\ LogoutAtEnd(scenarios[s])
  <2> TAKE s \in 1 .. Len(scenarios)
  <2>1. CASE auth
    <3>0. Len(scenarios) = 1
      BY <1>4, <2>1
    <3>1. s = 1
      BY <3>0
    <3> QED BY <1>4, <2>1, <3>1 DEF MergedOK
  <2>2. CASE ~ auth
    <3>1. AuthOK(scenarios[s], given, s)
      BY <1>5, <2>2
    <3>2. LogoutAtEnd(scenarios[s])
      BY <2>2, <3>1 DEF AuthOK, NoLogout, LogoutAtEnd
    <3> QED BY <3>1, <3>2 DEF AuthOK
  <2> QED BY <1>2, <2>1, <2>2
<1>7. /\ new \in Seq(Seq(Task)) /\ Len(new) = Len(scenarios)
      /\ \A s \in 1 .. Len(scenarios) : PolicedOK(new[s], scenarios[s], given)
  BY <1>2, <1>3, <1>6, PolicedPlansAreGood
<1>8. \A s \in 1 .. Len(new) : /\ Tidy(new[s], given) /\ Distinct(new[s]) /\ LogoutAtEnd(new[s])
                               /\ Len(new[s]) \in 1 .. Limit
  BY <1>7 DEF PolicedOK
<1>9. \A s \in 1 .. Len(new) : DependenciesFirst(new[s], given[s])
  <2> TAKE s \in 1 .. Len(new)
  <2>1. auth \/ Linked(scenarios[s], given[s])
    BY <1>5, <1>7 DEF AuthOK
  <2> QED BY <1>7, <2>1 DEF PolicedOK
<1>10. ASSUME NEW g \in 1 .. Len(given)
       PROVE  /\ auth => CoveredBy(new[1], given[g])
              /\ ~ auth => CoveredBy(new[g], given[g])
              /\ auth /\ Agree(given) => LogsOut(new[1], given[g])
  <2>1. ASSUME auth PROVE CoveredBy(new[1], given[g]) /\ (Agree(given) => LogsOut(new[1], given[g]))
    <3>1. PolicedOK(new[1], scenarios[1], given) /\ Covers(scenarios[1], given[g]) /\ LogsOut(scenarios[1], given[g])
      BY <1>4, <1>7, <2>1 DEF MergedOK
    <3> QED BY <2>1, <3>1 DEF PolicedOK, CoveredBy, LogsOut
  <2>2. ASSUME ~ auth PROVE CoveredBy(new[g], given[g])
    <3>1. PolicedOK(new[g], scenarios[g], given) /\ Covers(scenarios[g], given[g])
      BY <1>5, <1>7, <2>2 DEF AuthOK
    <3> QED BY <3>1 DEF PolicedOK, CoveredBy
  <2> QED BY <2>1, <2>2
<1>11. new # <<>>
  BY <1>2, <1>7
<1>12. PlannerTypes'
  BY <1>1, <1>2, <1>3, <1>7, <1>11 DEF PlannerTypes
<1>13. PlannedTidy'
  BY <1>1, <1>3, <1>8 DEF PlannedTidy, Tidy, GivenAs, FallbackAuthTask
<1>14. PlannedLengths'
  <2>1. Len(new) = IF auth THEN 1 ELSE Len(given)
    BY <1>2, <1>4, <1>5, <1>7
  <2> QED BY <1>1, <1>3, <1>8, <2>1 DEF PlannedLengths, Limit
<1>15. PlannedEnds'
  BY <1>1, <1>3, <1>8 DEF PlannedEnds, LogoutAtEnd
<1>16. PlannedOrder'
  BY <1>1, <1>3, <1>9 DEF PlannedOrder, DependenciesFirst
<1>17. PlannedCovers'
  BY <1>1, <1>3, <1>10 DEF PlannedCovers, CoveredBy, Limit
<1>18. PlannedLogouts'
  BY <1>1, <1>3, <1>10 DEF PlannedLogouts, Agree, GivenAs, FallbackAuthTask
<1>19. GivenOK(given)'
  BY <1>1, <1>2 DEF GivenOK
<1> QED BY <1>1, <1>12, <1>13, <1>14, <1>15, <1>16, <1>17, <1>18, <1>19 DEF PlannerInv, PlannedOK

LEMMA PlannerStep ==
  ASSUME PlannerInv, PlannerNext
  PROVE  PlannerInv'
BY BuildStep, NormalizeStep, AuthStep, PolicyStep DEF PlannerNext

LEMMA PlannerTyped ==
  ASSUME PlannerInv
  PROVE  PlannerTypeOK
<1>1. PlannerTypes
  BY DEF PlannerInv
<1>2. DOMAIN scenarios = 1 .. Len(scenarios) /\ \A s \in 1 .. Len(scenarios) : DOMAIN scenarios[s] = 1 .. Len(scenarios[s])
  BY <1>1 DEF PlannerTypes
<1>3. ASSUME stage \notin {"build", "normalize"}, NEW s \in 1 .. Len(scenarios) PROVE Distinct(scenarios[s])
  <2>1. stage = "auth" \/ stage = "policy" \/ stage = "done"
    BY <1>1, <1>3 DEF PlannerTypes
  <2>2. NormalizedOK => Distinct(scenarios[s])
    BY <1>3 DEF NormalizedOK, AuthOK
  <2>3. CASE stage = "auth"
    BY <2>2, <2>3 DEF PlannerInv
  <2>4. CASE stage = "policy"
    <3>1. ReadyOK
      BY <2>4 DEF PlannerInv
    <3>2. CASE auth
      <4>1. Len(scenarios) = 1 /\ MergedOK(scenarios[1], given)
        BY <3>1, <3>2 DEF ReadyOK
      <4>2. s = 1
        BY <1>3, <4>1
      <4> QED BY <4>1, <4>2 DEF MergedOK
    <3>3. CASE ~ auth
      BY <2>2, <3>1, <3>3 DEF ReadyOK
    <3> QED BY <1>1, <3>2, <3>3 DEF PlannerTypes
  <2>5. CASE stage = "done"
    BY <1>3, <2>5 DEF PlannerInv, PlannedOK, PlannedTidy
  <2> QED BY <2>1, <2>3, <2>4, <2>5
<1>4. stage \notin {"build", "normalize"} =>
        \A s \in DOMAIN scenarios : \A i, j \in DOMAIN scenarios[s] : scenarios[s][i].id = scenarios[s][j].id => i = j
  <2> SUFFICES ASSUME stage \notin {"build", "normalize"}, NEW s \in DOMAIN scenarios
               PROVE  \A i, j \in DOMAIN scenarios[s] : scenarios[s][i].id = scenarios[s][j].id => i = j
    OBVIOUS
  <2>1. Distinct(scenarios[s]) /\ DOMAIN scenarios[s] = 1 .. Len(scenarios[s])
    BY <1>2, <1>3
  <2> QED BY <2>1 DEF Distinct
<1> QED BY <1>1, <1>4 DEF PlannerTypeOK, PlannerTypes

LEMMA PlannedShape ==
  ASSUME PlannerInv, Planned
  PROVE  /\ PlannedOK /\ auth \in BOOLEAN
         /\ DOMAIN scenarios = 1 .. Len(scenarios) /\ \A s \in DOMAIN scenarios : DOMAIN scenarios[s] = 1 .. Len(scenarios[s])
         /\ DOMAIN given = 1 .. Len(given) /\ \A s \in DOMAIN given : DOMAIN given[s] = 1 .. Len(given[s])
BY DEF PlannerInv, PlannerTypes, Planned

LEMMA NothingElseMissing ==
  ASSUME PlannerInv
  PROVE  NothingElseIsLeftOut
<1> SUFFICES ASSUME Planned
             PROVE  /\ \A s \in DOMAIN scenarios : Len(scenarios[s]) \in 1 .. Limit
                    /\ \A g \in DOMAIN given : \A id \in Ids(given[g]) :
                         LET s == IF auth THEN 1 ELSE g
                             t == Named(given[g], id)
                         IN \/ IsLogin(t) \/ IsLogout(t)
                            \/ Len(scenarios[s]) = Limit
                            \/ \E i \in DOMAIN scenarios[s] : Key(scenarios[s][i]) = Key(t)
  BY DEF NothingElseIsLeftOut
<1>1. PlannedLengths /\ PlannedCovers /\ auth \in BOOLEAN
  BY PlannedShape DEF PlannedOK
<1>2. \A s \in DOMAIN scenarios : Len(scenarios[s]) \in 1 .. Limit
  BY <1>1, PlannedShape DEF PlannedLengths
<1>3. ASSUME NEW g \in DOMAIN given, NEW id \in Ids(given[g]), NEW s, s = IF auth THEN 1 ELSE g
      PROVE  \/ IsLogin(Named(given[g], id)) \/ IsLogout(Named(given[g], id))
             \/ Len(scenarios[s]) = Limit
             \/ \E i \in DOMAIN scenarios[s] : Key(scenarios[s][i]) = Key(Named(given[g], id))
  <2>1. g \in 1 .. Len(given)
    BY PlannedShape
  <2>2. CoveredBy(scenarios[s], given[g])
    BY <1>1, <1>3, <2>1 DEF PlannedCovers
  <2>3. s \in 1 .. Len(scenarios)
    <3>1. CASE auth
      BY <1>1, <1>3, <3>1 DEF PlannedLengths
    <3>2. CASE ~ auth
      BY <1>1, <1>3, <2>1, <3>2 DEF PlannedLengths
    <3> QED BY <1>1, <3>1, <3>2
  <2>4. DOMAIN scenarios[s] = 1 .. Len(scenarios[s])
    BY <2>3, PlannedShape
  <2>5. CASE Covers(scenarios[s], given[g])
    <3>1. Plain(Named(given[g], id)) => \E i \in 1 .. Len(scenarios[s]) : Key(scenarios[s][i]) = Key(Named(given[g], id))
      BY <2>5 DEF Covers
    <3> QED BY <2>4, <3>1 DEF Plain
  <2> QED BY <2>2, <2>5 DEF CoveredBy
<1> QED BY <1>2, <1>3

LEMMA EqualTasksDoAgree ==
  ASSUME GivenOK(given), EqualTasksAgree
  PROVE  Agree(given)
<1>1. DOMAIN given = 1 .. Len(given) /\ \A s \in 1 .. Len(given) : DOMAIN given[s] = 1 .. Len(given[s])
  BY DEF GivenOK
<1>2. PICK tasks : tasks = {FallbackAuthTask} \cup UNION {ToSet(given[s]) : s \in DOMAIN given}
  OBVIOUS
<1>3. \A t, u \in tasks : Key(t) = Key(u) => (IsLogout(t) <=> IsLogout(u))
  BY <1>2 DEF EqualTasksAgree
<1>4. ASSUME NEW t, GivenAs(t, given)
      PROVE  \E u \in tasks : Key(t) = Key(u) /\ (IsLogout(t) <=> IsLogout(u))
  <2>1. CASE Alike(t, FallbackAuthTask)
    BY <1>2, <2>1, AlikeIsAsGood
  <2>2. CASE \E s \in 1 .. Len(given) : \E i \in 1 .. Len(given[s]) : Alike(t, given[s][i])
    <3>1. PICK s \in 1 .. Len(given) : \E i \in 1 .. Len(given[s]) : Alike(t, given[s][i])
      BY <2>2
    <3>2. PICK i \in 1 .. Len(given[s]) : Alike(t, given[s][i])
      BY <3>1
    <3>3. given[s][i] \in ToSet(given[s])
      BY <1>1 DEF ToSet
    <3>4. given[s][i] \in tasks
      BY <1>1, <1>2, <3>3
    <3> QED BY <3>2, <3>4, AlikeIsAsGood
  <2> QED BY <1>4, <2>1, <2>2 DEF GivenAs
<1> SUFFICES ASSUME NEW t, NEW u, GivenAs(t, given), GivenAs(u, given), Key(t) = Key(u)
             PROVE  IsLogout(t) <=> IsLogout(u)
  BY DEF Agree
<1>5. PICK t0 \in tasks : Key(t) = Key(t0) /\ (IsLogout(t) <=> IsLogout(t0))
  BY <1>4
<1>6. PICK u0 \in tasks : Key(u) = Key(u0) /\ (IsLogout(u) <=> IsLogout(u0))
  BY <1>4
<1> QED BY <1>3, <1>5, <1>6

LEMMA OrderKept ==
  ASSUME PlannerInv
  PROVE  TasksComeInOrder
<1>1. DependenciesComeFirst
  <2> SUFFICES ASSUME Planned, NEW s \in DOMAIN scenarios
               PROVE  DependenciesFirst(scenarios[s], given[s])
    BY DEF DependenciesComeFirst, DependenciesFirst
  <2> QED BY PlannedShape DEF PlannedOK, PlannedOrder
<1>2. PrerequisitesArePlanned
  <2> SUFFICES ASSUME Planned, NEW s \in DOMAIN scenarios, NEW i \in DOMAIN scenarios[s],
                      scenarios[s][i].from # <<0, 0>>, ~ IsLogout(scenarios[s][i]),
                      NEW p \in Prerequisites(given[scenarios[s][i].from[1]], scenarios[s][i].from[2])
               PROVE  \E j \in 1 .. i - 1 : Key(scenarios[s][j]) = Key(p)
    BY DEF PrerequisitesArePlanned
  <2>1. PrerequisitesFirst(scenarios[s], given) /\ i \in 1 .. Len(scenarios[s])
    BY PlannedShape DEF PlannedOK, PlannedTidy, Tidy
  <2> QED BY <2>1 DEF PrerequisitesFirst
<1>3. LogoutComesLast
  <2> SUFFICES ASSUME Planned, NEW s \in DOMAIN scenarios
               PROVE  /\ \A i \in DOMAIN scenarios[s] : IsLogout(scenarios[s][i]) => auth /\ i = Len(scenarios[s])
                      /\ auth /\ EqualTasksAgree
                           /\ (\E g \in DOMAIN given : \E id \in Ids(given[g]) : IsLogout(Named(given[g], id)))
                           => IsLogout(Last(scenarios[s]))
    BY DEF LogoutComesLast
  <2>1. LogoutAtEnd(scenarios[s]) /\ DOMAIN scenarios[s] = 1 .. Len(scenarios[s])
    BY PlannedShape DEF PlannedOK, PlannedEnds
  <2>2. ASSUME auth, EqualTasksAgree, NEW g \in DOMAIN given, NEW id \in Ids(given[g]), IsLogout(Named(given[g], id))
        PROVE  IsLogout(Last(scenarios[s]))
    <3>1. Len(scenarios) = 1
      BY <2>2, PlannedShape DEF PlannedOK, PlannedLengths
    <3>2. s = 1
      BY <3>1, PlannedShape
    <3>3. Agree(given)
      BY <2>2, EqualTasksDoAgree DEF PlannerInv, Planned
    <3>4. LogsOut(scenarios[1], given[g])
      BY <2>2, <3>3, PlannedShape DEF PlannedOK, PlannedLogouts
    <3>5. PICK i \in 1 .. Len(scenarios[s]) : IsLogout(scenarios[s][i])
      BY <2>2, <3>2, <3>4 DEF LogsOut, HasLogout
    <3>6. i = Len(scenarios[s])
      BY <2>1, <3>5 DEF LogoutAtEnd
    <3> QED BY <3>5, <3>6 DEF Last
  <2> QED BY <2>1, <2>2 DEF LogoutAtEnd
<1> QED BY <1>1, <1>2, <1>3 DEF TasksComeInOrder

\* Every stage hands on what the next one needs of it.
THEOREM PlannerInvariant == PlannerSpec => []PlannerInv
<1>1. PlannerInit => PlannerInv
  BY PlannerInvInit
<1>2. PlannerInv /\ [PlannerNext]_plannerVars => PlannerInv'
  BY PlannerStep, PlannerInvStays
<1> QED BY <1>1, <1>2, PTL DEF PlannerSpec

\* Types hold throughout, and the ids of a sorted scenario tell its tasks apart.
THEOREM PlannerTypeSafety == PlannerSpec => []PlannerTypeOK
<1>1. PlannerInv => PlannerTypeOK
  BY PlannerTyped
<1> QED BY <1>1, PlannerInvariant, PTL

\* What the answer of the provider says of the order of its tasks survives the
\* sort, the merge under authentication and the cut.
THEOREM TasksAreInOrder == PlannerSpec => []TasksComeInOrder
<1>1. PlannerInv => TasksComeInOrder
  BY OrderKept
<1> QED BY <1>1, PlannerInvariant, PTL

\* No stage of the planner drops a task without one of the named reasons.
THEOREM NothingElseIsLost == PlannerSpec => []NothingElseIsLeftOut
<1>1. PlannerInv => NothingElseIsLeftOut
  BY NothingElseMissing
<1> QED BY <1>1, PlannerInvariant, PTL

\* The orchestrator runs the planner once, or not at all, so that what is proved
\* of the planner holds of the one it calls.
THEOREM OrchestratorPlans == OrchestratorSpec => PlannerSpec
<1>1. OrchestratorInit => PlannerInit
  BY DEF OrchestratorInit
<1>2. [OrchestratorNext]_<<plannerVars, orchestration>> => [PlannerNext]_plannerVars
  BY DEF OrchestratorNext, SelectScenarios, Generate, ApplyScenarioLimit
<1> QED BY <1>1, <1>2, PTL DEF OrchestratorSpec, PlannerSpec

----------------------------------------------------------------------------
(* The orchestrator of scenarios.                                          *)

\* above[m]: the members of M that come before m in an order of M.  The k-th of
\* them has k - 1 others before it.
IsAnOrder(above, M) ==
  /\ above \in [M -> SUBSET M]
  /\ \A m \in M : m \notin above[m]
  /\ \A m \in M : \A n \in above[m] : above[n] \subseteq above[m]
  /\ \A m, n \in M : m = n \/ m \in above[n] \/ n \in above[m]

HasRanks(above, M) ==
  /\ \A k \in 1 .. Cardinality(M) : \E m \in M : Cardinality(above[m]) = k - 1
  /\ \A m \in M : Cardinality(above[m]) + 1 \in 1 .. Cardinality(M)
  /\ \A m, n \in M : Cardinality(above[m]) < Cardinality(above[n]) => m \in above[n]
  /\ \A m, n \in M : Cardinality(above[m]) = Cardinality(above[n]) => m = n

LEMMA RanksInAnOrder ==
  ASSUME NEW M, IsFiniteSet(M), NEW above, IsAnOrder(above, M)
  PROVE  HasRanks(above, M)
<1>1. Cardinality(M) \in Nat
  BY FS_CardinalityType
<1>2. \A m \in M : above[m] \in SUBSET M /\ m \notin above[m]
  BY DEF IsAnOrder
<1>3. \A m \in M : IsFiniteSet(above[m]) /\ Cardinality(above[m]) \in Nat /\ Cardinality(above[m]) + 1 \in 1 .. Cardinality(M)
  <2> TAKE m \in M
  <2>1. /\ IsFiniteSet(above[m]) /\ Cardinality(above[m]) <= Cardinality(M)
        /\ Cardinality(above[m]) # Cardinality(M)
    BY <1>2, FS_Subset
  <2>2. Cardinality(above[m]) \in Nat
    BY <2>1, FS_CardinalityType
  <2> QED BY <1>1, <2>1, <2>2
<1>4. ASSUME NEW n \in M, NEW m \in above[n] PROVE Cardinality(above[m]) < Cardinality(above[n])
  <2>1. m \in M /\ above[m] \in SUBSET above[n] /\ m \notin above[m]
    BY <1>2 DEF IsAnOrder
  <2>2. /\ Cardinality(above[m]) <= Cardinality(above[n])
        /\ Cardinality(above[n]) # Cardinality(above[m])
    BY <1>3, <2>1, FS_Subset
  <2> QED BY <1>3, <2>1, <2>2
<1>5. \A m, n \in M : m = n \/ Cardinality(above[m]) < Cardinality(above[n]) \/ Cardinality(above[n]) < Cardinality(above[m])
  BY <1>4 DEF IsAnOrder
<1>6. \A m, n \in M : Cardinality(above[m]) = Cardinality(above[n]) => m = n
  BY <1>3, <1>5
<1>7. \A m, n \in M : Cardinality(above[m]) < Cardinality(above[n]) => m \in above[n]
  <2> TAKE m, n \in M
  <2> HAVE Cardinality(above[m]) < Cardinality(above[n])
  <2>1. m # n /\ n \notin above[m]
    BY <1>3, <1>4
  <2> QED BY <2>1 DEF IsAnOrder
<1> DEFINE rank == [m \in M |-> Cardinality(above[m]) + 1]
<1>8. rank \in Injection(M, 1 .. Cardinality(M))
  <2>1. rank \in [M -> 1 .. Cardinality(M)]
    BY <1>3
  <2>2. \A m, n \in M : rank[m] = rank[n] => m = n
    BY <1>3, <1>6
  <2> HIDE DEF rank
  <2> QED BY <2>1, <2>2 DEF Injection, IsInjective
<1>9. rank \in Surjection(M, 1 .. Cardinality(M))
  <2>1. IsFiniteSet(1 .. Cardinality(M)) /\ Cardinality(1 .. Cardinality(M)) = Cardinality(M)
    BY <1>1, FS_Interval
  <2> HIDE DEF rank
  <2> QED BY <1>8, <2>1, FS_Injection
<1>10. ASSUME NEW k \in 1 .. Cardinality(M) PROVE \E m \in M : Cardinality(above[m]) = k - 1
  <2>1. PICK m \in M : rank[m] = k
    BY <1>9 DEF Surjection
  <2> QED BY <1>1, <1>3, <2>1
<1> QED BY <1>3, <1>6, <1>7, <1>10 DEF HasRanks

\* The matches that come before each match.
Above(q) == [m \in Matches(q) |-> {n \in Matches(q) : Better(n, m)}]

LEMMA MatchesAreFinite ==
  ASSUME NEW q \in Requests
  PROVE  /\ IsFiniteSet(Matches(q))
         /\ \A m \in Matches(q) : m.required \in Nat /\ m.chunk \in Nat /\ m.score \in Nat
<1>1. /\ q.required \in SUBSET Nat /\ IsFiniteSet(q.required)
      /\ q.chunks \in SUBSET Nat /\ IsFiniteSet(q.chunks)
      /\ MinMatchScore \in Nat
  BY OrchestratorAssumption
<1>2. \A m \in Matches(q) : m.required \in Nat /\ m.chunk \in Nat /\ m.score \in Nat
  BY <1>1 DEF Matches
<1> DEFINE P == q.required \X q.chunks
           g == [p \in P |-> [required |-> p[1], chunk |-> p[2], score |-> q.score[p[1]][p[2]]]]
           T == {g[p] : p \in P}
<1>3. IsFiniteSet(P)
  BY <1>1, FS_Product
<1>4. IsFiniteSet(T)
  <2>1. g = [p \in P |-> g[p]]
    OBVIOUS
  <2> HIDE DEF P, g
  <2> QED BY <1>3, <2>1, ImagesAreFinite
<1>5. Matches(q) \in SUBSET T
  <2> SUFFICES ASSUME NEW m \in Matches(q) PROVE m \in T
    OBVIOUS
  <2>1. /\ m.required \in q.required /\ m.chunk \in q.chunks
        /\ m = [required |-> m.required, chunk |-> m.chunk, score |-> m.score]
        /\ m.score = q.score[m.required][m.chunk]
    BY DEF Matches
  <2>2. <<m.required, m.chunk>> \in P /\ g[<<m.required, m.chunk>>] = m
    BY <2>1
  <2> QED BY <2>2
<1> HIDE DEF T
<1> QED BY <1>2, <1>4, <1>5, FS_Subset

LEMMA MatchesAreOrdered ==
  ASSUME NEW q \in Requests
  PROVE  IsAnOrder(Above(q), Matches(q))
<1>1. \A m \in Matches(q) : m.required \in Nat /\ m.chunk \in Nat /\ m.score \in Nat
  BY MatchesAreFinite
<1>2. \A m, n \in Matches(q) : n \in Above(q)[m] <=> Better(n, m)
  BY DEF Above
<1>3. Above(q) \in [Matches(q) -> SUBSET Matches(q)]
  BY DEF Above
<1>4. \A m \in Matches(q) : ~ Better(m, m)
  BY <1>1 DEF Better
<1>5. \A m, n, o \in Matches(q) : Better(o, n) /\ Better(n, m) => Better(o, m)
  <2> TAKE m, n, o \in Matches(q)
  <2>1. PICK mr \in Nat, mc \in Nat, ms \in Nat : mr = m.required /\ mc = m.chunk /\ ms = m.score
    BY <1>1
  <2>2. PICK nr \in Nat, nc \in Nat, ns \in Nat : nr = n.required /\ nc = n.chunk /\ ns = n.score
    BY <1>1
  <2>3. PICK kr \in Nat, kc \in Nat, ks \in Nat : kr = o.required /\ kc = o.chunk /\ ks = o.score
    BY <1>1
  <2> QED BY <2>1, <2>2, <2>3 DEF Better
<1>6. \A m, n \in Matches(q) : m = n \/ Better(m, n) \/ Better(n, m)
  <2> TAKE m, n \in Matches(q)
  <2>1. CASE m.required = n.required /\ m.chunk = n.chunk
    <3>1. m.score = n.score
      BY <2>1 DEF Matches
    <3>2. /\ m = [required |-> m.required, chunk |-> m.chunk, score |-> m.score]
          /\ n = [required |-> n.required, chunk |-> n.chunk, score |-> n.score]
      BY DEF Matches
    <3> QED BY <2>1, <3>1, <3>2
  <2>2. CASE m.required # n.required \/ m.chunk # n.chunk
    <3>1. PICK mr \in Nat, mc \in Nat, ms \in Nat : mr = m.required /\ mc = m.chunk /\ ms = m.score
      BY <1>1
    <3>2. PICK nr \in Nat, nc \in Nat, ns \in Nat : nr = n.required /\ nc = n.chunk /\ ns = n.score
      BY <1>1
    <3> QED BY <2>2, <3>1, <3>2 DEF Better
  <2> QED BY <2>1, <2>2
<1>7. \A m \in Matches(q) : \A n \in Above(q)[m] : Above(q)[n] \subseteq Above(q)[m]
  BY <1>2, <1>3, <1>5
<1> QED BY <1>2, <1>3, <1>4, <1>6, <1>7 DEF IsAnOrder

\* The matches in their order, each at one place.
InOrder(r, q) ==
  /\ r \in Seq(Matches(q))
  /\ \A m \in Matches(q) : \E k \in 1 .. Len(r) : r[k] = m
  /\ \A k, l \in 1 .. Len(r) : k < l => Better(r[k], r[l])

LEMMA RankedIsInOrder ==
  ASSUME NEW q \in Requests
  PROVE  InOrder(Ranked(q), q)
<1> DEFINE M == Matches(q)
           above == Above(q)
<1>1. PICK c \in Nat : c = Cardinality(M)
  BY MatchesAreFinite, FS_CardinalityType
<1>2. HasRanks(above, M)
  BY MatchesAreFinite, MatchesAreOrdered, RanksInAnOrder
<1>3. PICK r : r = [k \in 1 .. c |-> CHOOSE m \in M : Cardinality(above[m]) = k - 1]
  OBVIOUS
<1>4. Ranked(q) = r
  <2>1. \A m \in M : above[m] = {n \in M : Better(n, m)}
    BY DEF Above
  <2>2. \A k \in 1 .. c : (CHOOSE m \in M : Cardinality(above[m]) = k - 1)
                           = CHOOSE m \in M : Cardinality({n \in M : Better(n, m)}) = k - 1
    BY <2>1
  <2>3. Ranked(q) = [k \in 1 .. c |-> CHOOSE m \in M : Cardinality({n \in M : Better(n, m)}) = k - 1]
    BY <1>1 DEF Ranked
  <2> HIDE DEF M, above
  <2> QED BY <1>3, <2>2, <2>3
<1>5. \A k \in 1 .. c : r[k] \in M /\ Cardinality(above[r[k]]) = k - 1
  <2> TAKE k \in 1 .. c
  <2>1. r[k] = CHOOSE m \in M : Cardinality(above[m]) = k - 1
    BY <1>3
  <2>2. \E m \in M : Cardinality(above[m]) = k - 1
    BY <1>1, <1>2 DEF HasRanks
  <2> HIDE DEF M, above
  <2> QED BY <2>1, <2>2
<1>6. r \in Seq(M) /\ Len(r) = c
  <2>1. r \in [1 .. c -> M]
    BY <1>3, <1>5
  <2> HIDE DEF M
  <2> QED BY <2>1
<1>7. \A m \in M : \E k \in 1 .. c : r[k] = m
  <2> TAKE m \in M
  <2>1. PICK k \in 1 .. c : k = Cardinality(above[m]) + 1
    BY <1>1, <1>2 DEF HasRanks
  <2>2. Cardinality(above[m]) \in Int
    <3>1. IsFiniteSet(above[m])
      BY MatchesAreFinite, MatchesAreOrdered, FS_Subset DEF IsAnOrder
    <3> QED BY <3>1, FS_CardinalityType
  <2>3. Cardinality(above[r[k]]) = Cardinality(above[m])
    BY <1>5, <2>1, <2>2
  <2>4. r[k] = m
    BY <1>2, <1>5, <2>3 DEF HasRanks
  <2> QED BY <2>4
<1>8. \A k, l \in 1 .. c : k < l => Better(r[k], r[l])
  <2> TAKE k, l \in 1 .. c
  <2> HAVE k < l
  <2>1. Cardinality(above[r[k]]) < Cardinality(above[r[l]])
    BY <1>5
  <2>2. r[k] \in above[r[l]]
    BY <1>2, <1>5, <2>1 DEF HasRanks
  <2> QED BY <1>5, <2>2 DEF Above
<1> QED BY <1>4, <1>6, <1>7, <1>8 DEF InOrder

\* Of the matches of each chunk one is left, and none of that chunk is better.
OnePerChunk(u, q) ==
  /\ u \in Seq(Matches(q))
  /\ \A i, j \in 1 .. Len(u) : i < j => u[i].score >= u[j].score /\ u[i].chunk # u[j].chunk
  /\ \A m \in Matches(q) : \E i \in 1 .. Len(u) : u[i].chunk = m.chunk /\ u[i].score >= m.score

LEMMA FirstsAreOnePerChunk ==
  ASSUME NEW q \in Requests, NEW r, InOrder(r, q)
  PROVE  OnePerChunk(FirstOfEachChunk(r), q)
<1> DEFINE first == {i \in DOMAIN r : \A j \in 1 .. i - 1 : r[j].chunk # r[i].chunk}
<1>1. r \in Seq(Matches(q)) /\ DOMAIN r = 1 .. Len(r) /\ Len(r) \in Nat
  BY DEF InOrder
<1>2. first \in SUBSET DOMAIN r /\ FirstOfEachChunk(r) = Those(r, first)
  BY DEF FirstOfEachChunk
<1>3. \A i \in first : \A j \in 1 .. i - 1 : r[j].chunk # r[i].chunk
  OBVIOUS
<1>4. \A i \in 1 .. Len(r) : (\A j \in 1 .. i - 1 : r[j].chunk # r[i].chunk) => i \in first
  BY <1>1
<1> HIDE DEF first
<1>5. PICK u \in Seq(Matches(q)) : u = Those(r, first) /\ Keeps(u, r, first)
  BY <1>1, <1>2, ThoseAreKept
<1>6. Len(u) \in Nat /\ DOMAIN u = 1 .. Len(u)
  BY <1>5 DEF Keeps
<1>7. PICK at \in [1 .. Len(u) -> first] :
        /\ \A n \in 1 .. Len(u) : u[n] = r[at[n]]
        /\ \A i \in first : \E n \in 1 .. Len(u) : at[n] = i
        /\ \A n, k \in 1 .. Len(u) : n < k => at[n] < at[k]
  BY <1>5 DEF Keeps
<1>8. \A n \in 1 .. Len(u) : at[n] \in 1 .. Len(r) /\ at[n] \in first
  BY <1>1, <1>2, <1>7
<1>9. \A i \in 1 .. Len(r) : r[i] \in Matches(q) /\ r[i].score \in Nat /\ r[i].chunk \in Nat /\ r[i].required \in Nat
  BY <1>1, MatchesAreFinite, ElementOfSeq
<1>10. \A k, l \in 1 .. Len(r) : k < l => r[k].score >= r[l].score
  <2> TAKE k, l \in 1 .. Len(r)
  <2> HAVE k < l
  <2>1. Better(r[k], r[l])
    BY DEF InOrder
  <2> QED BY <1>9, <2>1 DEF Better
<1>11. ASSUME NEW i \in 1 .. Len(u), NEW j \in 1 .. Len(u), i < j
       PROVE  u[i].score >= u[j].score /\ u[i].chunk # u[j].chunk
  <2>1. at[i] < at[j] /\ at[i] \in 1 .. Len(r) /\ at[j] \in 1 .. Len(r) /\ at[j] \in first
    BY <1>7, <1>8, <1>11
  <2>2. r[at[i]].score >= r[at[j]].score
    BY <1>10, <2>1
  <2>3. r[at[i]].chunk # r[at[j]].chunk
    BY <1>3, <2>1
  <2> QED BY <1>7, <2>2, <2>3
<1>12. ASSUME NEW m \in Matches(q)
       PROVE  \E i \in 1 .. Len(u) : u[i].chunk = m.chunk /\ u[i].score >= m.score
  <2>1. PICK k \in 1 .. Len(r) : r[k] = m
    BY DEF InOrder
  <2> DEFINE T == {i \in 1 .. Len(r) : r[i].chunk = m.chunk}
  <2>2. T \subseteq Nat /\ T # {}
    BY <2>1
  <2>3. PICK i \in T : \A j \in T : i <= j
    <3> HIDE DEF T
    <3> QED BY <2>2, Least
  <2>4. i \in 1 .. Len(r) /\ r[i].chunk = m.chunk /\ i <= k
    BY <2>1, <2>3
  <2>5. i \in first
    <3>1. \A j \in 1 .. i - 1 : j \in 1 .. Len(r) /\ ~ (i <= j)
      BY <1>1, <2>4
    <3>2. \A j \in 1 .. i - 1 : r[j].chunk # r[i].chunk
      BY <2>3, <2>4, <3>1
    <3> QED BY <1>4, <2>4, <3>2
  <2>6. PICK n \in 1 .. Len(u) : at[n] = i
    BY <1>7, <2>5
  <2>7. u[n] = r[i]
    BY <1>7, <2>6
  <2>8. r[i].score >= m.score
    <3>1. i < k \/ i = k
      BY <1>1, <2>4
    <3>2. CASE i < k
      BY <1>10, <2>1, <2>4, <3>2
    <3>3. CASE i = k
      BY <1>9, <2>1, <3>3
    <3> QED BY <3>1, <3>2, <3>3
  <2> QED BY <2>4, <2>7, <2>8
<1>13. OnePerChunk(u, q)
  BY <1>5, <1>11, <1>12 DEF OnePerChunk
<1> QED BY <1>2, <1>5, <1>13

\* What the selector answers: the best match of each of the best chunks.
SelectedOK(q, md) ==
  /\ md \in Seq(Matches(q)) /\ Len(md) <= MaxSelected
  /\ \A i, j \in 1 .. Len(md) : i < j => md[i].score >= md[j].score /\ md[i].chunk # md[j].chunk
  /\ \A i \in 1 .. Len(md) : \A m \in Matches(q) : m.chunk = md[i].chunk => md[i].score >= m.score
  /\ \A m \in Matches(q) :
       \/ \E i \in 1 .. Len(md) : md[i].chunk = m.chunk
       \/ Len(md) = MaxSelected /\ \A i \in 1 .. Len(md) : md[i].score >= m.score

LEMMA SelectPicksTheBest ==
  ASSUME NEW q \in Requests
  PROVE  SelectedOK(q, Select(q))
<1>1. PICK u : u = FirstOfEachChunk(Ranked(q))
  OBVIOUS
<1>2. OnePerChunk(u, q)
  BY <1>1, RankedIsInOrder, FirstsAreOnePerChunk
<1>3. u \in Seq(Matches(q)) /\ Len(u) \in Nat /\ MaxSelected \in Nat
  BY <1>2, OrchestratorAssumption DEF OnePerChunk
<1>4. PICK md \in Seq(Matches(q)) : /\ md = Select(q)
                                    /\ Len(md) = IF Len(u) < MaxSelected THEN Len(u) ELSE MaxSelected
                                    /\ \A i \in 1 .. Len(md) : md[i] = u[i]
  <2>1. Select(q) = FirstOf(u, MaxSelected)
    BY <1>1 DEF Select
  <2> QED BY <1>3, <2>1, FirstOnes
<1>5. Len(md) \in Nat /\ Len(md) <= MaxSelected /\ Len(md) <= Len(u)
  BY <1>3, <1>4
<1>6. \A i \in 1 .. Len(md) : i \in 1 .. Len(u)
  BY <1>3, <1>5
<1>7. \A i, j \in 1 .. Len(md) : i < j => md[i].score >= md[j].score /\ md[i].chunk # md[j].chunk
  <2> TAKE i, j \in 1 .. Len(md)
  <2> HAVE i < j
  <2>1. i \in 1 .. Len(u) /\ j \in 1 .. Len(u) /\ md[i] = u[i] /\ md[j] = u[j]
    BY <1>4, <1>6
  <2>2. u[i].score >= u[j].score /\ u[i].chunk # u[j].chunk
    BY <1>2, <2>1 DEF OnePerChunk
  <2> QED BY <2>1, <2>2
<1>8. \A i \in 1 .. Len(u) : u[i] \in Matches(q) /\ u[i].score \in Nat
  BY <1>3, MatchesAreFinite, ElementOfSeq
<1>9. \A m \in Matches(q) : m.score \in Nat
  BY MatchesAreFinite
<1>10. ASSUME NEW m \in Matches(q), NEW i \in 1 .. Len(md), m.chunk = md[i].chunk PROVE md[i].score >= m.score
  <2>1. PICK j \in 1 .. Len(u) : u[j].chunk = m.chunk /\ u[j].score >= m.score
    BY <1>2 DEF OnePerChunk
  <2>2. i \in 1 .. Len(u) /\ u[i] = md[i]
    BY <1>4, <1>6
  <2>3. ~ (i < j) /\ ~ (j < i)
    <3>1. u[i].chunk = u[j].chunk
      BY <1>10, <2>1, <2>2
    <3>2. \A k, l \in 1 .. Len(u) : k < l => u[k].chunk # u[l].chunk
      BY <1>2 DEF OnePerChunk
    <3> QED BY <2>1, <2>2, <3>1, <3>2
  <2>4. i = j
    BY <2>2, <2>3
  <2> QED BY <2>1, <2>2, <2>4
<1>11. ASSUME NEW m \in Matches(q), \A i \in 1 .. Len(md) : md[i].chunk # m.chunk
       PROVE  Len(md) = MaxSelected /\ \A i \in 1 .. Len(md) : md[i].score >= m.score
  <2>1. PICK j \in 1 .. Len(u) : u[j].chunk = m.chunk /\ u[j].score >= m.score
    BY <1>2 DEF OnePerChunk
  <2>2. j \notin 1 .. Len(md)
    BY <1>4, <1>11, <2>1
  <2>3. Len(md) < j
    BY <1>5, <2>2
  <2>4. Len(md) = MaxSelected
    BY <1>3, <1>4, <2>3
  <2>5. ASSUME NEW i \in 1 .. Len(md) PROVE md[i].score >= m.score
    <3>1. i \in 1 .. Len(u) /\ u[i] = md[i] /\ i < j
      BY <1>4, <1>5, <1>6, <2>3
    <3>2. u[i].score >= u[j].score
      BY <1>2, <3>1 DEF OnePerChunk
    <3>3. u[i].score \in Nat /\ u[j].score \in Nat /\ m.score \in Nat
      BY <1>8, <1>9, <3>1
    <3> QED BY <2>1, <3>1, <3>2, <3>3
  <2> QED BY <2>4, <2>5
<1> QED BY <1>4, <1>5, <1>7, <1>10, <1>11 DEF SelectedOK

\* The scenarios that run: the chosen ones, best first, then the made ones whose
\* ids no chosen one has, as many as the limit allows.
Runs(kept, selected, generated, max) ==
  /\ Len(kept) \in Nat /\ Len(kept) <= max
  /\ \A i \in 1 .. Len(kept) : i <= Len(selected) => kept[i] = selected[i]
  /\ \A i \in 1 .. Len(kept) : i > Len(selected) =>
       \A j \in 1 .. Len(selected) : kept[i] # selected[j]
  /\ Len(kept) < max =>
       /\ Len(selected) <= Len(kept)
       /\ \A g \in 1 .. Len(generated) :
            (\E j \in 1 .. Len(selected) : generated[g] = selected[j]) \/ (\E i \in 1 .. Len(kept) : kept[i] = generated[g])
  /\ DOMAIN kept = 1 .. Len(kept)
  /\ Len(kept) < Len(selected) => Len(kept) = max

LEMMA LimitedRuns ==
  ASSUME NEW E, NEW selected \in Seq(E), NEW generated \in Seq(E), NEW max \in Nat
  PROVE  Runs(Limited(selected, generated, max), selected, generated, max)
<1> DEFINE places == {i \in DOMAIN generated : generated[i] \notin ToSet(selected)}
<1>1. /\ Len(selected) \in Nat /\ DOMAIN selected = 1 .. Len(selected)
      /\ Len(generated) \in Nat /\ DOMAIN generated = 1 .. Len(generated)
  OBVIOUS
<1>2. \A x : x \in ToSet(selected) <=> \E j \in 1 .. Len(selected) : x = selected[j]
  BY <1>1 DEF ToSet
<1>3. places \in SUBSET DOMAIN generated /\ Fresh(selected, generated) = Those(generated, places)
  BY DEF Fresh
<1>4. \A i \in places : \A j \in 1 .. Len(selected) : generated[i] # selected[j]
  BY <1>2
<1>5. \A g \in 1 .. Len(generated) : g \in places \/ \E j \in 1 .. Len(selected) : generated[g] = selected[j]
  BY <1>1, <1>2
<1> HIDE DEF places
<1>6. PICK added \in Seq(E) : added = Those(generated, places) /\ Keeps(added, generated, places)
  BY <1>3, ThoseAreKept
<1>7. PartOf(added, generated, places)
  BY <1>1, <1>3, <1>6, PartIsThere
<1>8. \A n \in 1 .. Len(added) : \A j \in 1 .. Len(selected) : added[n] # selected[j]
  BY <1>4, <1>7 DEF PartOf
<1>9. \A g \in 1 .. Len(generated) :
        (\E j \in 1 .. Len(selected) : generated[g] = selected[j]) \/ (\E n \in 1 .. Len(added) : added[n] = generated[g])
  BY <1>5, <1>7 DEF PartOf
<1>10. PICK l \in Nat, f \in Nat : l = Len(selected) /\ f = Len(added)
  <2>1. Len(selected) \in Nat /\ Len(added) \in Nat
    BY <1>1
  <2> QED BY <2>1
<1>11. PICK all \in Seq(E) : /\ all = selected \o added /\ Len(all) = l + f
                              /\ \A i \in 1 .. l + f : all[i] = IF i <= l THEN selected[i] ELSE added[i - l]
  <2>1. /\ selected \o added \in Seq(E)
        /\ Len(selected \o added) = Len(selected) + Len(added)
        /\ \A i \in 1 .. Len(selected) + Len(added) :
             (selected \o added)[i] = IF i <= Len(selected) THEN selected[i] ELSE added[i - Len(selected)]
    BY ConcatProperties
  <2> QED BY <1>10, <2>1
<1>12. PICK kept \in Seq(E) : /\ kept = Limited(selected, generated, max)
                              /\ Len(kept) = IF l + f < max THEN l + f ELSE max
                              /\ \A i \in 1 .. Len(kept) : kept[i] = all[i]
  <2>1. Limited(selected, generated, max) = FirstOf(all, max)
    BY <1>3, <1>6, <1>11 DEF Limited
  <2>2. /\ FirstOf(all, max) \in Seq(E)
        /\ Len(FirstOf(all, max)) = IF Len(all) < max THEN Len(all) ELSE max
        /\ \A i \in 1 .. Len(FirstOf(all, max)) : FirstOf(all, max)[i] = all[i]
    BY FirstOnes
  <2> QED BY <1>11, <2>1, <2>2
<1>13. PICK k \in Nat : k = Len(kept) /\ DOMAIN kept = 1 .. k /\ k <= max /\ k <= l + f
  BY <1>10, <1>12
<1>14. \A i \in 1 .. k : i <= l => kept[i] = selected[i]
  BY <1>10, <1>11, <1>12, <1>13
<1>15. \A i \in 1 .. k : i > l => i - l \in 1 .. f /\ kept[i] = added[i - l]
  BY <1>10, <1>11, <1>12, <1>13
<1>16. \A i \in 1 .. k : i > l => \A j \in 1 .. l : kept[i] # selected[j]
  BY <1>8, <1>10, <1>15
<1>17. k < max => k = l + f
  BY <1>10, <1>12, <1>13
<1>18. ASSUME k < max, NEW g \in 1 .. Len(generated)
       PROVE  (\E j \in 1 .. l : generated[g] = selected[j]) \/ (\E i \in 1 .. k : kept[i] = generated[g])
  <2>1. CASE \E n \in 1 .. f : added[n] = generated[g]
    <3>1. PICK n \in 1 .. f : added[n] = generated[g]
      BY <2>1
    <3>2. PICK i \in 1 .. k : i = l + n
      BY <1>10, <1>17, <1>18
    <3>3. i > l /\ i - l = n
      BY <1>10, <3>2
    <3> QED BY <1>15, <3>1, <3>3
  <2> QED BY <1>9, <1>10, <2>1
<1>19. k < l => k = max
  BY <1>10, <1>13, <1>17
<1>20. k < max => l <= k
  BY <1>10, <1>17
<1> HIDE DEF places
<1>21. Runs(kept, selected, generated, max)
  BY <1>10, <1>13, <1>14, <1>16, <1>18, <1>19, <1>20 DEF Runs
<1> QED BY <1>12, <1>21

\* The best score of a chunk is one of its scores, and no score is better.
LEMMA BestScoreIsBest ==
  ASSUME request \in Requests, HasCatalog(request), NEW c \in request.chunks
  PROVE  /\ BestScore(c) \in 0 .. 100
         /\ \E r \in request.required : request.score[r][c] = BestScore(c)
         /\ \A r \in request.required : request.score[r][c] <= BestScore(c)
<1> DEFINE S == {request.score[r][c] : r \in request.required}
<1>1. /\ request.required \in SUBSET Nat /\ IsFiniteSet(request.required) /\ request.required # {}
      /\ request.score \in [request.required -> [request.chunks -> 0 .. 100]]
  BY OrchestratorAssumption DEF HasCatalog
<1>2. S \in SUBSET (0 .. 100) /\ S \in SUBSET Nat /\ S # {}
  BY <1>1
<1>3. IsFiniteSet(S)
  <2>1. PICK n \in Nat : n = 100
    OBVIOUS
  <2>2. \A s \in S : s <= n
    BY <1>2, <2>1
  <2> HIDE DEF S
  <2> QED BY <1>2, <2>2, FS_BoundedSetOfNaturals
<1>4. PICK s \in S : \A t \in S : t <= s
  <2> HIDE DEF S
  <2> QED BY <1>2, <1>3, LargestIsThere
<1>5. BestScore(c) \in S /\ \A t \in S : t <= BestScore(c)
  <2>1. BestScore(c) = CHOOSE x \in S : \A t \in S : t <= x
    BY DEF BestScore
  <2> HIDE DEF S
  <2> QED BY <1>4, <2>1
<1> QED BY <1>2, <1>5

\* Once select() has answered, ...
SelectionOK ==
  /\ HasCatalog(request) => SelectedOK(request, metadata)
  /\ ~ HasCatalog(request) => metadata = <<>>
  /\ asked = Uncovered(request, metadata)

\* ... and once the limit was applied.
AnswerOK ==
  /\ answer.generated \in [DOMAIN scenarios -> FreshIds \cup request.chunks]
  /\ Runs(answer.scenarios, SelectedIds, answer.generated, request.max)
  /\ answer.uncovered = IF HasCatalog(request) THEN asked ELSE {}

OrchestratorInv ==
  /\ PlannerInv
  /\ request \in Requests
  /\ phase \in {"select", "generate", "limit", "answered"}
  /\ phase # "select" => SelectionOK
  /\ phase = "limit" \/ phase = "answered" => asked = {} \/ scenarios # <<>>
  /\ phase = "answered" => AnswerOK

LEMMA SelectionStays ==
  ASSUME SelectionOK, UNCHANGED <<request, metadata, asked>>
  PROVE  SelectionOK'
<1>1. PICK q, md, as : q = request /\ md = metadata /\ as = asked
  OBVIOUS
<1>2. request' = q /\ metadata' = md /\ asked' = as
  BY <1>1
<1>3. (HasCatalog(q) => SelectedOK(q, md)) /\ (~ HasCatalog(q) => md = <<>>) /\ as = Uncovered(q, md)
  BY <1>1 DEF SelectionOK
<1> QED BY <1>2, <1>3 DEF SelectionOK

LEMMA OrchestratorInvInit ==
  ASSUME OrchestratorInit
  PROVE  OrchestratorInv
BY PlannerInvInit DEF OrchestratorInit, OrchestratorInv

LEMMA SelectKeepsInv ==
  ASSUME OrchestratorInv, SelectScenarios
  PROVE  OrchestratorInv'
<1>1. PlannerInv' /\ request' = request /\ request \in Requests
  BY PlannerInvStays DEF OrchestratorInv, SelectScenarios
<1>2. PICK q \in Requests : q = request
  BY <1>1
<1>3. PICK md : md = IF HasCatalog(q) THEN Select(q) ELSE <<>>
  OBVIOUS
<1>4. PICK as : as = Uncovered(q, md)
  OBVIOUS
<1>5. request' = q /\ metadata' = md /\ asked' = as /\ phase' = IF as = {} THEN "limit" ELSE "generate"
  BY <1>1, <1>2, <1>3, <1>4 DEF SelectScenarios
<1>6. (HasCatalog(q) => SelectedOK(q, md)) /\ (~ HasCatalog(q) => md = <<>>)
  BY <1>3, SelectPicksTheBest
<1>7. SelectionOK'
  BY <1>4, <1>5, <1>6 DEF SelectionOK
<1>8. phase' = "limit" => asked' = {}
  BY <1>5
<1>9. phase' = "limit" \/ phase' = "generate"
  BY <1>5
<1> QED BY <1>1, <1>7, <1>8, <1>9 DEF OrchestratorInv

LEMMA GenerateKeepsInv ==
  ASSUME OrchestratorInv, Generate
  PROVE  OrchestratorInv'
<1>1. PlannerInv' /\ request' = request /\ request \in Requests
  BY PlannerStep DEF OrchestratorInv, Generate
<1>2. SelectionOK'
  BY SelectionStays DEF OrchestratorInv, Generate
<1>3. phase' = "limit" => scenarios' # <<>>
  <2>1. PlannerTypes'
    BY <1>1 DEF PlannerInv
  <2>2. phase' = "limit" => stage' = "done"
    BY DEF Generate
  <2>3. stage' # "build" => scenarios' # <<>>
    BY <2>1 DEF PlannerTypes
  <2> QED BY <2>2, <2>3
<1>4. phase' = "limit" \/ phase' = "generate"
  BY DEF Generate
<1> QED BY <1>1, <1>2, <1>3, <1>4 DEF OrchestratorInv

\* The ids of the matches.
LEMMA SelectedAreIds ==
  ASSUME request \in Requests, SelectionOK
  PROVE  /\ SelectedIds \in Seq(request.chunks)
         /\ Len(SelectedIds) = Len(metadata)
         /\ \A i \in 1 .. Len(metadata) : SelectedIds[i] = metadata[i].chunk
<1>1. metadata \in Seq(Matches(request))
  <2>1. CASE HasCatalog(request)
    BY <2>1 DEF SelectionOK, SelectedOK
  <2>2. CASE ~ HasCatalog(request)
    <3>1. metadata = <<>>
      BY <2>2 DEF SelectionOK
    <3>2. <<>> \in Seq(Matches(request))
      OBVIOUS
    <3> QED BY <3>1, <3>2
  <2> QED BY <2>1, <2>2
<1>2. PICK n \in Nat : n = Len(metadata) /\ DOMAIN metadata = 1 .. n
  BY <1>1
<1>3. \A i \in 1 .. n : metadata[i].chunk \in request.chunks
  <2> TAKE i \in 1 .. n
  <2>1. metadata[i] \in Matches(request)
    BY <1>1, <1>2, ElementOfSeq
  <2> QED BY <2>1 DEF Matches
<1>4. SelectedIds = [i \in 1 .. n |-> metadata[i].chunk]
  BY <1>2 DEF SelectedIds
<1>5. SelectedIds \in [1 .. n -> request.chunks]
  BY <1>3, <1>4
<1> QED BY <1>2, <1>4, <1>5

LEMMA LimitKeepsInv ==
  ASSUME OrchestratorInv, ApplyScenarioLimit
  PROVE  OrchestratorInv'
<1>1. /\ PlannerInv' /\ request' = request /\ request \in Requests /\ phase = "limit" /\ phase' = "answered"
      /\ scenarios' = scenarios /\ metadata' = metadata /\ asked' = asked
  BY PlannerInvStays DEF OrchestratorInv, ApplyScenarioLimit, plannerVars
<1>2. SelectionOK
  BY <1>1 DEF OrchestratorInv
<1>3. SelectionOK'
  BY <1>1, <1>2, SelectionStays
<1>4. PICK ids \in [DOMAIN scenarios -> FreshIds \cup request.chunks] :
        answer' = [scenarios |-> Limited(SelectedIds, ids, request.max),
                   generated |-> ids,
                   uncovered |-> IF HasCatalog(request) THEN asked ELSE {}]
  BY DEF ApplyScenarioLimit
<1>5. PICK E : E = FreshIds \cup request.chunks
  OBVIOUS
<1>6. PICK sel : sel = SelectedIds
  OBVIOUS
<1>7. SelectedIds' = sel
  BY <1>1, <1>6 DEF SelectedIds
<1>8. sel \in Seq(E)
  <2>1. sel \in Seq(request.chunks)
    BY <1>1, <1>2, <1>6, SelectedAreIds
  <2> QED BY <1>5, <2>1
<1>9. ids \in Seq(E)
  <2>1. scenarios \in Seq(Seq(Task))
    BY DEF OrchestratorInv, PlannerInv, PlannerTypes
  <2>2. PICK n \in Nat : DOMAIN scenarios = 1 .. n
    BY <2>1
  <2>3. ids \in [1 .. n -> E]
    BY <1>4, <1>5, <2>2
  <2> QED BY <2>3
<1>10. request.max \in Nat
  BY <1>1, OrchestratorAssumption
<1>11. Runs(Limited(sel, ids, request.max), sel, ids, request.max)
  BY <1>8, <1>9, <1>10, LimitedRuns
<1>12. AnswerOK'
  <2>1. PICK q, kept : q = request /\ kept = Limited(sel, ids, q.max)
    OBVIOUS
  <2>2. answer'.scenarios = kept /\ answer'.generated = ids /\ request' = q
        /\ answer'.uncovered = IF HasCatalog(q) THEN asked ELSE {}
    BY <1>1, <1>4, <1>6, <2>1
  <2>3. Runs(kept, sel, ids, q.max)
    BY <1>11, <2>1
  <2>4. ids \in [DOMAIN scenarios -> FreshIds \cup q.chunks]
    BY <2>1
  <2> QED BY <1>1, <1>7, <2>2, <2>3, <2>4 DEF AnswerOK
<1>13. asked' = {} \/ scenarios' # <<>>
  BY <1>1 DEF OrchestratorInv
<1> QED BY <1>1, <1>3, <1>12, <1>13 DEF OrchestratorInv

LEMMA OrchestratorInvStays ==
  ASSUME OrchestratorInv, UNCHANGED <<plannerVars, orchestration>>
  PROVE  OrchestratorInv'
<1>1. /\ PlannerInv' /\ request' = request /\ phase' = phase /\ asked' = asked /\ metadata' = metadata
      /\ answer' = answer /\ scenarios' = scenarios
  BY PlannerInvStays DEF OrchestratorInv, orchestration, plannerVars
<1>2. SelectionOK => SelectionOK'
  BY <1>1, SelectionStays
<1>3. AnswerOK => AnswerOK'
  <2>1. PICK q, md, a : q = request /\ md = metadata /\ a = answer
    OBVIOUS
  <2>2. request' = q /\ metadata' = md /\ answer' = a
    BY <1>1, <2>1
  <2>3. PICK sel : sel = SelectedIds
    OBVIOUS
  <2>4. SelectedIds' = sel
    BY <1>1, <2>3 DEF SelectedIds
  <2>5. AnswerOK <=> /\ a.generated \in [DOMAIN scenarios -> FreshIds \cup q.chunks]
                     /\ Runs(a.scenarios, sel, a.generated, q.max)
                     /\ a.uncovered = IF HasCatalog(q) THEN asked ELSE {}
    BY <2>1, <2>3 DEF AnswerOK
  <2>6. AnswerOK' <=> /\ a.generated \in [DOMAIN scenarios -> FreshIds \cup q.chunks]
                      /\ Runs(a.scenarios, sel, a.generated, q.max)
                      /\ a.uncovered = IF HasCatalog(q) THEN asked ELSE {}
    BY <1>1, <2>2, <2>4 DEF AnswerOK
  <2> QED BY <2>5, <2>6
<1> QED BY <1>1, <1>2, <1>3 DEF OrchestratorInv

\* What select() answered, what the planner made of the rest and what the limit
\* left of both, at every step of orchestrate().
THEOREM OrchestratorInvariant == OrchestratorSpec => []OrchestratorInv
<1>1. OrchestratorInv /\ [OrchestratorNext]_<<plannerVars, orchestration>> => OrchestratorInv'
  BY SelectKeepsInv, GenerateKeepsInv, LimitKeepsInv, OrchestratorInvStays DEF OrchestratorNext
<1> QED BY OrchestratorInvInit, <1>1, PTL DEF OrchestratorSpec

\* A requirement is served: the memory's scenario for it runs, or what was made.
LEMMA RequirementsServed ==
  ASSUME OrchestratorInv
  PROVE  RequirementsAreServed
<1> SUFFICES ASSUME Answered, NEW r \in request.required
             PROVE  LET runs == ToSet(answer.scenarios)
                    IN \/ Len(answer.scenarios) = request.max
                       \/ \E i \in DOMAIN metadata : metadata[i].required = r /\ metadata[i].chunk \in runs
                       \/ /\ r \in asked
                          /\ HasCatalog(request) => r \in answer.uncovered
                          /\ answer.generated # <<>>
                          /\ \/ ToSet(answer.generated) \cap runs # {}
                             \/ ToSet(answer.generated) \subseteq ToSet(SelectedIds)
  BY DEF RequirementsAreServed
<1>1. SelectionOK /\ AnswerOK /\ request \in Requests /\ (asked = {} \/ scenarios # <<>>)
  BY DEF OrchestratorInv, Answered
<1>2. PICK kept, ids, sel, md, max : /\ kept = answer.scenarios /\ ids = answer.generated /\ sel = SelectedIds
                                     /\ md = metadata /\ max = request.max
  OBVIOUS
<1>3. Runs(kept, sel, ids, max)
  BY <1>1, <1>2 DEF AnswerOK
<1>31. \A i \in 1 .. Len(kept) : i <= Len(sel) => kept[i] = sel[i]
  BY <1>3 DEF Runs
<1>32. \A i \in 1 .. Len(kept) : i > Len(sel) => \A j \in 1 .. Len(sel) : kept[i] # sel[j]
  BY <1>3 DEF Runs
<1>33. (Len(kept) < max => Len(sel) <= Len(kept)) /\ (Len(kept) < Len(sel) => Len(kept) = max)
  BY <1>3 DEF Runs
<1>34. Len(kept) < max =>
         \A g \in 1 .. Len(ids) :
           (\E j \in 1 .. Len(sel) : ids[g] = sel[j]) \/ (\E i \in 1 .. Len(kept) : kept[i] = ids[g])
  BY <1>3 DEF Runs
<1>4. /\ sel \in Seq(request.chunks) /\ Len(sel) = Len(md)
      /\ \A i \in 1 .. Len(md) : sel[i] = md[i].chunk
  BY <1>1, <1>2, SelectedAreIds
<1>5. Len(sel) \in Nat /\ DOMAIN sel = 1 .. Len(sel) /\ max \in Nat
  <2>1. max \in 1 .. 100
    BY <1>1, <1>2, OrchestratorAssumption
  <2>2. Len(sel) \in Nat /\ DOMAIN sel = 1 .. Len(sel)
    BY <1>4
  <2>3. max \in Nat
    BY <2>1
  <2> QED BY <2>2, <2>3
<1>6. DOMAIN md = 1 .. Len(md)
  <2>1. SelectedIds = [i \in DOMAIN md |-> md[i].chunk]
    BY <1>2 DEF SelectedIds
  <2>2. DOMAIN sel = DOMAIN md
    BY <1>2, <2>1
  <2> QED BY <1>4, <1>5, <2>2
<1>7. Len(kept) \in Nat /\ DOMAIN kept = 1 .. Len(kept) /\ Len(kept) <= max
  BY <1>3 DEF Runs
<1>71. PICK l \in Nat, k \in Nat : l = Len(sel) /\ k = Len(kept)
  BY <1>5, <1>7
<1>72. max \in Nat /\ k <= max
  BY <1>5, <1>7, <1>71
<1>73. k = max \/ k < max
  BY <1>72
<1>8. \A i \in 1 .. Len(kept) : kept[i] \in ToSet(kept)
  BY <1>7 DEF ToSet
<1>9. CASE Len(kept) = max
  BY <1>2, <1>9
<1>10. CASE Len(kept) # max /\ r \notin asked
  <2>1. PICK i \in DOMAIN md : md[i].required = r
    BY <1>1, <1>2, <1>10 DEF SelectionOK, Uncovered, ToSet
  <2>2. i \in 1 .. Len(kept) /\ i <= Len(sel)
    <3>1. k < max
      BY <1>10, <1>71, <1>73
    <3>2. l <= k
      BY <1>33, <1>71, <3>1
    <3>3. i \in 1 .. l
      BY <1>4, <1>6, <1>71, <2>1
    <3>4. i \in 1 .. k /\ i <= l
      BY <3>2, <3>3
    <3> QED BY <1>71, <3>4
  <2>3. kept[i] = md[i].chunk
    BY <1>4, <1>6, <1>31, <2>1, <2>2
  <2>4. md[i].chunk \in ToSet(kept)
    BY <1>8, <2>2, <2>3
  <2> QED BY <1>2, <2>1, <2>4
<1>11. CASE Len(kept) # max /\ r \in asked
  <2>1. scenarios # <<>>
    BY <1>1, <1>11
  <2>2. PICK n \in Nat : DOMAIN scenarios = 1 .. n /\ n > 0
    <3>1. scenarios \in Seq(Seq(Task))
      BY DEF OrchestratorInv, PlannerInv, PlannerTypes
    <3>2. Len(scenarios) \in Nat /\ DOMAIN scenarios = 1 .. Len(scenarios) /\ Len(scenarios) # 0
      BY <2>1, <3>1, EmptySeq
    <3>3. PICK n \in Nat : n = Len(scenarios)
      BY <3>2
    <3>4. DOMAIN scenarios = 1 .. n
      BY <3>2, <3>3
    <3>5. n > 0
      BY <3>2, <3>3
    <3> QED BY <3>4, <3>5
  <2>3. ids \in [1 .. n -> FreshIds \cup request.chunks]
    BY <1>1, <1>2, <2>2 DEF AnswerOK
  <2>4. Len(ids) = n /\ DOMAIN ids = 1 .. n /\ ids # <<>>
    <3>1. ids \in Seq(FreshIds \cup request.chunks) /\ DOMAIN ids = 1 .. n
      BY <2>3
    <3>2. Len(ids) = n
      BY <3>1
    <3>3. ids # <<>>
      BY <2>2, <3>2
    <3> QED BY <3>1, <3>2, <3>3
  <2>5. \A g \in 1 .. n :
          (\E j \in 1 .. Len(sel) : ids[g] = sel[j]) \/ (\E i \in 1 .. Len(kept) : kept[i] = ids[g])
    <3>1. Len(kept) < max
      BY <1>11, <1>71, <1>73
    <3> QED BY <1>34, <2>4, <3>1
  <2>6. \A g \in 1 .. n : ids[g] \in ToSet(sel) \/ ids[g] \in ToSet(kept)
    BY <1>5, <1>8, <2>5 DEF ToSet
  <2>7. ToSet(ids) \cap ToSet(kept) # {} \/ ToSet(ids) \subseteq ToSet(sel)
    BY <2>4, <2>6 DEF ToSet
  <2>8. HasCatalog(request) => r \in answer.uncovered
    BY <1>1, <1>11 DEF AnswerOK
  <2> QED BY <1>2, <1>11, <2>4, <2>7, <2>8
<1> QED BY <1>9, <1>10, <1>11

\* The score of a match that was chosen is the best one of its chunk.
LEMMA ChosenAtBestScore ==
  ASSUME request \in Requests, HasCatalog(request), SelectedOK(request, metadata),
         NEW i \in 1 .. Len(metadata)
  PROVE  metadata[i].chunk \in request.chunks /\ BestScore(metadata[i].chunk) = metadata[i].score
<1>1. metadata \in Seq(Matches(request)) /\ metadata[i] \in Matches(request)
  BY ElementOfSeq DEF SelectedOK
<1>2. PICK m \in Matches(request) : m = metadata[i]
  BY <1>1
<1>3. m.required \in request.required /\ m.chunk \in request.chunks /\ m.score = request.score[m.required][m.chunk]
  BY DEF Matches
<1>4. PICK best \in 0 .. 100 : best = BestScore(m.chunk)
  BY <1>3, BestScoreIsBest
<1>5. PICK r \in request.required : request.score[r][m.chunk] = best
  BY <1>3, <1>4, BestScoreIsBest
<1>6. m.score <= best
  BY <1>3, <1>4, BestScoreIsBest
<1>7. MinMatchScore \in Nat /\ m.score \in MinMatchScore .. 100
  BY OrchestratorAssumption DEF Matches
<1>8. [required |-> r, chunk |-> m.chunk, score |-> best] \in Matches(request)
  <2>1. best \in MinMatchScore .. 100
    BY <1>6, <1>7
  <2> QED BY <1>3, <1>5, <2>1 DEF Matches
<1>9. best <= m.score
  BY <1>2, <1>7, <1>8 DEF SelectedOK
<1> QED BY <1>2, <1>3, <1>4, <1>6, <1>7, <1>9

LEMMA IntervalCount ==
  ASSUME NEW n \in Nat
  PROVE  IsFiniteSet(1 .. n) /\ Cardinality(1 .. n) = n
BY FS_Interval

\* Of the good chunks those that run come first in the selection: as many as the
\* limits leave room for.
LEMMA BestRun ==
  ASSUME OrchestratorInv
  PROVE  BestScenariosRun
<1> DEFINE good == {c \in request.chunks : HasCatalog(request) /\ BestScore(c) >= MinMatchScore}
           room == IF request.max < MaxSelected THEN request.max ELSE MaxSelected
           As(c) == {k \in good \cap ToSet(answer.scenarios) \cap ToSet(SelectedIds) : BestScore(k) >= BestScore(c)}
<1> SUFFICES ASSUME Answered
             PROVE  /\ Len(answer.scenarios) <= request.max
                    /\ \A c \in good \ ToSet(answer.scenarios) : Cardinality(As(c)) = room
                    /\ \A i, j \in DOMAIN answer.scenarios :
                         answer.scenarios[i] = answer.scenarios[j] /\ i # j => answer.scenarios[i] \notin ToSet(SelectedIds)
  BY DEF BestScenariosRun
<1>1. SelectionOK /\ AnswerOK /\ request \in Requests
  BY DEF OrchestratorInv, Answered
<1>2. PICK kept, ids, sel, md, max : /\ kept = answer.scenarios /\ ids = answer.generated /\ sel = SelectedIds
                                     /\ md = metadata /\ max = request.max
  OBVIOUS
<1>3. Runs(kept, sel, ids, max)
  BY <1>1, <1>2 DEF AnswerOK
<1>31. \A i \in 1 .. Len(kept) : i <= Len(sel) => kept[i] = sel[i]
  BY <1>3 DEF Runs
<1>32. \A i \in 1 .. Len(kept) : i > Len(sel) => \A j \in 1 .. Len(sel) : kept[i] # sel[j]
  BY <1>3 DEF Runs
<1>33. (Len(kept) < max => Len(sel) <= Len(kept)) /\ (Len(kept) < Len(sel) => Len(kept) = max)
  BY <1>3 DEF Runs
<1>4. /\ sel \in Seq(request.chunks) /\ Len(sel) = Len(md)
      /\ \A i \in 1 .. Len(md) : sel[i] = md[i].chunk
  BY <1>1, <1>2, SelectedAreIds
<1>5. Len(sel) \in Nat /\ DOMAIN sel = 1 .. Len(sel) /\ max \in Nat /\ MaxSelected \in Nat
  <2>1. max \in 1 .. 100 /\ MaxSelected \in Nat
    BY <1>1, <1>2, OrchestratorAssumption
  <2>2. Len(sel) \in Nat /\ DOMAIN sel = 1 .. Len(sel)
    BY <1>4
  <2>3. max \in Nat
    BY <2>1
  <2> QED BY <2>1, <2>2, <2>3
<1>6. Len(kept) \in Nat /\ DOMAIN kept = 1 .. Len(kept) /\ Len(kept) <= max
  BY <1>3 DEF Runs
<1>7. /\ ToSet(kept) = {kept[i] : i \in 1 .. Len(kept)}
      /\ ToSet(sel) = {sel[i] : i \in 1 .. Len(sel)}
  BY <1>5, <1>6 DEF ToSet
<1>8. \A i, j \in 1 .. Len(sel) : i < j => sel[i] # sel[j]
  <2>1. CASE HasCatalog(request)
    BY <1>1, <1>2, <1>4, <2>1 DEF SelectionOK, SelectedOK
  <2>2. CASE ~ HasCatalog(request)
    <3>1. Len(sel) = 0
      BY <1>1, <1>2, <1>4, <2>2 DEF SelectionOK
    <3> QED BY <3>1
  <2> QED BY <2>1, <2>2
<1>9. ASSUME NEW i \in DOMAIN kept, NEW j \in DOMAIN kept, kept[i] = kept[j], i # j, kept[i] \in ToSet(sel)
      PROVE  FALSE
  <2>1. i \in 1 .. Len(kept) /\ j \in 1 .. Len(kept)
    BY <1>6, <1>9
  <2>2. \E a \in 1 .. Len(sel) : kept[i] = sel[a]
    BY <1>7, <1>9
  <2>3. ~ (i > Len(sel)) /\ ~ (j > Len(sel))
    BY <1>9, <1>32, <2>1, <2>2
  <2>4. i \in 1 .. Len(sel) /\ j \in 1 .. Len(sel)
    BY <1>5, <1>6, <2>1, <2>3
  <2>5. kept[i] = sel[i] /\ kept[j] = sel[j]
    BY <1>5, <1>31, <2>1, <2>4
  <2>6. i < j \/ j < i
    BY <1>5, <1>9, <2>4
  <2>7. sel[i] # sel[j]
    BY <1>8, <2>4, <2>6
  <2> QED BY <1>9, <2>5, <2>7
<1>10. ASSUME NEW c \in good \ ToSet(kept) PROVE Cardinality(As(c)) = room
  <2>1. HasCatalog(request) /\ SelectedOK(request, md) /\ c \in request.chunks
    BY <1>1, <1>2, <1>10 DEF SelectionOK
  <2>2. PICK best \in 0 .. 100 : best = BestScore(c)
    BY <1>1, <2>1, BestScoreIsBest
  <2>3. PICK r \in request.required : request.score[r][c] = best
    BY <1>1, <2>1, <2>2, BestScoreIsBest
  <2>4. best \in MinMatchScore .. 100
    BY <1>10, <2>2, OrchestratorAssumption
  <2>5. PICK m \in Matches(request) : m = [required |-> r, chunk |-> c, score |-> best]
    BY <2>1, <2>3, <2>4 DEF Matches
  <2>6. \A i \in 1 .. Len(sel) : sel[i] \in request.chunks /\ BestScore(sel[i]) = md[i].score
    BY <1>1, <1>2, <1>4, <2>1, ChosenAtBestScore
  <2>7. PICK n \in Nat : n = room /\ (n = max \/ n = MaxSelected) /\ n <= max /\ n <= MaxSelected
    BY <1>2, <1>5
  <2>8. n <= Len(sel) /\ n <= Len(kept) /\ \A i \in 1 .. n : md[i].score >= best
    <3>1. CASE \A i \in 1 .. Len(md) : md[i].chunk # c
      <4>1. Len(md) = MaxSelected /\ \A i \in 1 .. Len(md) : md[i].score >= best
        BY <2>1, <2>5, <3>1 DEF SelectedOK
      <4>2. n <= Len(sel)
        BY <1>4, <2>7, <4>1
      <4>3. Len(kept) < n => FALSE
        <5>1. PICK l \in Nat, k \in Nat : l = Len(sel) /\ k = Len(kept)
          BY <1>5, <1>6
        <5>2. (k < max => l <= k) /\ (k < l => k = max)
          BY <1>33, <5>1
        <5>3. n <= l /\ n <= max /\ max \in Nat
          BY <1>5, <2>7, <4>2, <5>1
        <5>4. ~ (k < n)
          BY <5>2, <5>3
        <5> QED BY <5>1, <5>4
      <4> QED BY <1>4, <1>5, <1>6, <2>7, <4>1, <4>2, <4>3
    <3>2. CASE \E a \in 1 .. Len(md) : md[a].chunk = c
      <4>1. PICK a \in 1 .. Len(sel) : sel[a] = c /\ md[a].chunk = c
        BY <1>4, <3>2
      <4>2. a \notin 1 .. Len(kept)
        <5> SUFFICES ASSUME a \in 1 .. Len(kept) PROVE FALSE
          OBVIOUS
        <5>1. kept[a] = sel[a]
          BY <1>5, <1>31, <4>1
        <5>2. kept[a] \in ToSet(kept)
          BY <1>7
        <5> QED BY <1>10, <4>1, <5>1, <5>2
      <4>3. Len(kept) < a /\ Len(kept) < Len(sel)
        BY <1>5, <1>6, <4>1, <4>2
      <4>4. Len(kept) = max
        BY <1>33, <4>3
      <4>5. Len(md) <= MaxSelected
        BY <2>1 DEF SelectedOK
      <4>6. n = max /\ n < a
        BY <1>4, <1>5, <1>6, <2>7, <4>3, <4>4, <4>5
      <4>7. \A i \in 1 .. n : md[i].score >= md[a].score
        <5>1. \A i, j \in 1 .. Len(md) : i < j => md[i].score >= md[j].score
          BY <2>1 DEF SelectedOK
        <5>2. \A i \in 1 .. n : i \in 1 .. Len(md) /\ a \in 1 .. Len(md) /\ i < a
          BY <1>4, <1>5, <4>1, <4>6
        <5> QED BY <5>1, <5>2
      <4>8. md[a].score = best
        BY <2>2, <2>6, <4>1
      <4> QED BY <1>5, <1>6, <4>1, <4>4, <4>6, <4>7, <4>8
    <3> QED BY <3>1, <3>2
  <2> DEFINE T == {sel[i] : i \in 1 .. n}
  <2>9. As(c) = T
    <3>1. \A i \in 1 .. n : /\ i \in 1 .. Len(sel) /\ i \in 1 .. Len(kept) /\ kept[i] = sel[i]
      <4> TAKE i \in 1 .. n
      <4>1. i \in 1 .. Len(sel) /\ i \in 1 .. Len(kept) /\ i <= Len(sel)
        BY <1>5, <1>6, <2>8
      <4> QED BY <1>31, <4>1
    <3>2. ASSUME NEW i \in 1 .. n PROVE sel[i] \in As(c)
      <4>1. sel[i] \in ToSet(kept) /\ sel[i] \in ToSet(sel) /\ sel[i] \in request.chunks
        BY <1>7, <2>6, <3>1
      <4>2. BestScore(sel[i]) >= best
        BY <2>6, <2>8, <3>1
      <4>3. BestScore(sel[i]) \in 0 .. 100
        BY <1>1, <2>1, <4>1, BestScoreIsBest
      <4>4. BestScore(sel[i]) >= MinMatchScore
        BY <2>4, <4>2, <4>3, OrchestratorAssumption
      <4>5. sel[i] \in good
        BY <2>1, <4>1, <4>4
      <4> QED BY <1>2, <2>2, <4>1, <4>2, <4>5
    <3>3. ASSUME NEW k \in As(c) PROVE \E i \in 1 .. n : k = sel[i]
      <4>1. k \in ToSet(kept) /\ k \in ToSet(sel)
        BY <1>2
      <4>2. PICK a \in 1 .. Len(sel) : k = sel[a]
        BY <1>7, <4>1
      <4>3. PICK i \in 1 .. Len(kept) : k = kept[i]
        BY <1>7, <4>1
      <4>4. i <= Len(sel) /\ i \in 1 .. Len(sel) /\ k = sel[i]
        <5>1. ~ (i > Len(sel))
          BY <1>32, <4>2, <4>3
        <5>2. i \in 1 .. Len(sel)
          BY <1>5, <1>6, <4>3, <5>1
        <5> QED BY <1>5, <1>31, <4>3, <5>2
      <4>5. i <= n
        <5>1. Len(md) <= MaxSelected
          BY <2>1 DEF SelectedOK
        <5> QED BY <1>4, <1>5, <1>6, <2>7, <4>3, <4>4, <5>1
      <4> QED BY <4>4, <4>5
    <3> HIDE DEF As
    <3> QED BY <3>2, <3>3
  <2>10. Cardinality(T) = n
    <3> DEFINE f == [i \in 1 .. n |-> sel[i]]
    <3>1. \A i, j \in 1 .. n : sel[i] = sel[j] => i = j
      BY <1>5, <1>8, <2>8
    <3>2. f \in Bijection(1 .. n, T)
      BY <3>1 DEF Bijection, Injection, IsInjective, Surjection
    <3>3. IsFiniteSet(1 .. n) /\ Cardinality(1 .. n) = n
      BY IntervalCount
    <3>4. ExistsBijection(1 .. n, T)
      BY <3>2 DEF ExistsBijection
    <3> HIDE DEF T, f
    <3> QED BY <3>3, <3>4, FS_Bijection
  <2> QED BY <2>7, <2>9, <2>10
<1> HIDE DEF As, good, room
<1> QED BY <1>2, <1>6, <1>9, <1>10

\* The memory and what is made serve the requirements, and the limits cut what
\* serves least.
THEOREM TheBestServe == OrchestratorSpec => []ServedByTheBest
<1>1. OrchestratorInv => ServedByTheBest
  BY RequirementsServed, BestRun DEF ServedByTheBest
<1> QED BY <1>1, OrchestratorInvariant, PTL

----------------------------------------------------------------------------
(* The reactive runner.                                                    *)

StepRecord == [proof : BOOLEAN, valid : BOOLEAN, error : BOOLEAN]

\* What is told of the tasks has its type.
BooksOK ==
  /\ task \in 1 .. N + 1
  /\ status \in [1 .. N -> {"PENDING", "PASSED", "BLOCKED", "SKIPPED"}]
  /\ outcome \in {"running", "done", "thrown"}
  /\ lastStep \in [1 .. N -> StepRecord]
  /\ bugs \in [1 .. N -> Nat]
  /\ memory \in [1 .. N -> {"NONE", "PLANNING", "ACTING", "BLOCKED", "DONE"}]

\* So have the variables of the two loops.
LoopsOK ==
  /\ pc \in {"task", "cycle", "semantic", "decide", "policy", "validate", "recover", "verdict",
             "semanticAgain", "nextCycle", "done"}
  /\ cycle \in 1 .. MaxCycles
  /\ attempts \in Nat
  /\ tries \in 0 .. Retries + 1
  /\ fresh \in BOOLEAN
  /\ chosen \in Decision
  /\ execOk \in BOOLEAN
  /\ valid \in BOOLEAN
  /\ recoveredOk \in BOOLEAN

\* A task that is worked on may be worked on, and is the one to settle next.
Control ==
  /\ pc = "done" <=> outcome # "running"
  /\ pc \notin {"task", "done"} => task <= N /\ Ready
  /\ pc \in {"semantic", "decide"} => tries <= Retries

\* Nothing final was told of the tasks still to settle.
NothingTold ==
  outcome = "running" =>
    \A t \in task .. N : status[t] = "PENDING" /\ bugs[t] = 0 /\ memory[t] \notin {"DONE", "BLOCKED"}

Told == BlockedTasksHaveOneBug /\ PassesOnAValidStep /\ MemoryAgrees /\ LogoutProven

\* The inductive invariant.
IInv == BooksOK /\ LoopsOK /\ Control /\ NothingTold /\ Told

----------------------------------------------------------------------------
(* The ways a step may change the books.                                    *)

\* A record of a step of the current task, or none.
StepKept == lastStep' = lastStep \/ \E s \in StepRecord : lastStep' = [lastStep EXCEPT ![task] = s]

BlockTold == memory' = memory \/ memory' = [memory EXCEPT ![task] = "BLOCKED"]

Working ==
  /\ pc \notin {"task", "done"} /\ pc' \notin {"task", "done"}
  /\ UNCHANGED <<task, status, outcome, bugs>>
  /\ StepKept
  /\ memory' = memory \/ \E m \in {"PLANNING", "ACTING"} : memory' = [memory EXCEPT ![task] = m]

Passing ==
  /\ pc \notin {"task", "done"}
  /\ Settled("PASSED")
  /\ memory' = [memory EXCEPT ![task] = "DONE"]
  /\ UNCHANGED bugs
  /\ \E s \in StepRecord :
       /\ s.valid /\ ~s.error /\ (Kind[task] = "LOGOUT" => s.proof)
       /\ lastStep' = [lastStep EXCEPT ![task] = s]

Blocking ==
  /\ pc \notin {"task", "done"}
  /\ Settled("BLOCKED")
  /\ bugs' = [bugs EXCEPT ![task] = @ + 1]
  /\ StepKept
  /\ BlockTold

Crashing ==
  /\ pc # "done" /\ pc' = "done"
  /\ outcome' = "thrown"
  /\ \/ UNCHANGED status
     \/ pc # "task" /\ status' = [status EXCEPT ![task] = "BLOCKED"]
  /\ UNCHANGED <<task, bugs>>
  /\ IF pc = "task" THEN UNCHANGED <<lastStep, memory>> ELSE StepKept /\ BlockTold

\* Every step is one of these, or one of the three between two tasks.
Moves == Working \/ Passing \/ Blocking \/ Crashing \/ SkipTask \/ StartTask \/ EndScenario

----------------------------------------------------------------------------
(* Facts about the constants and the records.                               *)

LEMMA Budgets == MaxCycles \in Nat \ {0} /\ Retries \in Nat \ {0}
BY ReactiveAssumption DEF MaxCycles, Retries

LEMMA StepTypes ==
  ASSUME NEW p \in BOOLEAN, NEW v \in BOOLEAN, NEW e \in BOOLEAN
  PROVE  /\ StepTaken(p, v, e) \in StepRecord
         /\ StepTaken(p, v, e).valid = v /\ StepTaken(p, v, e).error = e /\ StepTaken(p, v, e).proof = p
BY DEF StepTaken, StepRecord

LEMMA Types == TypeOK <=> BooksOK /\ LoopsOK
BY DEF TypeOK, BooksOK, LoopsOK, StepRecord

\* Block settles the task as blocked, with its bug, or throws.
LEMMA Blocked ==
  ASSUME pc \notin {"task", "done"}, StepKept, BlockTold, NEW first \in BOOLEAN, Block(first)
  PROVE  Blocking \/ Crashing
BY DEF Block, Blocking, Crashing

----------------------------------------------------------------------------
(* Every step is a move, and keeps the types of the loops.                  *)

LEMMA SemanticMoves ==
  ASSUME BooksOK, LoopsOK, NEW here \in {"semantic", "semanticAgain"}, NEW goOn \in {"decide", "nextCycle"},
         TrySemantic(here, goOn)
  PROVE  Moves
<1> PICK ok \in BOOLEAN :
       /\ Recorded(StepTaken(Kind[task] = "LOGOUT", ok, ~ok))
       /\ \/ ok /\ Pass
          \/ /\ ~ok
             /\ attempts + 1 >= MaxCycles
             /\ Block(TRUE)
             /\ Remembered("BLOCKED")
          \/ /\ ~ok
             /\ attempts + 1 < MaxCycles
             /\ attempts' = attempts + 1
             /\ fresh' = FALSE
             /\ memory' = IF Kind[task] = "THEME" THEN [memory EXCEPT ![task] = "ACTING"] ELSE memory
             /\ pc' = goOn
             /\ UNCHANGED <<task, status, outcome, cycle, tries, chosen, execOk, valid,
                            recoveredOk, bugs>>
  BY DEF TrySemantic
<1> DEFINE s == StepTaken(Kind[task] = "LOGOUT", ok, ~ok)
<1>1. /\ s \in StepRecord /\ s.valid = ok /\ s.error = ~ok /\ s.proof = (Kind[task] = "LOGOUT")
      /\ lastStep' = [lastStep EXCEPT ![task] = s]
  BY StepTypes DEF Recorded
<1>2. StepKept /\ pc \notin {"task", "done"}
  BY <1>1 DEF StepKept, TrySemantic
<1> HIDE DEF s
<1>3. CASE ok /\ Pass
  BY <1>1, <1>2, <1>3 DEF Pass, Passing, Moves, Remembered
<1>4. CASE ~ok /\ Block(TRUE) /\ Remembered("BLOCKED")
  BY <1>2, <1>4, Blocked DEF Remembered, BlockTold, Moves
<1>5. CASE /\ memory' = IF Kind[task] = "THEME" THEN [memory EXCEPT ![task] = "ACTING"] ELSE memory
           /\ pc' = goOn
           /\ UNCHANGED <<task, status, outcome, bugs>>
  BY <1>2, <1>5 DEF Working, Moves
<1> QED
  BY <1>3, <1>4, <1>5

\* The decisions of the LLM.
LEMMA DecisionMoves ==
  ASSUME BooksOK, LoopsOK,
         DecisionAccepted \/ DecisionRejected \/ PolicyRefuses \/ UnresolvedExpectation
  PROVE  Moves
<1>1. CASE DecisionAccepted
  BY <1>1 DEF DecisionAccepted, Working, StepKept, Moves
<1>2. ASSUME pc \notin {"task", "done"}, Recorded(StepTaken(FALSE, FALSE, TRUE)), Remembered("BLOCKED"), Block(FALSE)
      PROVE  Moves
  <2>1. StepKept /\ BlockTold
    BY <1>2, StepTypes DEF Recorded, Remembered, StepKept, BlockTold
  <2> QED
    BY <1>2, <2>1, Blocked DEF Moves
<1>3. CASE PolicyRefuses \/ UnresolvedExpectation
  BY <1>2, <1>3 DEF PolicyRefuses, UnresolvedExpectation
<1>4. CASE DecisionRejected
  <2>1. pc = "decide"
    BY <1>4 DEF DecisionRejected
  <2>2. CASE Rejected /\ pc' \in {"policy", "decide"}
    BY <2>1, <2>2 DEF Rejected, Remembered, Working, StepKept, Moves
  <2> QED
    BY <1>2, <1>4, <2>1, <2>2 DEF DecisionRejected
<1> QED
  BY <1>1, <1>3, <1>4

\* Acting and its verdict.
LEMMA ActionMoves ==
  ASSUME BooksOK, LoopsOK,
         Observe \/ Execute \/ Validate \/ Recover \/ StepSucceeds \/ ConsoleErrors \/ StepFails
  PROVE  Moves
<1>1. CASE Observe \/ Validate \/ Recover
  BY <1>1 DEF Observe, Validate, Recover, Working, StepKept, Moves
<1>2. CASE Execute
  BY <1>2 DEF Execute, Remembered, Working, StepKept, Moves
<1>3. /\ Succeeded \in BOOLEAN /\ Intermediate \in BOOLEAN
      /\ ThisStep \in StepRecord /\ ThisStep.valid = valid
      /\ ThisStep.error = (~Succeeded /\ ~Intermediate) /\ ThisStep.proof = (chosen.expect = "proof")
  <2>1. Succeeded \in BOOLEAN /\ Intermediate \in BOOLEAN /\ valid \in BOOLEAN
    BY DEF Succeeded, Intermediate, LoopsOK
  <2> QED
    BY <2>1, StepTypes DEF ThisStep
<1>4. CASE StepSucceeds
  <2>1. ThisStep.valid /\ ~ThisStep.error /\ (Kind[task] = "LOGOUT" => ThisStep.proof)
    BY <1>3, <1>4 DEF StepSucceeds, Succeeded
  <2> QED
    BY <1>3, <1>4, <2>1 DEF StepSucceeds, Pass, Passing, Recorded, Remembered, Moves
<1>5. CASE ConsoleErrors
  <2>1. StepKept /\ BlockTold /\ pc \notin {"task", "done"}
    BY <1>3, <1>5 DEF ConsoleErrors, Recorded, StepKept, BlockTold
  <2> QED
    BY <1>5, <2>1, Blocked DEF ConsoleErrors, Moves
<1>6. CASE StepFails
  BY <1>3, <1>6 DEF StepFails, Recorded, StepKept, Working, Moves
<1> QED
  BY <1>1, <1>2, <1>4, <1>5, <1>6

LEMMA NextMoves ==
  ASSUME BooksOK, LoopsOK, Next
  PROVE  Moves
<1>1. CASE SemanticFirst \/ SemanticAfterMenu
  BY <1>1, SemanticMoves DEF SemanticFirst, SemanticAfterMenu
<1>2. CASE EndCycle
  <2>1. StepKept /\ pc = "nextCycle"
    BY <1>2 DEF EndCycle, StepKept
  <2>2. CASE Block(TRUE) /\ Remembered("BLOCKED")
    BY <2>1, <2>2, Blocked DEF Remembered, BlockTold, Moves
  <2>3. CASE pc' = "cycle" /\ UNCHANGED <<task, status, outcome, bugs, memory>>
    BY <2>1, <2>3 DEF Working, Moves
  <2> QED
    BY <1>2, <2>2, <2>3 DEF EndCycle, NextCycle
<1>3. CASE Throw
  BY <1>3 DEF Throw, Crashing, StepKept, BlockTold, Moves
<1>4. CASE SkipTask \/ StartTask \/ EndScenario
  BY <1>4 DEF Moves
<1> QED
  BY <1>1, <1>2, <1>3, <1>4, DecisionMoves, ActionMoves DEF Next

\* Each step keeps the types of the loops, and asks again only within its budget.
LEMMA LoopsKept ==
  ASSUME BooksOK, LoopsOK, Control, Next
  PROVE  LoopsOK' /\ (pc' \in {"semantic", "decide"} => tries' <= Retries)
<1> USE Budgets DEF LoopsOK, inner
<1>1. CASE SkipTask \/ StartTask \/ EndScenario \/ Throw
  BY <1>1 DEF SkipTask, StartTask, EndScenario, Throw, Settled
<1>2. CASE Observe
  BY <1>2 DEF Observe
<1>11. CASE Execute
  <2>1. attempts' \in Nat /\ tries' \in 0 .. Retries + 1 /\ cycle' \in 1 .. MaxCycles
    BY <1>11 DEF Execute
  <2>2. /\ execOk' \in BOOLEAN /\ recoveredOk' \in BOOLEAN /\ fresh' \in BOOLEAN /\ valid' \in BOOLEAN
        /\ chosen' \in Decision /\ pc' = "validate"
    BY <1>11 DEF Execute
  <2> QED
    BY <2>1, <2>2
<1>12. CASE Validate
  BY <1>12 DEF Validate
<1>13. CASE Recover
  BY <1>13 DEF Recover
<1>3. CASE DecisionAccepted
  BY <1>3 DEF DecisionAccepted, Accepted
<1>4. ASSUME NEW first \in BOOLEAN, Block(first)
      PROVE  LoopsOK' /\ pc' \notin {"semantic", "decide"}
  BY <1>4 DEF Block, Settled
<1>5. CASE DecisionRejected
  <2>1. Corrected(task) \in Decision
    BY DEF Corrected, Decision
  <2>2. tries <= Retries
    BY <1>5 DEF DecisionRejected, Control
  <2>3. CASE Rejected /\ chosen' = Corrected(task) /\ pc' = "policy"
    BY <2>1, <2>2, <2>3 DEF Rejected
  <2>4. CASE tries < Retries /\ Rejected /\ UNCHANGED <<chosen, pc>>
    BY <2>4 DEF Rejected
  <2> QED
    BY <1>4, <1>5, <2>3, <2>4 DEF DecisionRejected
<1>6. CASE PolicyRefuses \/ UnresolvedExpectation \/ ConsoleErrors
  BY <1>4, <1>6 DEF PolicyRefuses, UnresolvedExpectation, ConsoleErrors
<1>7. CASE StepSucceeds \/ StepFails
  BY <1>7 DEF StepSucceeds, StepFails, Pass, Settled
<1>8. CASE EndCycle
  <2>1. CASE cycle = MaxCycles
    BY <1>4, <1>8, <2>1 DEF EndCycle, NextCycle
  <2>2. CASE cycle # MaxCycles
    BY <1>8, <2>2 DEF EndCycle, NextCycle
  <2> QED
    BY <2>1, <2>2
<1>9. ASSUME NEW here \in {"semantic", "semanticAgain"}, NEW goOn \in {"decide", "nextCycle"},
             TrySemantic(here, goOn), goOn = "decide" => tries <= Retries
      PROVE  LoopsOK' /\ (pc' \in {"semantic", "decide"} => tries' <= Retries)
  <2>1. CASE Pass
    BY <2>1 DEF Pass, Settled
  <2>2. CASE Block(TRUE)
    BY <1>4, <2>2
  <2>3. CASE /\ attempts' = attempts + 1 /\ fresh' = FALSE /\ pc' = goOn
             /\ UNCHANGED <<cycle, tries, chosen, execOk, valid, recoveredOk>>
    <3>1. attempts' \in Nat
      BY <2>3
    <3>2. fresh' \in BOOLEAN /\ UNCHANGED <<cycle, tries, chosen, execOk, valid, recoveredOk>>
      BY <2>3
    <3> QED
      BY <1>9, <2>3, <3>1, <3>2 DEF LoopsOK
  <2> QED
    BY <1>9, <2>1, <2>2, <2>3 DEF TrySemantic
<1>10. CASE SemanticFirst \/ SemanticAfterMenu
  <2>1. CASE SemanticFirst
    <3>1. tries <= Retries
      BY <2>1 DEF SemanticFirst, TrySemantic, Control
    <3> QED
      BY <1>9, <2>1, <3>1 DEF SemanticFirst
  <2>2. CASE SemanticAfterMenu
    BY <1>9, <2>2 DEF SemanticAfterMenu
  <2> QED
    BY <1>10, <2>1, <2>2
<1> QED
  BY <1>1, <1>2, <1>3, <1>5, <1>6, <1>7, <1>8, <1>10, <1>11, <1>12, <1>13 DEF Next

----------------------------------------------------------------------------
(* What the moves keep.                                                     *)

\* The type of the books.
LEMMA BooksKept ==
  ASSUME BooksOK, Control, Moves
  PROVE  BooksOK'
<1> USE ScenarioAssumption DEF BooksOK
<1>1. task \in Nat /\ N \in Nat /\ (pc \notin {"task", "done"} => task \in 1 .. N /\ task + 1 \in 1 .. N + 1)
  BY DEF Control
<1>2. StepKept => lastStep' \in [1 .. N -> StepRecord]
  BY DEF StepKept
<1>3. BlockTold => memory' \in [1 .. N -> {"NONE", "PLANNING", "ACTING", "BLOCKED", "DONE"}]
  BY DEF BlockTold
<1>4. CASE Working
  BY <1>1, <1>2, <1>4 DEF Working
<1>5. CASE Passing
  BY <1>1, <1>5 DEF Passing, Settled
<1>6. CASE Blocking
  BY <1>1, <1>2, <1>3, <1>6 DEF Blocking, Settled
<1>7. CASE Crashing
  BY <1>1, <1>2, <1>3, <1>7 DEF Crashing
<1>8. CASE SkipTask
  BY <1>1, <1>8 DEF SkipTask, Settled
<1>9. CASE StartTask \/ EndScenario
  BY <1>1, <1>9 DEF StartTask, EndScenario, Remembered
<1> QED
  BY <1>4, <1>5, <1>6, <1>7, <1>8, <1>9 DEF Moves

\* Where the loop is, and whose turn it is.
LEMMA ControlKept ==
  ASSUME BooksOK, Control, Moves
  PROVE  (pc' = "done" <=> outcome' # "running") /\ (pc' \notin {"task", "done"} => task' <= N /\ Ready')
<1> USE ScenarioAssumption DEF BooksOK, Control
<1>1. CASE Working
  BY <1>1 DEF Working, Ready
<1>2. CASE Passing \/ Blocking \/ SkipTask
  BY <1>2 DEF Passing, Blocking, SkipTask, Settled
<1>3. CASE Crashing \/ EndScenario
  BY <1>3 DEF Crashing, EndScenario
<1>4. CASE StartTask
  BY <1>4 DEF StartTask, DepsBlocked, Ready
<1> QED
  BY <1>1, <1>2, <1>3, <1>4 DEF Moves

LEMMA NothingToldKept ==
  ASSUME BooksOK, Control, NothingTold, Moves
  PROVE  NothingTold'
<1> USE ScenarioAssumption DEF BooksOK, Control, NothingTold
<1>1. CASE Working
  <2>1. UNCHANGED <<task, status, outcome, bugs>>
    BY <1>1 DEF Working
  <2>2. CASE memory' = memory
    BY <2>1, <2>2
  <2>3. ASSUME NEW m \in {"PLANNING", "ACTING"}, memory' = [memory EXCEPT ![task] = m]
        PROVE  NothingTold'
    <3>1. m \notin {"DONE", "BLOCKED"}
      BY <2>3
    <3>2. \A t \in 1 .. N : memory'[t] = IF t = task THEN m ELSE memory[t]
      BY <2>3
    <3>3. task \in Nat
      OBVIOUS
    <3> QED
      BY <2>1, <3>1, <3>2, <3>3
  <2> QED
    BY <1>1, <2>2, <2>3 DEF Working
<1>2. CASE Passing
  BY <1>2 DEF Passing, Settled
<1>3. CASE Blocking
  BY <1>3 DEF Blocking, Settled, BlockTold
<1>4. CASE Crashing
  BY <1>4 DEF Crashing
<1>5. CASE SkipTask
  BY <1>5 DEF SkipTask, Settled
<1>6. CASE StartTask
  BY <1>6 DEF StartTask, Remembered
<1>7. CASE EndScenario
  BY <1>7 DEF EndScenario
<1> QED
  BY <1>1, <1>2, <1>3, <1>4, <1>5, <1>6, <1>7 DEF Moves

\* Each task that was settled is blocked with one bug, or has none.
LEMMA BugsKept ==
  ASSUME BooksOK, Control, NothingTold, BlockedTasksHaveOneBug, Moves
  PROVE  BlockedTasksHaveOneBug'
<1> USE ScenarioAssumption DEF BooksOK, Control, NothingTold, BlockedTasksHaveOneBug
<1>1. CASE Working
  BY <1>1 DEF Working
<1>2. CASE Passing
  BY <1>2 DEF Passing, Settled
<1>3. CASE Blocking
  BY <1>3 DEF Blocking, Settled
<1>4. CASE Crashing
  BY <1>4 DEF Crashing
<1>5. CASE SkipTask
  BY <1>5 DEF SkipTask, Settled
<1>6. CASE StartTask \/ EndScenario
  BY <1>6 DEF StartTask, EndScenario
<1> QED
  BY <1>1, <1>2, <1>3, <1>4, <1>5, <1>6 DEF Moves

\* A task that passed keeps the step it passed on, which proves a logout.
LEMMA PassesKept ==
  ASSUME BooksOK, Control, NothingTold, PassesOnAValidStep, LogoutProven, Moves
  PROVE  PassesOnAValidStep' /\ LogoutProven'
<1> USE ScenarioAssumption DEF BooksOK, Control, NothingTold, PassesOnAValidStep, LogoutProven
<1>1. pc \notin {"task", "done"} => outcome = "running" /\ task \in 1 .. N /\ status[task] = "PENDING"
  OBVIOUS
<1>2. StepKept => \A t \in 1 .. N : t # task => lastStep'[t] = lastStep[t]
  BY DEF StepKept
<1>3. CASE Working
  BY <1>1, <1>2, <1>3 DEF Working
<1>4. CASE Passing
  BY <1>1, <1>4 DEF Passing, Settled
<1>5. CASE Blocking
  BY <1>1, <1>2, <1>5 DEF Blocking, Settled
<1>6. CASE Crashing
  <2>1. CASE pc = "task"
    BY <1>6, <2>1 DEF Crashing
  <2>2. CASE pc # "task"
    <3>1. \A t \in 1 .. N : t # task => lastStep'[t] = lastStep[t] /\ status'[t] = status[t]
      BY <1>2, <1>6, <2>2 DEF Crashing
    <3>2. status'[task] \in {"PENDING", "BLOCKED"} /\ task \in 1 .. N /\ outcome' = "thrown"
      BY <1>1, <1>6, <2>2 DEF Crashing
    <3>3. UNCHANGED <<task, bugs>>
      BY <1>6 DEF Crashing
    <3> QED
      BY <3>1, <3>2, <3>3
  <2> QED
    BY <2>1, <2>2
<1>7. CASE SkipTask
  BY <1>7 DEF SkipTask, Settled
<1>8. CASE StartTask \/ EndScenario
  BY <1>8 DEF StartTask, EndScenario
<1> QED
  BY <1>3, <1>4, <1>5, <1>6, <1>7, <1>8 DEF Moves

\* The memory is told of the end of a task when its status is.
LEMMA MemoryKept ==
  ASSUME BooksOK, Control, NothingTold, MemoryAgrees, Moves
  PROVE  MemoryAgrees'
<1> USE ScenarioAssumption DEF BooksOK, Control, NothingTold, MemoryAgrees
<1>1. pc \notin {"task", "done"} =>
        outcome = "running" /\ task \in 1 .. N /\ status[task] = "PENDING" /\ memory[task] \notin {"DONE", "BLOCKED"}
  OBVIOUS
<1>2. CASE Working
  <2>1. \A t \in 1 .. N : memory'[t] = memory[t] \/ (t = task /\ memory'[t] \in {"PLANNING", "ACTING"})
    BY <1>2 DEF Working
  <2>2. UNCHANGED <<task, status, outcome>>
    BY <1>2 DEF Working
  <2> QED
    BY <1>1, <1>2, <2>1, <2>2 DEF Working
<1>3. CASE Passing
  BY <1>1, <1>3 DEF Passing, Settled
<1>4. CASE Blocking
  BY <1>1, <1>4 DEF Blocking, Settled, BlockTold
<1>5. CASE Crashing
  BY <1>1, <1>5 DEF Crashing, BlockTold
<1>6. CASE SkipTask
  BY <1>6 DEF SkipTask, Settled
<1>7. CASE StartTask
  BY <1>7 DEF StartTask, Remembered
<1>8. CASE EndScenario
  BY <1>8 DEF EndScenario
<1> QED
  BY <1>2, <1>3, <1>4, <1>5, <1>6, <1>7, <1>8 DEF Moves

----------------------------------------------------------------------------
(* The theorems.                                                            *)

LEMMA InitInv == Init => IInv
<1> SUFFICES ASSUME Init PROVE IInv
  OBVIOUS
<1> USE ScenarioAssumption DEF Init, ScenarioInit
<1>1. BooksOK
  BY DEF BooksOK, NoStep, StepRecord
<1>2. LoopsOK
  <2>1. 1 \in 1 .. MaxCycles /\ 0 \in 0 .. Retries + 1
    BY Budgets
  <2>2. NoDecision \in Decision
    BY DEF NoDecision, Decision
  <2> QED
    BY <2>1, <2>2 DEF LoopsOK
<1>3. Control /\ NothingTold
  BY DEF Control, NothingTold
<1>4. Told
  BY DEF Told, BlockedTasksHaveOneBug, PassesOnAValidStep, MemoryAgrees, LogoutProven
<1> QED
  BY <1>1, <1>2, <1>3, <1>4 DEF IInv

LEMMA StepInv == IInv /\ [Next]_vars => IInv'
<1> SUFFICES ASSUME IInv, [Next]_vars PROVE IInv'
  OBVIOUS
<1>1. CASE Next
  <2>1. Moves
    BY <1>1, NextMoves DEF IInv
  <2> QED
    BY <1>1, <2>1, BooksKept, LoopsKept, ControlKept, NothingToldKept, BugsKept, PassesKept, MemoryKept
    DEF IInv, Told, Control
<1>2. CASE UNCHANGED vars
  BY <1>2 DEF vars, inner, IInv, BooksOK, LoopsOK, Control, Ready, NothingTold, Told,
              BlockedTasksHaveOneBug, PassesOnAValidStep, MemoryAgrees, LogoutProven
<1> QED
  BY <1>1, <1>2

\* IInv is inductive: a task that is worked on has nothing final told of it.
THEOREM ReactiveInvariance == Spec => []IInv
  BY InitInv, StepInv, PTL DEF Spec

\* Cycles and decisions stay within their budgets and every variable keeps its
\* type, for scenarios of any length.
THEOREM ReactiveTypeCorrect == Spec => []TypeOK
<1>1. IInv => TypeOK
  BY Types DEF IInv
<1> QED
  BY <1>1, ReactiveInvariance, PTL

\* Whichever way a task went, its status, its bug, its last step and the memory
\* agree.
THEOREM OutcomesAlwaysAgree == Spec => []OutcomesAgree
<1>1. IInv => OutcomesAgree
  BY DEF IInv, Told, OutcomesAgree
<1> QED
  BY <1>1, ReactiveInvariance, PTL

\* No semantic attempt, correction or recovery passes a logout without a proof.
THEOREM LogoutsAreProven == Spec => []LogoutProven
<1>1. IInv => LogoutProven
  BY DEF IInv, Told
<1> QED
  BY <1>1, ReactiveInvariance, PTL

\* Work on a task is a stutter of the contract; the other moves are its steps.
LEMMA RunStep == IInv /\ [Next]_vars => [ScenarioNext]_scenarioVars
<1> SUFFICES ASSUME IInv, Next PROVE [ScenarioNext]_scenarioVars
  BY DEF vars, scenarioVars
<1> USE ScenarioAssumption DEF IInv, BooksOK, Control, ScenarioNext, scenarioVars
<1>1. Moves
  BY NextMoves
<1>2. CASE Working \/ StartTask
  BY <1>2 DEF Working, StartTask
<1>3. CASE Passing \/ Blocking
  BY <1>3 DEF Passing, Blocking, Settled, Settle
<1>4. CASE SkipTask
  BY <1>4 DEF SkipTask, DepsBlocked, Ready, Settled, Settle
<1>5. CASE Crashing
  BY <1>5 DEF Crashing, Crash
<1>6. CASE EndScenario
  BY <1>6 DEF EndScenario, Finish
<1> QED
  BY <1>1, <1>2, <1>3, <1>4, <1>5, <1>6 DEF Moves

\* The runner implements the contract of a scenario run, for every scenario.
THEOREM RunnerImplementsScenario == Spec => ImplementsScenarioRun
<1>1. Init => ScenarioInit
  BY DEF Init
<1> QED
  BY <1>1, RunStep, ReactiveInvariance, PTL DEF Spec, ImplementsScenarioRun, ScenarioSpec
=============================================================================
