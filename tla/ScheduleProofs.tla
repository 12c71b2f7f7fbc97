--------------------------- MODULE ScheduleProofs ---------------------------
(***************************************************************************)
(* Theorems about Schedule, for any tasks, jobs, machines, operators,      *)
(* assignments and working hours.                                          *)
(***************************************************************************)
EXTENDS Schedule, FiniteSetTheorems, WellFoundedInduction, TLAPS

(***************************************************************************)
(* The check for double bookings.                                          *)
(***************************************************************************)

\* A sorted order lists a group of tasks from 1 to its cardinality.
LEMMA SortedOrderType ==
  ASSUME NEW group \in SUBSET Tasks, NEW f \in SortedOrders(group)
  PROVE  /\ Cardinality(group) \in Nat
         /\ f \in [1 .. Cardinality(group) -> group]
         /\ Cardinality(DOMAIN f) = Cardinality(group)
         /\ \A t \in group : \E i \in 1 .. Cardinality(group) : f[i] = t
         /\ \A i, j \in 1 .. Cardinality(group) :
              i < j => assignments[f[i]].start_time <= assignments[f[j]].start_time
<1>1. Cardinality(group) \in Nat
  BY ScheduleAssumption, FS_Subset, FS_CardinalityType
<1>2. f \in [1 .. Cardinality(group) -> group]
  BY DEF SortedOrders
<1>3. DOMAIN f = 1 .. Cardinality(group)
  BY <1>2
<1>4. Cardinality(1 .. Cardinality(group)) = Cardinality(group)
  BY <1>1, FS_Interval
<1>5. QED
  BY <1>1, <1>2, <1>3, <1>4 DEF SortedOrders

\* The times of an assigned task are numbers, in order.
LEMMA AssignedTimes ==
  ASSUME TypeOK, NEW t \in Assigned
  PROVE  /\ t \in Tasks /\ assignments[t] \in Offers
         /\ assignments[t].start_time \in Nat /\ assignments[t].end_time \in Nat
         /\ assignments[t].start_time <= assignments[t].end_time
<1>1. t \in Tasks /\ assignments[t] \in Offers
  BY DEF Assigned, TypeOK
<1>2. QED
  BY <1>1, ScheduleAssumption DEF Assignment

\* If no task of a sorted group runs into its neighbour, then no two tasks of
\* the group overlap.
LEMMA NeighboursSuffice ==
  ASSUME TypeOK, NEW group \in SUBSET Assigned,
         NEW f \in SortedOrders(group), ~ Clash(f),
         NEW t \in group, NEW u \in group, t # u
  PROVE  Disjoint(assignments[t], assignments[u])
<1> DEFINE n == Cardinality(group)
<1>1. group \in SUBSET Tasks
  BY DEF Assigned
<1>2. /\ n \in Nat /\ f \in [1 .. n -> group] /\ Cardinality(DOMAIN f) = n
      /\ \A v \in group : \E i \in 1 .. n : f[i] = v
      /\ \A i, j \in 1 .. n :
           i < j => assignments[f[i]].start_time <= assignments[f[j]].start_time
  BY <1>1, SortedOrderType
<1>3. \A i \in 1 .. n :
        assignments[f[i]].start_time \in Nat /\ assignments[f[i]].end_time \in Nat
  BY <1>2, AssignedTimes
<1>4. \A i \in 1 .. n - 1 : assignments[f[i]].end_time <= assignments[f[i + 1]].start_time
  BY <1>2, <1>3 DEF Clash
<1>5. ASSUME NEW i \in 1 .. n, NEW j \in 1 .. n, i < j
      PROVE  assignments[f[i]].end_time <= assignments[f[j]].start_time
  <2> HIDE DEF n
  <2>1. i \in 1 .. n - 1 /\ i + 1 \in 1 .. n /\ (i + 1 < j \/ i + 1 = j)
    BY <1>2, <1>5
  <2>2. assignments[f[i + 1]].start_time <= assignments[f[j]].start_time
    BY <1>2, <1>3, <2>1
  <2>3. QED
    BY <1>3, <1>4, <2>1, <2>2
<1>6. PICK i \in 1 .. n, j \in 1 .. n : f[i] = t /\ f[j] = u
  BY <1>2
<1>7. i < j \/ j < i
  BY <1>2, <1>6
<1>8. QED
  BY <1>5, <1>6, <1>7 DEF Disjoint

\* A check that finds nothing leaves no two tasks of a group overlapping.
LEMMA NothingFound ==
  ASSUME TypeOK, NEW groups \in SUBSET SUBSET Assigned,
         \A group \in groups : \E f \in SortedOrders(group) : ~ Clash(f),
         NEW group \in groups, NEW t \in group, NEW u \in group, t # u
  PROVE  Disjoint(assignments[t], assignments[u])
BY NeighboursSuffice

\* The groups of the two checks hold assigned tasks.
LEMMA GroupsAssigned ==
  MachineGroups \in SUBSET SUBSET Assigned /\ OperatorGroups \in SUBSET SUBSET Assigned
BY DEF MachineGroups, OperatorGroups, OnMachine, WithOperator

\* A plan in which validation finds nothing is free of conflicts.
THEOREM CleanPlanIsConflictFree ==
  ASSUME TypeOK, MayFind({})
  PROVE  ConflictFree(assignments)
<1> SUFFICES ASSUME NEW t \in Tasks, NEW u \in Tasks, t # u,
                    assignments[t] # None, assignments[u] # None,
                    ShareAResource(assignments[t], assignments[u])
             PROVE  Disjoint(assignments[t], assignments[u])
  BY DEF ConflictFree
<1>1. t \in Assigned /\ u \in Assigned
  BY DEF Assigned
<1>2. assignments[t] \in Assignment /\ assignments[u] \in Assignment
  BY <1>1, AssignedTimes, ScheduleAssumption
<1>3. \A group \in MachineGroups \cup OperatorGroups :
        \E f \in SortedOrders(group) : ~ Clash(f)
  BY DEF MayFind, MayReport
<1>4. CASE assignments[t].machine = assignments[u].machine
  <2> DEFINE group == OnMachine(assignments[t].machine)
  <2>1. group \in MachineGroups /\ t \in group /\ u \in group
    BY <1>1, <1>2, <1>4 DEF MachineGroups, OnMachine, Assignment
  <2>2. QED
    BY <2>1, <1>3, GroupsAssigned, NothingFound
<1>5. CASE assignments[t].operators \cap assignments[u].operators # {}
  <2>1. PICK o \in assignments[t].operators : o \in assignments[u].operators
    BY <1>5
  <2>2. /\ WithOperator(o) \in OperatorGroups
        /\ t \in WithOperator(o) /\ u \in WithOperator(o)
    BY <1>1, <1>2, <2>1 DEF OperatorGroups, WithOperator, Assignment
  <2>3. QED
    BY <2>2, <1>3, GroupsAssigned, NothingFound
<1>6. QED
  BY <1>4, <1>5 DEF ShareAResource

\* An order that lists a group once has different tasks at different places.
LEMMA SortedOrderOnce ==
  ASSUME NEW group \in SUBSET Tasks, NEW f \in SortedOrders(group),
         NEW i \in 1 .. Cardinality(group), NEW j \in 1 .. Cardinality(group), i # j
  PROVE  f[i] # f[j]
<1> DEFINE n == Cardinality(group)
<1>1. n \in Nat /\ f \in [1 .. n -> group] /\ \A t \in group : \E k \in 1 .. n : f[k] = t
  BY SortedOrderType
<1>2. IsFiniteSet(1 .. n) /\ Cardinality(1 .. n) = n
  BY <1>1, FS_Interval
<1>3. f \in Surjection(1 .. n, group)
  BY <1>1 DEF Surjection
<1>4. f \in Injection(1 .. n, group)
  BY <1>2, <1>3, FS_SurjSameCardinalityImpliesInj
<1>5. QED
  BY <1>4 DEF Injection, IsInjective

\* A double booking that a check finds is one: two tasks of a group overlap,
\* unless a task takes no time.
LEMMA ClashIsOverlap ==
  ASSUME TypeOK, NEW group \in SUBSET Assigned, NEW f \in SortedOrders(group), Clash(f),
         \A t \in Assigned : assignments[t].start_time < assignments[t].end_time
  PROVE  \E t, u \in group : t # u /\ ~ Disjoint(assignments[t], assignments[u])
<1> DEFINE n == Cardinality(group)
<1>1. group \in SUBSET Tasks
  BY DEF Assigned
<1>2. /\ n \in Nat /\ f \in [1 .. n -> group] /\ Cardinality(DOMAIN f) = n
      /\ \A i, j \in 1 .. n :
           i < j => assignments[f[i]].start_time <= assignments[f[j]].start_time
  BY <1>1, SortedOrderType
<1>3. PICK i \in 1 .. n - 1 :
        assignments[f[i]].end_time > assignments[f[i + 1]].start_time
  BY <1>2 DEF Clash
<1> HIDE DEF n
<1>4. i \in 1 .. n /\ i + 1 \in 1 .. n /\ i < i + 1 /\ i # i + 1
  BY <1>2, <1>3
<1>5. f[i] \in group /\ f[i + 1] \in group /\ f[i] # f[i + 1]
  BY <1>1, <1>2, <1>4, SortedOrderOnce DEF n
<1>6. assignments[f[i]].start_time <= assignments[f[i + 1]].start_time
  BY <1>2, <1>4
<1>7. /\ assignments[f[i]].start_time \in Nat /\ assignments[f[i]].end_time \in Nat
      /\ assignments[f[i + 1]].start_time \in Nat /\ assignments[f[i + 1]].end_time \in Nat
      /\ assignments[f[i + 1]].start_time < assignments[f[i + 1]].end_time
  BY <1>5, AssignedTimes
<1>8. ~ Disjoint(assignments[f[i]], assignments[f[i + 1]])
  BY <1>3, <1>6, <1>7 DEF Disjoint
<1>9. QED
  BY <1>5, <1>8

\* Validation refuses a plan for a double booking only if there is one.
THEOREM RefusedOnlyForCause ==
  ASSUME TypeOK, NEW found \in SUBSET Kinds, MayFind(found),
         found \cap {"machine", "operator"} # {},
         \A t \in Assigned : assignments[t].start_time < assignments[t].end_time
  PROVE  ~ ConflictFree(assignments)
<1>1. PICK group \in MachineGroups \cup OperatorGroups : \E f \in SortedOrders(group) : Clash(f)
  BY DEF MayFind, MayReport
<1>2. group \in SUBSET Assigned
  BY <1>1, GroupsAssigned
<1>3. PICK t \in group, u \in group : t # u /\ ~ Disjoint(assignments[t], assignments[u])
  BY <1>1, <1>2, ClashIsOverlap
<1>4. ShareAResource(assignments[t], assignments[u])
  BY <1>1, <1>3 DEF MachineGroups, OperatorGroups, OnMachine, WithOperator, ShareAResource
<1>5. t \in Tasks /\ u \in Tasks /\ assignments[t] # None /\ assignments[u] # None
  BY <1>2, <1>3 DEF Assigned
<1>6. QED
  BY <1>3, <1>4, <1>5 DEF ConflictFree

(***************************************************************************)
(* Sorting: every group has a sorted order.  What holds of every finite    *)
(* set is shown by looking at a smallest one of which it does not hold.    *)
(***************************************************************************)

\* Among finite sets there is one that contains no other of them.
LEMMA SmallestSet ==
  ASSUME NEW S, NEW sets, sets # {}, sets \subseteq FiniteSubsetsOf(S)
  PROVE  \E X \in sets : \A Y \in sets : Y \subseteq X => Y = X
<1>1. IsWellFoundedOn(StrictSubsetOrdering(S), FiniteSubsetsOf(S))
  BY FS_StrictSubsetOrderingWellFounded
<1>2. PICK X \in sets : \A Y \in sets : ~ (<<Y, X>> \in StrictSubsetOrdering(S))
  BY <1>1, WFMin
<1>3. QED
  BY <1>2 DEF StrictSubsetOrdering, FiniteSubsetsOf

Latest(group, t) ==
  \A u \in group : assignments[u].start_time <= assignments[t].start_time

\* Some task of a group starts last.
LEMMA LatestExists ==
  ASSUME TypeOK, NEW group \in SUBSET Assigned, group # {}
  PROVE  \E t \in group : Latest(group, t)
<1> DEFINE bad == {G \in SUBSET group : G # {} /\ \A t \in G : ~ Latest(G, t)}
<1> SUFFICES ASSUME bad # {} PROVE FALSE
  OBVIOUS
<1>1. group \subseteq Assigned /\ group \subseteq Tasks
  BY DEF Assigned
<1>2. bad \subseteq FiniteSubsetsOf(group)
  BY <1>1, ScheduleAssumption, FS_Subset DEF FiniteSubsetsOf
<1>3. PICK X \in bad : \A Y \in bad : Y \subseteq X => Y = X
  <2> HIDE DEF bad
  <2>1. QED
    BY <1>2, SmallestSet
<1>4. PICK t \in X : TRUE
  BY <1>3
<1>5. \A u \in X : assignments[u].start_time \in Nat
  BY <1>1, <1>3, AssignedTimes
<1>6. CASE X = {t}
  BY <1>3, <1>4, <1>5, <1>6 DEF Latest
<1>7. CASE X # {t}
  <2>1. X \ {t} \in SUBSET group /\ X \ {t} # {} /\ X \ {t} # X
    BY <1>3, <1>4, <1>7
  <2>2. PICK u \in X \ {t} : Latest(X \ {t}, u)
    BY <1>3, <2>1
  <2>3. Latest(X, t) \/ Latest(X, u)
    BY <1>4, <1>5, <2>2 DEF Latest
  <2>4. QED
    BY <1>3, <1>4, <2>2, <2>3
<1>8. QED
  BY <1>6, <1>7

\* A task that starts last goes behind the others in their sorted order.
LEMMA SortedOrderGrows ==
  ASSUME TypeOK, NEW group \in SUBSET Assigned, NEW t \in group, Latest(group, t),
         NEW f \in SortedOrders(group \ {t})
  PROVE  [i \in 1 .. Cardinality(group) |->
            IF i = Cardinality(group) THEN t ELSE f[i]] \in SortedOrders(group)
<1> DEFINE n == Cardinality(group)
           g == [i \in 1 .. n |-> IF i = n THEN t ELSE f[i]]
<1>1. group \in SUBSET Tasks /\ group \ {t} \in SUBSET Tasks /\ IsFiniteSet(group)
  BY ScheduleAssumption, FS_Subset DEF Assigned
<1>2. n \in Nat \ {0} /\ Cardinality(group \ {t}) = n - 1
  BY <1>1, FS_RemoveElement, FS_CardinalityType, FS_EmptySet
<1>3. /\ f \in [1 .. n - 1 -> group \ {t}]
      /\ \A u \in group \ {t} : \E i \in 1 .. n - 1 : f[i] = u
      /\ \A i, j \in 1 .. n - 1 :
           i < j => assignments[f[i]].start_time <= assignments[f[j]].start_time
  <2>1. PICK rest \in SUBSET Tasks : rest = group \ {t}
    BY <1>1
  <2>2. f \in SortedOrders(rest) /\ Cardinality(rest) = n - 1
    BY <1>2, <2>1
  <2> HIDE DEF n
  <2>3. /\ f \in [1 .. n - 1 -> rest]
        /\ \A u \in rest : \E i \in 1 .. n - 1 : f[i] = u
        /\ \A i, j \in 1 .. n - 1 :
             i < j => assignments[f[i]].start_time <= assignments[f[j]].start_time
    BY <2>2, SortedOrderType
  <2>. QED
    BY <2>1, <2>3
<1> HIDE DEF n
<1>4. /\ \A i \in 1 .. n - 1 : i \in 1 .. n /\ i # n /\ g[i] = f[i] /\ f[i] \in group
      /\ n \in 1 .. n /\ g[n] = t
      /\ \A i \in 1 .. n : i = n \/ i \in 1 .. n - 1
  BY <1>2, <1>3
<1>5. g \in [1 .. n -> group]
  BY <1>3, <1>4
<1>6. \A u \in group : \E i \in 1 .. n : g[i] = u
  BY <1>3, <1>4
<1>7. ASSUME NEW i \in 1 .. n, NEW j \in 1 .. n, i < j
      PROVE  assignments[g[i]].start_time <= assignments[g[j]].start_time
  <2>1. i \in 1 .. n - 1
    BY <1>2, <1>7
  <2>2. CASE j = n
    BY <1>4, <2>1, <2>2 DEF Latest
  <2>3. CASE j # n
    BY <1>3, <1>4, <1>7, <2>1, <2>3
  <2>4. QED
    BY <2>2, <2>3
<1>8. DOMAIN g = 1 .. n
  OBVIOUS
<1>9. g \in SortedOrders(group)
  <2> HIDE DEF g
  <2>1. QED
    BY <1>5, <1>6, <1>7, <1>8 DEF SortedOrders, n
<1>10. QED
  BY <1>9 DEF n

\* Every group of assigned tasks can be sorted.
LEMMA SortedOrderExists ==
  ASSUME TypeOK, NEW group \in SUBSET Assigned
  PROVE  SortedOrders(group) # {}
<1> DEFINE bad == {G \in SUBSET group : SortedOrders(G) = {}}
<1> SUFFICES ASSUME bad # {} PROVE FALSE
  OBVIOUS
<1>1. group \subseteq Tasks
  BY DEF Assigned
<1>2. bad \subseteq FiniteSubsetsOf(group)
  BY <1>1, ScheduleAssumption, FS_Subset DEF FiniteSubsetsOf
<1>3. PICK X \in bad : \A Y \in bad : Y \subseteq X => Y = X
  <2> HIDE DEF bad
  <2>1. QED
    BY <1>2, SmallestSet
<1>4. X \in SUBSET Assigned /\ SortedOrders(X) = {}
  BY <1>3
<1>5. CASE X = {}
  <2>1. Cardinality({}) = 0 /\ 1 .. 0 = {}
    BY FS_EmptySet
  <2>2. [i \in {} |-> None] \in SortedOrders({})
    BY <2>1 DEF SortedOrders
  <2>3. QED
    BY <1>4, <1>5, <2>2
<1>6. CASE X # {}
  <2>1. PICK t \in X : Latest(X, t)
    BY <1>4, <1>6, LatestExists
  <2>2. PICK f \in SortedOrders(X \ {t}) : TRUE
    BY <1>3, <2>1
  <2>3. QED
    BY <1>4, <2>1, <2>2, SortedOrderGrows
<1>7. QED
  BY <1>5, <1>6

\* The check of some groups finds a double booking exactly when two tasks of a
\* group overlap.
LEMMA CheckIsExact ==
  ASSUME TypeOK, NEW groups \in SUBSET SUBSET Assigned, NEW found \in BOOLEAN,
         \A t \in Assigned : assignments[t].start_time < assignments[t].end_time
  PROVE  MayReport(groups, found)
           <=> found = \E group \in groups : \E t, u \in group :
                         t # u /\ ~ Disjoint(assignments[t], assignments[u])
<1> DEFINE Overlap(group) ==
      \E t, u \in group : t # u /\ ~ Disjoint(assignments[t], assignments[u])
<1>1. ASSUME NEW group \in groups
      PROVE  /\ \E f \in SortedOrders(group) : TRUE
             /\ \A f \in SortedOrders(group) : Clash(f) <=> Overlap(group)
  <2>1. group \in SUBSET Assigned
    OBVIOUS
  <2>2. \E f \in SortedOrders(group) : TRUE
    BY <2>1, SortedOrderExists
  <2>3. ASSUME NEW f \in SortedOrders(group), Clash(f) PROVE Overlap(group)
    BY <2>1, <2>3, ClashIsOverlap
  <2>4. ASSUME NEW f \in SortedOrders(group), ~ Clash(f) PROVE ~ Overlap(group)
    BY <2>1, <2>4, NeighboursSuffice
  <2>5. QED
    BY <2>2, <2>3, <2>4
<1> HIDE DEF Overlap
<1>2. MayReport(groups, found) <=> found = \E group \in groups : Overlap(group)
  <2>1. CASE found
    BY <1>1, <2>1 DEF MayReport
  <2>2. CASE ~ found
    BY <1>1, <2>2 DEF MayReport
  <2>3. QED
    BY <2>1, <2>2
<1>3. QED
  BY <1>2 DEF Overlap

\* Two tasks of a group of one machine, or of one operator, are two tasks with
\* that machine, or that operator, in common.
LEMMA GroupsMeanSharing ==
  ASSUME TypeOK
  PROVE  /\ (\E group \in MachineGroups : \E t, u \in group :
               t # u /\ ~ Disjoint(assignments[t], assignments[u]))
              <=> \E t, u \in Assigned :
                    /\ t # u /\ assignments[t].machine = assignments[u].machine
                    /\ ~ Disjoint(assignments[t], assignments[u])
         /\ (\E group \in OperatorGroups : \E t, u \in group :
               t # u /\ ~ Disjoint(assignments[t], assignments[u]))
              <=> \E t, u \in Assigned :
                    /\ t # u /\ assignments[t].operators \cap assignments[u].operators # {}
                    /\ ~ Disjoint(assignments[t], assignments[u])
<1>1. \A t \in Assigned : assignments[t].machine \in Machines /\ assignments[t].operators \subseteq Operators
  BY AssignedTimes, ScheduleAssumption DEF Assignment
<1>2. ASSUME NEW t \in Assigned, NEW u \in Assigned
      PROVE  /\ (\E group \in MachineGroups : t \in group /\ u \in group)
                   <=> assignments[t].machine = assignments[u].machine
             /\ (\E group \in OperatorGroups : t \in group /\ u \in group)
                   <=> assignments[t].operators \cap assignments[u].operators # {}
  <2>1. /\ (\E group \in MachineGroups : t \in group /\ u \in group)
              <=> \E m \in Machines : t \in OnMachine(m) /\ u \in OnMachine(m)
        /\ (\E group \in OperatorGroups : t \in group /\ u \in group)
              <=> \E o \in Operators : t \in WithOperator(o) /\ u \in WithOperator(o)
    BY Zenon DEF MachineGroups, OperatorGroups
  <2>2. /\ \A m : t \in OnMachine(m) <=> assignments[t].machine = m
        /\ \A m : u \in OnMachine(m) <=> assignments[u].machine = m
        /\ \A o : t \in WithOperator(o) <=> o \in assignments[t].operators
        /\ \A o : u \in WithOperator(o) <=> o \in assignments[u].operators
    BY DEF OnMachine, WithOperator
  <2>3. QED
    BY <1>1, <2>1, <2>2
<1>3. \A group \in MachineGroups \cup OperatorGroups : group \subseteq Assigned
  BY GroupsAssigned
<1>4. (\E group \in MachineGroups : \E t, u \in group :
         t # u /\ ~ Disjoint(assignments[t], assignments[u]))
        <=> \E t, u \in Assigned :
              /\ t # u /\ assignments[t].machine = assignments[u].machine
              /\ ~ Disjoint(assignments[t], assignments[u])
  BY <1>2, <1>3, Zenon
<1>5. (\E group \in OperatorGroups : \E t, u \in group :
         t # u /\ ~ Disjoint(assignments[t], assignments[u]))
        <=> \E t, u \in Assigned :
              /\ t # u /\ assignments[t].operators \cap assignments[u].operators # {}
              /\ ~ Disjoint(assignments[t], assignments[u])
  BY <1>2, <1>3, Zenon
<1>6. QED
  BY <1>4, <1>5

\* The check of neighbours finds a double booking exactly when two tasks do
\* overlap, however the sort breaks ties.
THEOREM CheckFindsOverlaps == TypeOK => ConflictCheckExact
<1> SUFFICES ASSUME TypeOK, NEW found \in BOOLEAN,
                    \A t \in Assigned : assignments[t].start_time < assignments[t].end_time
             PROVE  /\ MayReport(MachineGroups, found)
                         <=> found = \E t, u \in Assigned :
                               /\ t # u /\ assignments[t].machine = assignments[u].machine
                               /\ ~ Disjoint(assignments[t], assignments[u])
                    /\ MayReport(OperatorGroups, found)
                         <=> found = \E t, u \in Assigned :
                               /\ t # u /\ assignments[t].operators \cap assignments[u].operators # {}
                               /\ ~ Disjoint(assignments[t], assignments[u])
  BY DEF ConflictCheckExact
<1>1. MayReport(MachineGroups, found)
        <=> found = \E group \in MachineGroups : \E t, u \in group :
                      t # u /\ ~ Disjoint(assignments[t], assignments[u])
  BY CheckIsExact, GroupsAssigned
<1>2. MayReport(OperatorGroups, found)
        <=> found = \E group \in OperatorGroups : \E t, u \in group :
                      t # u /\ ~ Disjoint(assignments[t], assignments[u])
  BY CheckIsExact, GroupsAssigned
<1>3. QED
  BY <1>1, <1>2, GroupsMeanSharing

(***************************************************************************)
(* Working time.                                                           *)
(***************************************************************************)

\* Division with remainder, and that nothing else divides.
LEMMA DivisionFacts ==
  ASSUME NEW d \in Nat \ {0}, NEW time \in Nat
  PROVE  /\ time \div d \in Nat /\ time % d \in 0 .. d - 1
         /\ time = d * (time \div d) + (time % d)
OBVIOUS

\* Quotients do not fall.
LEMMA QuotientsGrow ==
  ASSUME NEW d \in Nat \ {0}, NEW p \in Nat, NEW q \in Nat,
         NEW r \in 0 .. d - 1, NEW s \in 0 .. d - 1, d * p + r <= d * q + s
  PROVE  p <= q
<1> SUFFICES ASSUME q + 1 <= p
             PROVE  FALSE
  OBVIOUS
<1>1. PICK n \in Nat : p = q + 1 + n
  BY p - q - 1 \in Nat
<1>2. d * p = d * q + d + d * n
  BY <1>1
<1>3. d * n \in Nat /\ d * q \in Nat
  OBVIOUS
<1>4. QED
  BY <1>2, <1>3

LEMMA RemainderIsUnique ==
  ASSUME NEW d \in Nat \ {0}, NEW q \in Nat, NEW r \in 0 .. d - 1, NEW time \in Nat,
         time = d * q + r
  PROVE  time % d = r
OBVIOUS

\* The number of the minute a time is in, and that it never falls.
WholeMinutes(time) == time \div Minute

LEMMA MinutesGrow ==
  ASSUME NEW from \in Nat, NEW to \in Nat, from <= to
  PROVE  /\ WholeMinutes(from) \in Nat /\ WholeMinutes(to) \in Nat
         /\ WholeMinutes(from) <= WholeMinutes(to)
<1>1. PICK d \in Nat \ {0} : d = Minute
  BY ScheduleAssumption
<1>2. /\ from \div d \in Nat /\ from % d \in 0 .. d - 1 /\ from = d * (from \div d) + (from % d)
      /\ to \div d \in Nat /\ to % d \in 0 .. d - 1 /\ to = d * (to \div d) + (to % d)
  BY DivisionFacts
<1>3. from \div d <= to \div d
  BY <1>2, QuotientsGrow
<1>4. QED
  BY <1>1, <1>2, <1>3 DEF WholeMinutes

\* A minute is its day and its minute of the day.
LEMMA DayAndMinute ==
  ASSUME NEW time \in Nat
  PROVE  /\ DayLength \in Nat \ {0}
         /\ Day(time) \in Nat /\ MinuteOfDay(time) \in 0 .. DayLength - 1
         /\ WholeMinutes(time) = DayLength * Day(time) + MinuteOfDay(time)
<1>1. DayLength \in Nat \ {0}
  BY ScheduleAssumption
<1>2. WholeMinutes(time) \in Nat
  BY MinutesGrow
<1>3. QED
  BY <1>1, <1>2, DivisionFacts DEF Day, MinuteOfDay, WholeMinutes

\* The minute of a time between two of one day is between theirs.
LEMMA MinuteBetween ==
  ASSUME NEW from \in Nat, NEW to \in Nat, NEW time \in from .. to, Day(from) = Day(to)
  PROVE  /\ MinuteOfDay(from) <= MinuteOfDay(time) /\ MinuteOfDay(time) <= MinuteOfDay(to)
         /\ MinuteOfDay(time) \in Nat
<1>1. PICK d \in Nat \ {0}, q \in Nat, f \in 0 .. DayLength - 1, l \in 0 .. DayLength - 1 :
        /\ d = DayLength /\ q = Day(from) /\ f = MinuteOfDay(from) /\ l = MinuteOfDay(to)
        /\ WholeMinutes(from) = d * q + f /\ WholeMinutes(to) = d * q + l
  <2>1. /\ DayLength \in Nat \ {0} /\ Day(from) \in Nat
        /\ MinuteOfDay(from) \in 0 .. DayLength - 1
        /\ WholeMinutes(from) = DayLength * Day(from) + MinuteOfDay(from)
    BY DayAndMinute
  <2>2. /\ MinuteOfDay(to) \in 0 .. DayLength - 1
        /\ WholeMinutes(to) = DayLength * Day(from) + MinuteOfDay(to)
    BY DayAndMinute
  <2>. QED
    BY <2>1, <2>2
<1>2. PICK m \in Nat : m = d * q
  BY <1>1
<1>3. PICK t \in Nat : t = WholeMinutes(time) /\ WholeMinutes(from) <= t /\ t <= WholeMinutes(to)
  <2>1. time \in Nat /\ from <= time /\ time <= to
    OBVIOUS
  <2>2. /\ WholeMinutes(time) \in Nat
        /\ WholeMinutes(from) <= WholeMinutes(time) /\ WholeMinutes(time) <= WholeMinutes(to)
    BY <2>1, MinutesGrow
  <2>. QED
    BY <2>2
<1>4. /\ t - m \in 0 .. d - 1 /\ t = m + (t - m)
      /\ f <= t - m /\ t - m <= l
  BY <1>1, <1>2, <1>3
<1>5. t % d = t - m
  <2>1. PICK r \in 0 .. d - 1 : r = t - m
    BY <1>4
  <2>2. t = d * q + r
    BY <1>2, <1>4, <2>1
  <2>3. d \in Nat \ {0} /\ q \in Nat /\ t \in Nat
    BY <1>1, <1>3
  <2>4. t % d = r
    BY <2>2, <2>3, RemainderIsUnique
  <2>. QED
    BY <2>1, <2>4
<1>6. MinuteOfDay(time) = t - m
  BY <1>1, <1>3, <1>5 DEF MinuteOfDay, WholeMinutes
<1>7. f <= MinuteOfDay(time) /\ MinuteOfDay(time) <= l /\ MinuteOfDay(time) \in Nat
  <2>1. t - m \in Nat /\ f <= t - m /\ t - m <= l
    BY <1>4
  <2>. QED
    BY <2>1, <1>6
<1>8. QED
  BY <1>1, <1>7

\* What the two checks of the working hours leave, task by task: if it starts
\* and ends on one day, all of it is in working time but seconds at its end.
LEMMA HoursMeanWorking ==
  ASSUME NEW a \in Offers, ~ OutsideHours(a), ~ OverLunch(a), Day(a.start_time) = Day(a.end_time)
  PROVE  KeepsHours(a)
<1> SUFFICES ASSUME NEW time \in a.start_time .. a.end_time - 1
             PROVE  \/ Working(time)
                    \/ /\ MinuteOfDay(time) = MinuteOfDay(a.end_time)
                       /\ MinuteOfDay(time) \in Limits
  BY DEF KeepsHours
<1>1. a.start_time \in Nat /\ a.end_time \in Nat
  BY ScheduleAssumption DEF Assignment
<1>2. time \in a.start_time .. a.end_time
  BY <1>1
<1>3. /\ MinuteOfDay(a.start_time) <= MinuteOfDay(time) /\ MinuteOfDay(time) <= MinuteOfDay(a.end_time)
      /\ MinuteOfDay(time) \in Nat
  BY <1>1, <1>2, MinuteBetween
<1>4. MinuteOfDay(a.start_time) \in Nat /\ MinuteOfDay(a.end_time) \in Nat
  BY <1>1, DayAndMinute
<1>5. QED
  BY <1>3, <1>4, ScheduleAssumption DEF OutsideHours, OverLunch, Working, Limits

(***************************************************************************)
(* The inductive invariant.                                                *)
(***************************************************************************)

\* A schedule that has been published breaks no working hours.
HoursKept ==
  status \in PublishedStatuses =>
    \A t \in Assigned : ~ OutsideHours(assignments[t]) /\ ~ OverLunch(assignments[t])

\* Both bounds are there or neither, and in order.
BoundsOrdered ==
  /\ start_date = None <=> end_date = None
  /\ start_date # None => start_date <= end_date

ScheduleInv ==
  TypeOK /\ BoundsOrdered /\ BoundsCover /\ PublishedNoDoubleBooking /\ HoursKept

\* A new schedule satisfies the invariant.
LEMMA InitInv == Init => ScheduleInv
BY ScheduleAssumption
   DEF Init, ScheduleInv, TypeOK, BoundsOrdered, BoundsCover, PublishedNoDoubleBooking,
       HoursKept, Statuses, PublishedStatuses, Assigned

\* Assigning keeps the types, and widens the bounds as far as is needed.
LEMMA AssignKeepsInv ==
  ASSUME ScheduleInv, NEW t \in Tasks, NEW a \in Offers, AssignTask(t, a)
  PROVE  ScheduleInv'
<1>1. a.start_time \in Nat /\ a.end_time \in Nat /\ a.start_time <= a.end_time /\ a # None
  BY ScheduleAssumption DEF Assignment
<1>2. start_date \in Nat \cup {None} /\ end_date \in Nat \cup {None} /\ None \notin Nat
  BY ScheduleAssumption DEF ScheduleInv, TypeOK
<1>3. /\ start_date' \in Nat /\ start_date' <= a.start_time
      /\ start_date # None => start_date' <= start_date
  BY <1>1, <1>2 DEF AssignTask, Earlier
<1>4. /\ end_date' \in Nat /\ a.end_time <= end_date'
      /\ end_date # None => end_date <= end_date'
  BY <1>1, <1>2 DEF AssignTask, Later
<1>5. TypeOK'
  BY <1>3, <1>4 DEF ScheduleInv, TypeOK, AssignTask
<1>6. BoundsOrdered'
  BY <1>1, <1>2, <1>3, <1>4 DEF BoundsOrdered
<1>7. BoundsCover'
  <2> SUFFICES ASSUME NEW u \in Assigned'
               PROVE  /\ start_date' # None /\ end_date' # None
                      /\ start_date' <= assignments'[u].start_time
                      /\ assignments'[u].end_time <= end_date'
    BY DEF BoundsCover
  <2>1. start_date' # None /\ end_date' # None
    BY <1>2, <1>3, <1>4
  <2>2. CASE u = t
    <3>1. assignments'[u] = a
      BY <2>2 DEF ScheduleInv, TypeOK, AssignTask
    <3>2. QED
      BY <2>1, <3>1, <1>3, <1>4
  <2>3. CASE u # t
    <3>1. assignments'[u] = assignments[u] /\ u \in Assigned
      BY <2>3 DEF ScheduleInv, TypeOK, AssignTask, Assigned
    <3>2. /\ assignments[u].start_time \in Nat /\ assignments[u].end_time \in Nat
      BY <3>1, AssignedTimes DEF ScheduleInv
    <3>3. /\ start_date # None /\ end_date # None
          /\ start_date <= assignments[u].start_time
          /\ assignments[u].end_time <= end_date
      BY <3>1 DEF ScheduleInv, BoundsCover
    <3>4. QED
      BY <1>2, <1>3, <1>4, <2>1, <3>1, <3>2, <3>3
  <2>4. QED
    BY <2>2, <2>3
<1>8. PublishedNoDoubleBooking' /\ HoursKept'
  BY DEF AssignTask, PublishedNoDoubleBooking, HoursKept, PublishedStatuses
<1>9. QED
  BY <1>5, <1>6, <1>7, <1>8 DEF ScheduleInv

\* Publishing is where the last two conjuncts are established.
LEMMA PublishKeepsInv ==
  ASSUME ScheduleInv, Publish
  PROVE  ScheduleInv'
<1>1. TypeOK' /\ BoundsOrdered' /\ BoundsCover'
  BY DEF ScheduleInv, TypeOK, BoundsOrdered, BoundsCover, Publish, Assigned,
         Statuses, PublishedStatuses
<1>2. PublishedNoDoubleBooking'
  <2>1. CASE constraint_violations' = {}
    <3>1. MayFind({})
      BY <2>1 DEF Publish
    <3>2. ConflictFree(assignments)
      BY <3>1, CleanPlanIsConflictFree DEF ScheduleInv
    <3>3. QED
      BY <3>2 DEF Publish, PublishedNoDoubleBooking
  <2>2. CASE constraint_violations' # {}
    BY <2>2 DEF Publish, PublishedNoDoubleBooking, PublishedStatuses
  <2>3. QED
    BY <2>1, <2>2
<1>3. HoursKept'
  <2>1. CASE constraint_violations' = {}
    <3>1. MayFind({}) /\ assignments' = assignments
      BY <2>1 DEF Publish
    <3>2. QED
      BY <3>1 DEF MayFind, HoursKept, Assigned, OutsideHours, OverLunch
  <2>2. CASE constraint_violations' # {}
    BY <2>2 DEF Publish, HoursKept, PublishedStatuses
  <2>3. QED
    BY <2>1, <2>2
<1>4. QED
  BY <1>1, <1>2, <1>3 DEF ScheduleInv

\* Every step keeps the invariant.
LEMMA StepInv == ScheduleInv /\ [Next]_vars => ScheduleInv'
<1> SUFFICES ASSUME ScheduleInv, [Next]_vars
             PROVE  ScheduleInv'
  OBVIOUS
<1> USE DEF ScheduleInv, TypeOK, BoundsOrdered, BoundsCover, PublishedNoDoubleBooking,
            HoursKept, Statuses, PublishedStatuses, Assigned
<1>1. ASSUME NEW j \in Jobs, AddJob(j) \/ RemoveJob(j)
      PROVE  ScheduleInv'
  BY <1>1 DEF AddJob, RemoveJob
<1>2. ASSUME NEW t \in Tasks, NEW a \in Offers, AssignTask(t, a)
      PROVE  ScheduleInv'
  BY <1>2, AssignKeepsInv
<1>3. ASSUME NEW t \in Tasks, UnassignTask(t)
      PROVE  ScheduleInv'
  <2>1. TypeOK' /\ BoundsOrdered'
    BY <1>3 DEF UnassignTask
  <2>2. /\ Assigned' \subseteq Assigned
        /\ \A u \in Assigned' : assignments'[u] = assignments[u]
    BY <1>3 DEF UnassignTask
  <2>3. BoundsCover'
    BY <1>3, <2>2 DEF UnassignTask
  <2>4. PublishedNoDoubleBooking' /\ HoursKept'
    BY <1>3 DEF UnassignTask
  <2>5. QED
    BY <2>1, <2>3, <2>4
<1>4. CASE ValidateConstraints
  BY <1>4 DEF ValidateConstraints
<1>5. CASE Publish
  BY <1>5, PublishKeepsInv
<1>6. CASE Activate \/ Complete \/ Cancel
  BY <1>6 DEF Activate, Complete, Cancel
<1>7. CASE CalculateMetrics
  <2>1. end_date - start_date \in Nat
    BY <1>7, ScheduleAssumption DEF CalculateMetrics
  <2>2. QED
    BY <1>7, <2>1 DEF CalculateMetrics
<1>8. CASE UNCHANGED vars
  BY <1>8 DEF vars
<1>9. QED
  BY <1>1, <1>2, <1>3, <1>4, <1>5, <1>6, <1>7, <1>8 DEF Next

\* The invariant holds in every reachable state.
THEOREM ScheduleStaysSound == Spec => []ScheduleInv
BY InitInv, StepInv, PTL DEF Spec

\* The variables keep their types: the metrics of a published schedule never
\* fail on a negative duration.
THEOREM TypeCorrect == Spec => []TypeOK
<1>1. ScheduleInv => TypeOK
  BY DEF ScheduleInv
<1>2. QED
  BY <1>1, ScheduleStaysSound, PTL

\* The bounds enclose every assignment after any history of edits.
THEOREM BoundsAlwaysCover == Spec => []BoundsCover
<1>1. ScheduleInv => BoundsCover
  BY DEF ScheduleInv
<1>2. QED
  BY <1>1, ScheduleStaysSound, PTL

\* No schedule that has been published books a machine or an operator twice.
THEOREM PublishedIsConflictFree == Spec => []PublishedNoDoubleBooking
<1>1. ScheduleInv => PublishedNoDoubleBooking
  BY DEF ScheduleInv
<1>2. QED
  BY <1>1, ScheduleStaysSound, PTL

\* In a schedule that has been published every minute of a task that starts and
\* ends on one day is a working minute.
THEOREM PublishedKeepsHours == Spec => []PublishedInWorkingTime
<1>1. ScheduleInv => PublishedInWorkingTime
  BY HoursMeanWorking, AssignedTimes DEF ScheduleInv, HoursKept, PublishedInWorkingTime
<1>2. QED
  BY <1>1, ScheduleStaysSound, PTL

\* In every reachable state the check of neighbours finds a double booking
\* exactly when there is one.
THEOREM ConflictCheckStaysExact == Spec => []ConflictCheckExact
BY TypeCorrect, CheckFindsOverlaps, PTL

(***************************************************************************)
(* The abstract specification.                                             *)
(***************************************************************************)

ThePlan == [tasks |-> assignments, jobs |-> job_ids]
AllPlans == [tasks : [Tasks -> Offers \cup {None}], jobs : SUBSET Jobs]

\* The plan of a schedule is one of the plans that can be drawn up.
LEMMA PlanType == TypeOK => ThePlan \in AllPlans
BY DEF TypeOK, ThePlan, AllPlans

\* A step of the schedule is a step of the published plan, or changes nothing
\* that it shows.
LEMMA StepImplements ==
  TypeOK /\ TypeOK' /\ [Next]_vars => [Plan!Next]_<<status, ThePlan>>
<1> SUFFICES ASSUME TypeOK, TypeOK', [Next]_vars
             PROVE  [Plan!Next]_<<status, ThePlan>>
  OBVIOUS
<1>1. ThePlan \in AllPlans /\ ThePlan' \in AllPlans
  BY PlanType DEF TypeOK, ThePlan, AllPlans
<1>2. ASSUME NEW j \in Jobs, AddJob(j) \/ RemoveJob(j)
      PROVE  Plan!Draw
  BY <1>1, <1>2 DEF AddJob, RemoveJob, Plan!Draw, ThePlan, AllPlans
<1>3. ASSUME NEW t \in Tasks, NEW a \in Offers, AssignTask(t, a)
      PROVE  Plan!Draw
  BY <1>1, <1>3 DEF AssignTask, Plan!Draw, ThePlan, AllPlans
<1>4. ASSUME NEW t \in Tasks, UnassignTask(t)
      PROVE  Plan!Draw
  BY <1>1, <1>4 DEF UnassignTask, Plan!Draw, ThePlan, AllPlans
<1>5. CASE Publish
  <2>1. CASE constraint_violations' = {}
    <3>1. ConflictFree(assignments)
      BY <1>5, <2>1, CleanPlanIsConflictFree DEF Publish
    <3>2. Plan!Publish
      BY <1>1, <1>5, <2>1, <3>1 DEF Publish, Plan!Publish, ThePlan, AllPlans
    <3>3. QED
      BY <3>2 DEF Plan!Next
  <2>2. CASE constraint_violations' # {}
    BY <1>5, <2>2 DEF Publish, ThePlan
  <2>3. QED
    BY <2>1, <2>2
<1>6. CASE Activate
  BY <1>6 DEF Activate, Plan!Activate, Plan!Next, ThePlan
<1>7. CASE Complete
  BY <1>7 DEF Complete, Plan!Complete, Plan!Next, ThePlan
<1>8. CASE Cancel
  <2>1. CASE status = "cancelled"
    BY <1>8, <2>1 DEF Cancel, ThePlan
  <2>2. CASE status # "cancelled"
    BY <1>8, <2>2 DEF Cancel, Plan!Cancel, Plan!Next, ThePlan, TypeOK, Statuses, PublishedStatuses
  <2>3. QED
    BY <2>1, <2>2
<1>9. CASE ValidateConstraints \/ CalculateMetrics \/ UNCHANGED vars
  BY <1>9 DEF ValidateConstraints, CalculateMetrics, vars, ThePlan
<1>10. QED
  BY <1>2, <1>3, <1>4, <1>5, <1>6, <1>7, <1>8, <1>9 DEF Next, Plan!Next

\* A schedule is a published plan: frozen once published, and published only
\* without double bookings.
THEOREM ScheduleIsPublishedPlan == Spec => ImplementsPublishedPlan
<1>1. Init => status = "draft" /\ ThePlan = [tasks |-> [t \in Tasks |-> None], jobs |-> {}]
  BY DEF Init, ThePlan
<1>2. QED
  BY <1>1, TypeCorrect, StepImplements, PTL DEF Spec, ImplementsPublishedPlan, Plan!Spec, ThePlan
=============================================================================
