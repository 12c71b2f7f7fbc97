-------------------------- MODULE SolverRunsProofs --------------------------
(***************************************************************************)
(* Proofs about SolverRuns, for any solves, solvers that overrun, threads  *)
(* of the pool and limits.                                                 *)
(***************************************************************************)
EXTENDS SolverRuns, SequenceTheorems, FiniteSetTheorems, TLAPS

\* No solve is queued twice.
QueuedOnce == \A i, j \in DOMAIN queue : queue[i] = queue[j] => i = j

\* A directory that is not to be cleaned up has resisted before.
DirsInv == dirs \subseteq temp_files \cup stuck

\* A solve that was not entered has waited for nothing, and an active one has
\* handed its model over.  As long as the model is queued, what is left of the
\* wait of the caller and what the model has waited make up the whole wait;
\* after that the caller outlasts the solver by the grace, less what the model
\* has waited.
ClockInv ==
  /\ \A s \in Solves : phase[s] = "new" => waited[s] = 0
  /\ \A s \in Active :
       /\ thread[s] # "none"
       /\ thread[s] = "queued" => timer[s] + waited[s] = Limit + Grace
       /\ thread[s] = "running" /\ s \notin Overrun
            => timer[s] + waited[s] >= Grace + budget[s]

-----------------------------------------------------------------------------
(* The queue.                                                              *)

\* What removing one place of a sequence leaves.
LEMMA RemoveAtFacts ==
  ASSUME NEW S, NEW q \in Seq(S), NEW i \in 1 .. Len(q)
  PROVE  /\ RemoveAt(q, i) \in Seq(S)
         /\ Len(RemoveAt(q, i)) = Len(q) - 1
         /\ \A j \in 1 .. Len(q) - 1 : RemoveAt(q, i)[j] = IF j < i THEN q[j] ELSE q[j + 1]
<1> DEFINE left  == SubSeq(q, 1, i - 1)
           right == SubSeq(q, i + 1, Len(q))
<1>1. Len(q) \in Nat /\ \A j \in 1 .. Len(q) : q[j] \in S
  BY ElementOfSeq
<1>2. /\ left \in Seq(S) /\ Len(left) = i - 1
      /\ \A j \in 1 .. i - 1 : left[j] = q[j]
  <2>1. \A j \in 1 .. i - 1 : q[j] \in S
    BY <1>1
  <2>. QED
    BY <1>1, <2>1, SubSeqProperties
<1>3. /\ right \in Seq(S) /\ Len(right) = Len(q) - i
      /\ \A j \in 1 .. Len(q) - i : right[j] = q[i + j]
  <2>1. \A j \in i + 1 .. Len(q) : q[j] \in S
    BY <1>1
  <2>. QED
    BY <1>1, <2>1, SubSeqProperties
<1> HIDE DEF left, right
<1>4. RemoveAt(q, i) = left \o right
  BY DEF RemoveAt, left, right
<1>5. /\ left \o right \in Seq(S) /\ Len(left \o right) = Len(left) + Len(right)
      /\ \A j \in 1 .. Len(left) + Len(right) :
           (left \o right)[j] = IF j <= Len(left) THEN left[j] ELSE right[j - Len(left)]
  BY <1>2, <1>3, ConcatProperties
<1>6. Len(left) + Len(right) = Len(q) - 1
  BY <1>1, <1>2, <1>3
<1>7. ASSUME NEW j \in 1 .. Len(q) - 1
      PROVE  (left \o right)[j] = IF j < i THEN q[j] ELSE q[j + 1]
  <2>1. CASE j < i
    BY <2>1, <1>1, <1>2, <1>5, <1>6
  <2>2. CASE j >= i
    <3>1. j - Len(left) \in 1 .. Len(q) - i /\ i + (j - Len(left)) = j + 1 /\ ~(j <= Len(left))
      BY <2>2, <1>1, <1>2
    <3>2. right[j - Len(left)] = q[j + 1]
      BY <1>3, <3>1
    <3>3. (left \o right)[j] = right[j - Len(left)]
      BY <1>5, <1>6, <3>1
    <3>. QED
      BY <2>2, <3>2, <3>3, <1>1
  <2>3. j < i \/ j >= i
    BY <1>1
  <2>. QED
    BY <2>1, <2>2, <2>3
<1>. QED
  BY <1>4, <1>5, <1>6, <1>7

\* A solve that gives up leaves the queue; the others stay, each once.
LEMMA AbandonFacts ==
  ASSUME TypeOK, QueuedOnce, NoGhostSolve, NEW s \in Solves, Abandon(s)
  PROVE  /\ queue' \in Seq(Solves) /\ QueuedOnce'
         /\ thread' \in [Solves -> {"none", "queued", "running", "done"}]
         /\ \A x \in Solves : thread'[x] = IF x = s /\ thread[s] = "queued" THEN "none" ELSE thread[x]
         /\ \A x \in Solves : thread'[x] = "queued" <=> \E i \in DOMAIN queue' : queue'[i] = x
<1>k. thread \in [Solves -> {"none", "queued", "running", "done"}] /\ queue \in Seq(Solves)
  BY DEF TypeOK
<1>1. CASE thread[s] # "queued"
  BY <1>1, <1>k DEF Abandon, QueuedOnce, NoGhostSolve
<1>2. CASE thread[s] = "queued"
  <2>1. PICK i \in DOMAIN queue : queue[i] = s /\ queue' = RemoveAt(queue, i)
    BY <1>2 DEF Abandon
  <2>2. /\ Len(queue) \in Nat /\ DOMAIN queue = 1 .. Len(queue) /\ i \in 1 .. Len(queue)
        /\ \A j \in 1 .. Len(queue) : queue[j] \in Solves
    BY <1>k, <2>1, LenProperties, ElementOfSeq
  <2>3. /\ queue' \in Seq(Solves) /\ Len(queue') = Len(queue) - 1
        /\ \A j \in 1 .. Len(queue) - 1 : queue'[j] = IF j < i THEN queue[j] ELSE queue[j + 1]
    BY <1>k, <2>1, <2>2, RemoveAtFacts
  <2>4. DOMAIN queue' = 1 .. Len(queue) - 1
    BY <2>2, <2>3, LenProperties
  <2>5. thread' = [thread EXCEPT ![s] = "none"]
    BY <1>2 DEF Abandon
  <2>6. QueuedOnce'
    <3>1. \A j, l \in 1 .. Len(queue) : queue[j] = queue[l] => j = l
      BY <2>2 DEF QueuedOnce
    <3>2. ASSUME NEW j \in 1 .. Len(queue) - 1, NEW l \in 1 .. Len(queue) - 1,
                 queue'[j] = queue'[l]
          PROVE  j = l
      <4>1. /\ j \in 1 .. Len(queue) /\ j + 1 \in 1 .. Len(queue)
            /\ l \in 1 .. Len(queue) /\ l + 1 \in 1 .. Len(queue)
        BY <2>2
      <4>2. \/ queue[j] = queue[l] /\ (j < i <=> l < i)
            \/ queue[j + 1] = queue[l + 1] /\ (j < i <=> l < i)
            \/ queue[j] = queue[l + 1] /\ j < i /\ l >= i
            \/ queue[j + 1] = queue[l] /\ j >= i /\ l < i
        BY <2>2, <2>3, <3>2
      <4>. QED
        BY <2>2, <3>1, <4>1, <4>2
    <3>. QED
      BY <2>4, <3>2 DEF QueuedOnce
  <2>7. ASSUME NEW x \in Solves, x # s, NEW j \in 1 .. Len(queue), queue[j] = x
        PROVE  \E l \in DOMAIN queue' : queue'[l] = x
    <3>1. CASE j < i
      BY <3>1, <2>2, <2>3, <2>4, <2>7
    <3>2. CASE j > i
      <4>1. j - 1 \in DOMAIN queue' /\ queue'[j - 1] = queue[j]
        BY <3>2, <2>2, <2>3, <2>4
      <4>. QED
        BY <4>1, <2>7
    <3>. QED
      BY <3>1, <3>2, <2>1, <2>2, <2>7
  <2>8. \A j \in DOMAIN queue' : queue'[j] # s /\ \E l \in 1 .. Len(queue) : queue'[j] = queue[l]
    <3>1. TAKE j \in DOMAIN queue'
    <3>2. /\ j \in 1 .. Len(queue) /\ j + 1 \in 1 .. Len(queue)
          /\ queue'[j] = IF j < i THEN queue[j] ELSE queue[j + 1]
      BY <2>2, <2>3, <2>4
    <3>. QED
      BY <3>2, <2>1, <2>2 DEF QueuedOnce
  <2>9. \A x \in Solves : thread'[x] = "queued" <=> \E j \in DOMAIN queue' : queue'[j] = x
    <3>1. \A x \in Solves \ {s} : thread[x] = "queued" <=> \E j \in 1 .. Len(queue) : queue[j] = x
      BY <2>2 DEF NoGhostSolve
    <3>. QED
      BY <1>k, <2>5, <2>7, <2>8, <3>1
  <2>. QED
    BY <1>2, <1>k, <2>3, <2>5, <2>6, <2>9
<1>. QED
  BY <1>1, <1>2

\* A solve that is handed over is last in the queue.
LEMMA AppendFacts ==
  ASSUME TypeOK, QueuedOnce, NoGhostSolve, NEW s \in Solves, thread[s] # "queued",
         thread' = [thread EXCEPT ![s] = "queued"], queue' = Append(queue, s)
  PROVE  /\ queue' \in Seq(Solves) /\ QueuedOnce'
         /\ \A x \in Solves : thread'[x] = "queued" <=> \E i \in DOMAIN queue' : queue'[i] = x
<1>1. /\ thread \in [Solves -> {"none", "queued", "running", "done"}] /\ queue \in Seq(Solves)
      /\ Len(queue) \in Nat /\ DOMAIN queue = 1 .. Len(queue)
      /\ \A i \in 1 .. Len(queue) : queue[i] # s
  BY LenProperties DEF TypeOK, NoGhostSolve
<1>2. /\ queue' \in Seq(Solves) /\ Len(queue') = Len(queue) + 1
      /\ \A i \in 1 .. Len(queue) : queue'[i] = queue[i]
      /\ queue'[Len(queue) + 1] = s
  BY <1>1, AppendProperties
<1>3. DOMAIN queue' = 1 .. Len(queue) + 1
  BY <1>2, LenProperties
<1>4. \A i \in DOMAIN queue' : i \in 1 .. Len(queue) \/ i = Len(queue) + 1
  BY <1>1, <1>3
<1>5. QueuedOnce'
  BY <1>1, <1>2, <1>4 DEF QueuedOnce
<1>6. ASSUME NEW x \in Solves
      PROVE  thread'[x] = "queued" <=> \E i \in DOMAIN queue' : queue'[i] = x
  <2>1. CASE x = s
    BY <2>1, <1>1, <1>2, <1>3
  <2>2. CASE x # s
    <3>1. thread'[x] = "queued" <=> \E i \in 1 .. Len(queue) : queue[i] = x
      BY <2>2, <1>1 DEF NoGhostSolve
    <3>2. 1 .. Len(queue) \subseteq DOMAIN queue'
      BY <1>1, <1>3
    <3>. QED
      BY <2>2, <3>1, <3>2, <1>2, <1>4
  <2>. QED
    BY <2>1, <2>2
<1>. QED
  BY <1>2, <1>5, <1>6

\* A thread takes the first solve of the queue.
LEMMA TakeFacts ==
  ASSUME TypeOK, QueuedOnce, NoGhostSolve, TakeNext
  PROVE  /\ Head(queue) \in Solves /\ thread[Head(queue)] = "queued"
         /\ queue' \in Seq(Solves) /\ QueuedOnce'
         /\ \A x \in Solves : thread'[x] = "queued" <=> \E i \in DOMAIN queue' : queue'[i] = x
<1> DEFINE s == Head(queue)
<1>1. /\ thread \in [Solves -> {"none", "queued", "running", "done"}] /\ queue \in Seq(Solves)
      /\ queue # <<>> /\ queue' = Tail(queue) /\ thread' = [thread EXCEPT ![s] = "running"]
  BY DEF TypeOK, TakeNext
<1>2. /\ Len(queue) \in Nat \ {0} /\ DOMAIN queue = 1 .. Len(queue) /\ s = queue[1]
  BY <1>1, LenProperties, EmptySeq
<1>3. /\ s \in Solves /\ queue' \in Seq(Solves) /\ Len(queue') = Len(queue) - 1
      /\ \A i \in 1 .. Len(queue) - 1 : queue'[i] = queue[i + 1]
  BY <1>1, HeadTailProperties
<1>4. DOMAIN queue' = 1 .. Len(queue) - 1
  BY <1>3, LenProperties
<1>5. thread[s] = "queued"
  BY <1>2, <1>3 DEF NoGhostSolve
<1>6. \A i \in DOMAIN queue' : i + 1 \in DOMAIN queue /\ i + 1 # 1 /\ i \in Nat
  BY <1>2, <1>4
<1>7. QueuedOnce'
  BY <1>2, <1>3, <1>4, <1>6 DEF QueuedOnce
<1>8. ASSUME NEW x \in Solves
      PROVE  thread'[x] = "queued" <=> \E i \in DOMAIN queue' : queue'[i] = x
  <2>1. CASE x = s
    <3>1. \A i \in DOMAIN queue' : queue'[i] # s
      BY <1>2, <1>3, <1>4, <1>6 DEF QueuedOnce
    <3>. QED
      BY <2>1, <3>1, <1>1, <1>3
  <2>2. CASE x # s
    <3>1. thread'[x] = "queued" <=> \E i \in 1 .. Len(queue) : queue[i] = x
      BY <2>2, <1>1, <1>2, <1>3 DEF NoGhostSolve
    <3>2. ASSUME NEW i \in 1 .. Len(queue), queue[i] = x PROVE \E j \in DOMAIN queue' : queue'[j] = x
      <4>1. i - 1 \in DOMAIN queue' /\ queue'[i - 1] = queue[i]
        BY <2>2, <3>2, <1>2, <1>3, <1>4
      <4>. QED
        BY <3>2, <4>1
    <3>3. ASSUME NEW i \in DOMAIN queue', queue'[i] = x PROVE \E j \in 1 .. Len(queue) : queue[j] = x
      BY <3>3, <1>2, <1>3, <1>4, <1>6
    <3>. QED
      BY <3>1, <3>2, <3>3
  <2>. QED
    BY <2>1, <2>2
<1>. QED
  BY <1>3, <1>5, <1>7, <1>8

-----------------------------------------------------------------------------
(* The steps.                                                              *)

\* What Answer, TimeOut and Cancel have in common.
Exit(s) ==
  /\ phase[s] = "active"
  /\ Abandon(s) /\ Leave(s)
  /\ UNCHANGED budget

\* The steps, with the three ways to leave an active solve as one.
LEMMA StepCases ==
  ASSUME [Next]_vars
  PROVE  \/ \E s \in Solves :
              Start(s) \/ Refuse(s) \/ SetupFails(s) \/ ThreadEnds(s) \/ Exit(s)
         \/ TakeNext \/ Tick \/ EmergencyShutdown \/ UNCHANGED vars
<1>1. ASSUME NEW s \in Solves, Answer(s) \/ TimeOut(s) \/ Cancel(s) PROVE Exit(s)
  BY <1>1 DEF Answer, TimeOut, Cancel, Abandon, Exit
<1>. QED
  BY <1>1 DEF Next

\* What a clean-up leaves on the disk has just resisted.
LEMMA CleanupFacts ==
  ASSUME NEW list \in SUBSET Solves, NEW there \in SUBSET Solves, stuck \subseteq Solves,
         there \subseteq list \cup stuck, Cleanup(list, there)
  PROVE  /\ temp_files' \subseteq Solves /\ dirs' \subseteq Solves /\ stuck' \subseteq Solves
         /\ dirs' \subseteq stuck'
BY DEF Cleanup

\* As few threads run as before, or fewer.
LEMMA RunningBound ==
  ASSUME TypeOK, NEW R \in SUBSET Running
  PROVE  Cardinality(R) <= Workers
<1>1. IsFiniteSet(Running) /\ Running \subseteq Solves
  BY SolverAssumption, FS_Subset DEF Running
<1>2. /\ Cardinality(R) <= Cardinality(Running)
      /\ Cardinality(R) \in Nat /\ Cardinality(Running) \in Nat
  BY <1>1, FS_Subset, FS_CardinalityType
<1>. QED
  BY <1>2, SolverAssumption DEF TypeOK

\* One more runs only if a thread is free.
LEMMA OneMoreRunning ==
  ASSUME NEW s \in Solves, Cardinality(Running) < Workers
  PROVE  Cardinality(Running \cup {s}) <= Workers
<1>1. IsFiniteSet(Running)
  BY SolverAssumption, FS_Subset DEF Running
<1>2. /\ Cardinality(Running \cup {s}) \in {Cardinality(Running), Cardinality(Running) + 1}
      /\ Cardinality(Running) \in Nat
  BY <1>1, FS_AddElement, FS_CardinalityType
<1>. QED
  BY <1>2, SolverAssumption

PoolInv == TypeOK /\ QueuedOnce /\ NoGhostSolve

\* The type invariant but for the pool: the queue and the threads.
TimesOK ==
  /\ phase \in [Solves -> {"new", "active", "over"}]
  /\ timer \in [Solves -> 0 .. Limit + Grace]
  /\ budget \in [Solves -> 0 .. Limit]
  /\ waited \in [Solves -> 0 .. Limit + Grace]
  /\ temp_files \subseteq Solves /\ dirs \subseteq Solves /\ stuck \subseteq Solves
  /\ \A s \in Solves : timer[s] > 0 => s \in Active

\* Every step keeps the phases, the times and the directories well formed.
LEMMA TimesStep ==
  ASSUME TypeOK, DirsInv, [Next]_vars
  PROVE  TimesOK'
<1>k. /\ Limit \in Nat /\ Grace \in Nat /\ 0 \in 0 .. Limit + Grace /\ 0 \in 0 .. Limit
      /\ Limit + Grace \in 0 .. Limit + Grace /\ Limit \in 0 .. Limit
  BY SolverAssumption
<1>t. TimesOK
  BY DEF TypeOK, TimesOK
<1>1. ASSUME NEW s \in Solves, Start(s) PROVE TimesOK'
  BY <1>1, <1>k, <1>t DEF Start, TimesOK, Active
<1>2. ASSUME NEW s \in Solves, Leave(s), UNCHANGED budget PROVE TimesOK'
  <2>1. temp_files' \subseteq Solves /\ dirs' \subseteq Solves /\ stuck' \subseteq Solves
    BY <1>2, <1>t, CleanupFacts DEF Leave, TimesOK, DirsInv
  <2>. QED
    BY <1>2, <2>1, <1>k, <1>t DEF Leave, TimesOK, Active
<1>3. ASSUME NEW s \in Solves, Refuse(s) PROVE TimesOK'
  BY <1>3, <1>2 DEF Refuse
<1>4. ASSUME NEW s \in Solves, Exit(s) PROVE TimesOK'
  BY <1>4, <1>2 DEF Exit
<1>5. ASSUME NEW s \in Solves, SetupFails(s) PROVE TimesOK'
  <2>1. temp_files' \subseteq Solves /\ dirs' \subseteq Solves /\ stuck' \subseteq Solves
    <3>1. dirs \cup {s} \subseteq (temp_files \cup {s}) \cup stuck
      BY DEF DirsInv
    <3>. QED
      <4>1. temp_files \cup {s} \subseteq Solves /\ dirs \cup {s} \subseteq Solves /\ stuck \subseteq Solves
        BY <1>t DEF TimesOK
      <4>2. Cleanup(temp_files \cup {s}, dirs \cup {s})
        BY <1>5 DEF SetupFails
      <4>. QED
        BY <3>1, <4>1, <4>2, CleanupFacts
  <2>2. \A x \in Solves : timer[x] > 0 => phase[x] = "active"
    BY <1>t DEF TimesOK, Active
  <2>. QED
    BY <1>5, <2>1, <2>2, <1>t DEF SetupFails, TimesOK, Active
<1>6. ASSUME NEW s \in Solves, ThreadEnds(s) PROVE TimesOK'
  BY <1>6, <1>k, <1>t DEF ThreadEnds, TimesOK, Active, files
<1>7. CASE TakeNext
  BY <1>7, <1>k, <1>t DEF TakeNext, TimesOK, Active, files
<1>8. CASE Tick
  <2>1. /\ timer \in [Solves -> 0 .. Limit + Grace] /\ budget \in [Solves -> 0 .. Limit]
        /\ waited \in [Solves -> 0 .. Limit + Grace]
    BY <1>t DEF TimesOK
  <2>2. timer' \in [Solves -> 0 .. Limit + Grace] /\ \A x \in Solves : timer'[x] > 0 => timer[x] > 0
    BY <1>8, <1>k, <2>1 DEF Tick
  <2>3. budget' \in [Solves -> 0 .. Limit]
    BY <1>8, <1>k, <2>1 DEF Tick
  <2>4. waited' \in [Solves -> 0 .. Limit + Grace]
    BY <1>8, <1>k, <2>1 DEF Tick
  <2>. QED
    BY <1>8, <1>t, <2>2, <2>3, <2>4 DEF Tick, TimesOK, Active, files
<1>9. CASE EmergencyShutdown
  BY <1>9, <1>t DEF EmergencyShutdown, TimesOK, Active
<1>10. CASE UNCHANGED vars
  BY <1>10, <1>t DEF vars, files, TimesOK, Active
<1>. QED
  BY <1>1, <1>3, <1>4, <1>5, <1>6, <1>7, <1>8, <1>9, <1>10, StepCases

\* Every step keeps the queue and the threads of the pool in agreement.
LEMMA PoolStep ==
  ASSUME PoolInv, DirsInv, [Next]_vars
  PROVE  PoolInv'
<1> DEFINE PoolOK == /\ thread \in [Solves -> {"none", "queued", "running", "done"}]
                     /\ queue \in Seq(Solves)
                     /\ Cardinality(Running) <= Workers
                     /\ QueuedOnce /\ NoGhostSolve
<1>t. PoolOK /\ TypeOK
  BY DEF PoolInv, TypeOK
<1>k. phase \in [Solves -> {"new", "active", "over"}]
  BY <1>t DEF TypeOK
<1>1. ASSUME NEW s \in Solves, Start(s) PROVE PoolOK'
  <2>1. thread[s] # "queued"
    BY <1>1, <1>t DEF Start, NoGhostSolve, Active
  <2>2. /\ queue' \in Seq(Solves) /\ QueuedOnce'
        /\ \A x \in Solves : thread'[x] = "queued" <=> \E i \in DOMAIN queue' : queue'[i] = x
    BY <1>1, <1>t, <2>1, AppendFacts DEF Start
  <2>3. Running' \in SUBSET Running
    BY <1>1, <1>t DEF Start, Running
  <2>4. \A x \in Solves : thread'[x] = "queued" => x \in Active'
    BY <1>1, <1>t, <1>k DEF Start, Active, NoGhostSolve
  <2>. QED
    BY <1>1, <1>t, <2>2, <2>3, <2>4, RunningBound DEF Start, NoGhostSolve
<1>2. ASSUME NEW s \in Solves, Refuse(s) \/ SetupFails(s) PROVE PoolOK'
  <2>1. Active' = Active /\ UNCHANGED <<thread, queue>>
    BY <1>2, <1>k DEF Refuse, SetupFails, Leave, Active
  <2>. QED
    BY <1>t, <2>1 DEF Running, QueuedOnce, NoGhostSolve
<1>3. ASSUME NEW s \in Solves, Exit(s) PROVE PoolOK'
  <2>1. /\ queue' \in Seq(Solves) /\ QueuedOnce'
        /\ thread' \in [Solves -> {"none", "queued", "running", "done"}]
        /\ \A x \in Solves : thread'[x] = IF x = s /\ thread[s] = "queued" THEN "none" ELSE thread[x]
        /\ \A x \in Solves : thread'[x] = "queued" <=> \E i \in DOMAIN queue' : queue'[i] = x
    BY <1>3, <1>t, AbandonFacts DEF Exit
  <2>2. Running' \in SUBSET Running
    BY <2>1 DEF Running
  <2>3. \A x \in Solves : thread'[x] = "queued" => x \in Active'
    BY <1>3, <1>t, <1>k, <2>1 DEF Exit, Leave, Active, NoGhostSolve
  <2>. QED
    BY <1>t, <2>1, <2>2, <2>3, RunningBound DEF NoGhostSolve
<1>4. ASSUME NEW s \in Solves, ThreadEnds(s) PROVE PoolOK'
  <2>1. Running' \in SUBSET Running /\ Active' = Active /\ queue' = queue
    BY <1>4, <1>t DEF ThreadEnds, Running, Active
  <2>2. \A x \in Solves : thread'[x] = "queued" <=> thread[x] = "queued"
    BY <1>4, <1>t DEF ThreadEnds
  <2>. QED
    BY <1>4, <1>t, <2>1, <2>2, RunningBound DEF ThreadEnds, QueuedOnce, NoGhostSolve
<1>5. ASSUME TakeNext PROVE PoolOK'
  <2>1. /\ Head(queue) \in Solves /\ thread[Head(queue)] = "queued"
        /\ queue' \in Seq(Solves) /\ QueuedOnce'
        /\ \A x \in Solves : thread'[x] = "queued" <=> \E i \in DOMAIN queue' : queue'[i] = x
    BY <1>5, <1>t, TakeFacts
  <2>2. /\ Cardinality(Running) < Workers /\ Active' = Active
        /\ thread' = [thread EXCEPT ![Head(queue)] = "running"]
    BY <1>5 DEF TakeNext, Active
  <2>3. Running' = Running \cup {Head(queue)}
    BY <1>t, <2>1, <2>2 DEF Running
  <2>4. \A x \in Solves : thread'[x] = "queued" => x \in Active'
    BY <1>t, <2>1, <2>2 DEF NoGhostSolve
  <2>5. Cardinality(Running') <= Workers
    BY <2>1, <2>2, <2>3, OneMoreRunning
  <2>6. thread' \in [Solves -> {"none", "queued", "running", "done"}]
    BY <1>t, <2>2
  <2>. QED
    BY <2>1, <2>4, <2>5, <2>6 DEF NoGhostSolve
<1>6. ASSUME UNCHANGED <<phase, thread, queue>> PROVE PoolOK'
  <2>1. Active' = Active /\ Running' = Running
    BY <1>6 DEF Active, Running
  <2>2. QueuedOnce'
    BY <1>6, <1>t DEF QueuedOnce
  <2>. QED
    BY <1>6, <1>t, <2>1, <2>2 DEF NoGhostSolve
<1>7. ASSUME Tick \/ EmergencyShutdown \/ UNCHANGED vars PROVE PoolOK'
  BY <1>6, <1>7 DEF Tick, EmergencyShutdown, vars
<1>8. PoolOK'
  BY <1>1, <1>2, <1>3, <1>4, <1>5, <1>7, StepCases
<1>. QED
  BY <1>8, <1>t, TimesStep DEF PoolInv, TypeOK, TimesOK

\* A directory that exists is listed or has resisted, and belongs to an active
\* solve or has resisted.
LEMMA DirsStep ==
  ASSUME TypeOK, DirsInv, NoDirectoryLeft, [Next]_vars
  PROVE  DirsInv' /\ NoDirectoryLeft'
<1>k. /\ temp_files \subseteq Solves /\ dirs \subseteq Solves /\ stuck \subseteq Solves
      /\ phase \in [Solves -> {"new", "active", "over"}]
      /\ dirs \subseteq temp_files \cup stuck /\ dirs \subseteq Active \cup stuck
  BY DEF TypeOK, DirsInv, NoDirectoryLeft
<1>g. ASSUME dirs' \subseteq stuck' PROVE DirsInv' /\ NoDirectoryLeft'
  BY <1>g DEF DirsInv, NoDirectoryLeft
<1>1. ASSUME NEW s \in Solves, Start(s) PROVE DirsInv' /\ NoDirectoryLeft'
  BY <1>1, <1>k DEF Start, Active, DirsInv, NoDirectoryLeft
<1>2. ASSUME NEW s \in Solves, Refuse(s) \/ Exit(s) PROVE dirs' \subseteq stuck'
  BY <1>2, <1>k, CleanupFacts DEF Refuse, Exit, Leave
<1>3. ASSUME NEW s \in Solves, SetupFails(s) PROVE dirs' \subseteq stuck'
  <2>1. /\ dirs \cup {s} \in SUBSET Solves /\ temp_files \cup {s} \in SUBSET Solves
        /\ dirs \cup {s} \subseteq (temp_files \cup {s}) \cup stuck
    BY <1>k
  <2>. QED
    BY <1>3, <1>k, <2>1, CleanupFacts DEF SetupFails
<1>4. ASSUME NEW s \in Solves, ThreadEnds(s) PROVE DirsInv' /\ NoDirectoryLeft'
  BY <1>4, <1>k DEF ThreadEnds, files, Active, DirsInv, NoDirectoryLeft
<1>5. CASE TakeNext \/ Tick
  BY <1>5, <1>k DEF TakeNext, Tick, files, Active, DirsInv, NoDirectoryLeft
<1>6. ASSUME EmergencyShutdown PROVE dirs' \subseteq stuck'
  BY <1>6, <1>k DEF EmergencyShutdown
<1>7. CASE UNCHANGED vars
  BY <1>7, <1>k DEF vars, files, Active, DirsInv, NoDirectoryLeft
<1>. QED
  BY <1>g, <1>1, <1>2, <1>3, <1>4, <1>5, <1>6, <1>7, StepCases

\* Timers, budgets and waiting go on adding up.
LEMMA ClockStep ==
  ASSUME PoolInv, ClockInv, [Next]_vars
  PROVE  ClockInv'
<1> DEFINE New(s) == phase[s] = "new" => waited[s] = 0
           Counts(s) == /\ thread[s] # "none"
                        /\ thread[s] = "queued" => timer[s] + waited[s] = Limit + Grace
                        /\ thread[s] = "running" /\ s \notin Overrun
                             => timer[s] + waited[s] >= Grace + budget[s]
           ClockOK == \A s \in Solves : New(s) /\ (phase[s] = "active" => Counts(s))
<1>k. /\ phase \in [Solves -> {"new", "active", "over"}]
      /\ thread \in [Solves -> {"none", "queued", "running", "done"}]
      /\ timer \in [Solves -> 0 .. Limit + Grace] /\ budget \in [Solves -> 0 .. Limit]
      /\ waited \in [Solves -> 0 .. Limit + Grace]
      /\ Limit \in Nat /\ Grace \in Nat /\ Overrun \subseteq Solves
  BY SolverAssumption DEF PoolInv, TypeOK
<1>c. ClockOK
  BY DEF ClockInv, Active
<1>1. ASSUME NEW s \in Solves, Start(s) PROVE ClockOK'
  BY <1>1, <1>k, <1>c DEF Start
<1>2. ASSUME NEW s \in Solves, Leave(s), UNCHANGED budget,
             \A x \in Solves \ {s} : thread'[x] = thread[x]
      PROVE  ClockOK'
  <2>1. ASSUME NEW x \in Solves \ {s}
        PROVE  /\ phase'[x] = phase[x] /\ timer'[x] = timer[x] /\ waited'[x] = waited[x]
               /\ thread'[x] = thread[x] /\ budget'[x] = budget[x]
    BY <1>2, <1>k DEF Leave
  <2>2. phase'[s] = "over"
    BY <1>2, <1>k DEF Leave
  <2>. QED
    BY <1>c, <2>1, <2>2
<1>3. ASSUME NEW s \in Solves, Refuse(s) PROVE ClockOK'
  BY <1>2, <1>3 DEF Refuse
<1>4. ASSUME NEW s \in Solves, Exit(s) PROVE ClockOK'
  <2>1. \A x \in Solves \ {s} : thread'[x] = thread[x]
    BY <1>4, <1>k DEF Exit, Abandon
  <2>. QED
    BY <1>2, <1>4, <2>1 DEF Exit
<1>5. ASSUME NEW s \in Solves, SetupFails(s) PROVE ClockOK'
  BY <1>5, <1>k, <1>c DEF SetupFails
<1>6. ASSUME NEW s \in Solves, ThreadEnds(s) PROVE ClockOK'
  BY <1>6, <1>k, <1>c DEF ThreadEnds
<1>7. ASSUME TakeNext PROVE ClockOK'
  <2>1. Head(queue) \in Solves /\ thread[Head(queue)] = "queued"
    BY <1>7, TakeFacts DEF PoolInv
  <2>2. /\ thread' = [thread EXCEPT ![Head(queue)] = "running"]
        /\ budget' = [budget EXCEPT ![Head(queue)] = Limit]
        /\ UNCHANGED <<phase, timer, waited>>
    BY <1>7 DEF TakeNext
  <2>. QED
    BY <1>k, <1>c, <2>1, <2>2
<1>8. ASSUME Tick PROVE ClockOK'
  <2>1. UNCHANGED <<phase, thread>>
    BY <1>8 DEF Tick
  <2>2. ASSUME NEW s \in Solves PROVE New(s)'
    <3>1. phase[s] = "new" => thread[s] # "queued"
      BY <1>k DEF PoolInv, NoGhostSolve, Active
    <3>. QED
      BY <1>8, <1>k, <1>c, <3>1 DEF Tick
  <2>3. ASSUME NEW s \in Solves, phase[s] = "active" PROVE Counts(s)'
    <3>1. CASE thread[s] = "queued"
      <4>1. /\ timer'[s] = IF timer[s] > 0 THEN timer[s] - 1 ELSE 0
            /\ waited'[s] = IF waited[s] < Limit + Grace THEN waited[s] + 1 ELSE waited[s]
            /\ timer[s] + waited[s] = Limit + Grace
            /\ timer[s] \in 0 .. Limit + Grace /\ waited[s] \in 0 .. Limit + Grace
        BY <1>8, <1>k, <1>c, <2>3, <3>1 DEF Tick
      <4>2. timer'[s] + waited'[s] = Limit + Grace
        BY <1>k, <4>1
      <4>. QED
        BY <2>1, <3>1, <4>2
    <3>2. CASE thread[s] = "running" /\ s \notin Overrun
      <4>1. /\ budget[s] > 0 /\ s \in Running
        BY <1>8, <3>2 DEF Tick, Running
      <4>2. /\ timer'[s] = IF timer[s] > 0 THEN timer[s] - 1 ELSE 0
            /\ waited'[s] = waited[s] /\ budget'[s] = budget[s] - 1
            /\ timer[s] + waited[s] >= Grace + budget[s]
            /\ timer[s] \in 0 .. Limit + Grace /\ waited[s] \in 0 .. Limit + Grace
            /\ budget[s] \in 0 .. Limit
        BY <1>8, <1>k, <1>c, <2>3, <3>2, <4>1 DEF Tick
      <4>3. timer'[s] + waited'[s] >= Grace + budget'[s]
        BY <1>k, <4>2
      <4>. QED
        BY <2>1, <3>2, <4>3
    <3>3. CASE thread[s] # "queued" /\ ~(thread[s] = "running" /\ s \notin Overrun)
      BY <1>c, <2>1, <2>3, <3>3
    <3>. QED
      BY <3>1, <3>2, <3>3
  <2>. QED
    BY <2>1, <2>2, <2>3
<1>9. ASSUME EmergencyShutdown \/ UNCHANGED vars PROVE ClockOK'
  BY <1>9, <1>c DEF EmergencyShutdown, vars
<1>10. ClockOK'
  BY <1>1, <1>3, <1>4, <1>5, <1>6, <1>7, <1>8, <1>9, StepCases
<1>. QED
  BY <1>10 DEF ClockInv, Active

-----------------------------------------------------------------------------
(* The theorems.                                                           *)

Inv == PoolInv /\ DirsInv /\ NoDirectoryLeft /\ ClockInv

LEMMA InvInit == Init => Inv
<1> SUFFICES ASSUME Init PROVE Inv
  OBVIOUS
<1>k. Limit \in Nat /\ Grace \in Nat /\ Workers \in Nat
  BY SolverAssumption
<1>1. /\ Running = {} /\ Cardinality(Running) = 0 /\ Active = {}
      /\ queue \in Seq(Solves) /\ DOMAIN queue = {}
  <2>1. Running = {} /\ Active = {}
    BY DEF Init, Running, Active
  <2>2. queue \in Seq(Solves) /\ DOMAIN queue = {}
    BY DEF Init
  <2>. QED
    BY <2>1, <2>2, FS_EmptySet
<1>2. TypeOK
  BY <1>k, <1>1 DEF Init, TypeOK
<1>3. QueuedOnce /\ NoGhostSolve
  BY <1>1 DEF Init, QueuedOnce, NoGhostSolve
<1>4. DirsInv /\ NoDirectoryLeft /\ ClockInv
  BY <1>1 DEF Init, DirsInv, NoDirectoryLeft, ClockInv
<1>. QED
  BY <1>2, <1>3, <1>4 DEF Inv, PoolInv

LEMMA InvStep == Inv /\ [Next]_vars => Inv'
BY PoolStep, DirsStep, ClockStep DEF Inv, PoolInv

LEMMA InvHolds == Spec => []Inv
BY InvInit, InvStep, PTL DEF Spec

\* Every variable keeps its type; only active solves wait, and the pool never
\* runs more solves than it has threads.
THEOREM TypeCorrect == Spec => []TypeOK
BY InvHolds, PTL DEF Inv, PoolInv

\* However solves end, overlap or fail to start, managed_solve leaves no
\* directory behind but those whose removal failed.
THEOREM DirectoriesAreRemoved == Spec => []NoDirectoryLeft
BY InvHolds, PTL DEF Inv

\* A solve that was given up is not taken from the queue of the pool any more.
THEOREM GivenUpIsNotTaken == Spec => []NoGhostSolve
BY InvHolds, PTL DEF Inv, PoolInv

\* The wait of the caller runs out on a solver that keeps its limit only if the
\* model has waited for a thread for the grace or longer.
THEOREM TimeoutMeansWaiting == Spec => []TimeoutNeedsQueue
<1>1. Inv => TimeoutNeedsQueue
  <2> SUFFICES ASSUME Inv, NEW s \in Active \ Overrun, timer[s] = 0, thread[s] # "done"
               PROVE  waited[s] >= Grace
    BY DEF TimeoutNeedsQueue
  <2>1. /\ s \in Solves /\ thread[s] \in {"none", "queued", "running", "done"}
        /\ budget[s] \in 0 .. Limit /\ waited[s] \in 0 .. Limit + Grace
        /\ Limit \in Nat /\ Grace \in Nat
    BY SolverAssumption DEF Inv, PoolInv, TypeOK, Active
  <2>2. /\ thread[s] # "none"
        /\ thread[s] = "queued" => timer[s] + waited[s] = Limit + Grace
        /\ thread[s] = "running" => timer[s] + waited[s] >= Grace + budget[s]
    BY DEF Inv, ClockInv
  <2>. QED
    BY <2>1, <2>2
<1>. QED
  BY <1>1, InvHolds, PTL

\* A directory leaves the list of _temp_files only when it is gone or when an
\* emergency shutdown forgets the list.
THEOREM DirectoriesStayListed == Spec => DirectoriesListed
<1> DEFINE Kept ==
      \A s \in dirs : \/ s \in dirs' => s \in temp_files' \/ s \notin temp_files
                      \/ EmergencyShutdown
<1>1. [Next]_vars => [Kept]_vars
  <2> SUFFICES ASSUME [Next]_vars, NEW x \in dirs, ~EmergencyShutdown, x \in dirs', x \in temp_files
               PROVE  x \in temp_files'
    OBVIOUS
  <2>1. ASSUME NEW s \in Solves, Start(s) \/ Refuse(s) \/ SetupFails(s) \/ Exit(s)
        PROVE  x \in temp_files'
    BY <2>1 DEF Start, Refuse, SetupFails, Exit, Leave, Cleanup
  <2>2. ASSUME UNCHANGED files PROVE x \in temp_files'
    BY <2>2 DEF files
  <2>. QED
    BY <2>1, <2>2, StepCases DEF ThreadEnds, TakeNext, Tick, vars
<1> HIDE DEF Kept
<1>2. Spec => [][Kept]_vars
  BY <1>1, PTL DEF Spec
<1>. QED
  BY <1>2 DEF Kept, DirectoriesListed
=============================================================================
