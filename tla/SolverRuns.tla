----------------------------- MODULE SolverRuns -----------------------------
(***************************************************************************)
(* Solves of the resilient solver manager                                  *)
(* (src/backend/app/core/solver_management.py, ResilientSolverManager,     *)
(* solve_with_timeout in managed_solve).                                   *)
(*                                                                         *)
(* A solve enters managed_solve, hands the model to a thread of the pool   *)
(* of the event loop and waits for it with a time limit.  Only that wait   *)
(* suspends it: entering and leaving are one action each.  A thread cannot *)
(* be interrupted; cancelling it helps only while it is queued.  Timers    *)
(* count down, so time needs no bound.  The resource monitor changes       *)
(* nothing of a solve and is left out.                                     *)
(***************************************************************************)
EXTENDS Integers, Sequences, FiniteSets, SequencesExt

CONSTANTS
  Solves,     \* calls of solve_with_timeout, each made once
  Overrun,    \* those whose solver does not keep its own time limit
  Workers,    \* threads of the pool
  Limit,      \* timeout_seconds, which the solver is given too
  Grace       \* how much longer the caller waits (10 s)

ASSUME SolverAssumption ==
  /\ Overrun \subseteq Solves /\ IsFiniteSet(Solves)
  /\ Workers \in Nat \ {0} /\ Limit \in Nat \ {0} /\ Grace \in Nat \ {0}

VARIABLES
  phase,      \* phase[s]: "new", "active" in managed_solve, or "over"
  thread,     \* thread[s]: "none", "queued", "running", or "done"
  queue,      \* the queue of the pool
  timer,      \* timer[s]: what is left of the wait of the caller
  budget,     \* budget[s]: what is left of the time of the solver
  waited,     \* waited[s]: time an active solve was queued (history)
  temp_files, \* _temp_files: directories to clean up, named by their solves
  dirs,       \* the directories that exist
  stuck       \* directories whose last removal failed (history)

files == <<temp_files, dirs, stuck>>
vars == <<phase, thread, queue, timer, budget, waited, files>>

-----------------------------------------------------------------------------
Active == {s \in Solves : phase[s] = "active"}
Running == {s \in Solves : thread[s] = "running"}

\* The listed directories that exist are removed, but for those that resist;
\* a listed one that does not exist stays on the list.  All solves share it.
Cleanup_Bug(list, there) ==
  \E kept \in SUBSET (list \cap there) :
    /\ temp_files' = list \ there
    /\ dirs' = (there \ list) \cup kept
    /\ stuck' = (stuck \ (list \cap there)) \cup kept
Cleanup(list, there) ==
  \E kept \in SUBSET (list \cap there) :
    /\ temp_files' = (list \ there) \cup kept
    /\ dirs' = (there \ list) \cup kept
    /\ stuck' = (stuck \ (list \cap there)) \cup kept

Init ==
  /\ phase = [s \in Solves |-> "new"]
  /\ thread = [s \in Solves |-> "none"]
  /\ queue = <<>>
  /\ timer = [s \in Solves |-> 0]
  /\ budget = [s \in Solves |-> 0]
  /\ waited = [s \in Solves |-> 0]
  /\ temp_files = {} /\ dirs = {} /\ stuck = {}

-----------------------------------------------------------------------------
\* Resources suffice, the directory is made, and the model goes to the pool.
Start_Bug(s) ==
  /\ phase[s] = "new"
  /\ phase' = [phase EXCEPT ![s] = "active"]
  /\ temp_files' = temp_files \cup {s}
  /\ dirs' = dirs \cup {s}
  /\ thread' = [thread EXCEPT ![s] = "queued"]
  /\ queue' = Append(queue, s)
  /\ timer' = [timer EXCEPT ![s] = Limit]
  /\ UNCHANGED <<budget, waited, stuck>>
Start(s) ==
  /\ phase[s] = "new"
  /\ phase' = [phase EXCEPT ![s] = "active"]
  /\ temp_files' = temp_files \cup {s}
  /\ dirs' = dirs \cup {s}
  /\ thread' = [thread EXCEPT ![s] = "queued"]
  /\ queue' = Append(queue, s)
  /\ timer' = [timer EXCEPT ![s] = Limit + Grace]
  /\ UNCHANGED <<budget, waited, stuck>>

\* What managed_solve does last, whatever has happened.
Leave_Bug(s) ==
  /\ phase' = [phase EXCEPT ![s] = "over"]
  /\ timer' = [timer EXCEPT ![s] = 0]
  /\ waited' = [waited EXCEPT ![s] = 0]
  /\ UNCHANGED files
Leave(s) ==
  /\ phase' = [phase EXCEPT ![s] = "over"]
  /\ timer' = [timer EXCEPT ![s] = 0]
  /\ waited' = [waited EXCEPT ![s] = 0]
  /\ Cleanup(temp_files, dirs)

\* Too little memory or disk: the clean-up runs all the same.
Refuse(s) ==
  /\ phase[s] = "new"
  /\ Leave(s)
  /\ UNCHANGED <<thread, queue, budget>>

\* The solver cannot be configured, after its directory has been made.
SetupFails(s) ==
  /\ phase[s] = "new"
  /\ phase' = [phase EXCEPT ![s] = "over"]
  /\ Cleanup(temp_files \cup {s}, dirs \cup {s})
  /\ UNCHANGED <<thread, queue, timer, budget, waited>>

-----------------------------------------------------------------------------
(* The pool.                                                               *)

TakeNext ==
  /\ queue # <<>>
  /\ Cardinality(Running) < Workers
  /\ LET s == Head(queue)
     IN  /\ thread' = [thread EXCEPT ![s] = "running"]
         /\ budget' = [budget EXCEPT ![s] = Limit]
  /\ queue' = Tail(queue)
  /\ UNCHANGED <<phase, timer, waited, files>>

\* Solve returns or raises, whoever still waits for it.
ThreadEnds(s) ==
  /\ thread[s] = "running"
  /\ thread' = [thread EXCEPT ![s] = "done"]
  /\ budget' = [budget EXCEPT ![s] = 0]
  /\ UNCHANGED <<phase, queue, timer, waited, files>>

\* A second passes.  The pool does not leave a thread idle, and a solver that
\* keeps its limit has ended when its time is up.
Tick ==
  /\ Active # {} \/ Running # {}
  /\ queue # <<>> => Cardinality(Running) >= Workers
  /\ \A s \in Running \ Overrun : budget[s] > 0
  /\ timer' = [s \in Solves |-> IF timer[s] > 0 THEN timer[s] - 1 ELSE 0]
  /\ budget' = [s \in Solves |-> IF s \in Running /\ budget[s] > 0 THEN budget[s] - 1 ELSE budget[s]]
  /\ waited' = [s \in Solves |->
       IF thread[s] = "queued" /\ waited[s] < Limit + Grace THEN waited[s] + 1 ELSE waited[s]]
  /\ UNCHANGED <<phase, thread, queue, files>>

-----------------------------------------------------------------------------
(* The caller goes on.                                                     *)

\* The answer of the thread, or its exception.
Answer(s) ==
  /\ phase[s] = "active"
  /\ thread[s] = "done"
  /\ Leave(s)
  /\ UNCHANGED <<thread, queue, budget>>

\* A thread that is still queued never runs; one that runs goes on.
Abandon_Bug(s) == UNCHANGED <<thread, queue>>
Abandon(s) ==
  IF thread[s] = "queued"
  THEN /\ thread' = [thread EXCEPT ![s] = "none"]
       /\ \E i \in DOMAIN queue : queue[i] = s /\ queue' = RemoveAt(queue, i)
  ELSE UNCHANGED <<thread, queue>>

\* The wait is over, with the answer possibly just come.
TimeOut_BugNever(s) ==
  /\ phase[s] = "active"
  /\ timer[s] = 0
  /\ thread[s] # "running"
  /\ Abandon(s)
  /\ Leave(s)
  /\ UNCHANGED budget
TimeOut(s) ==
  /\ phase[s] = "active"
  /\ timer[s] = 0
  /\ Abandon(s)
  /\ Leave(s)
  /\ UNCHANGED budget

\* The request that made the call is cancelled.
Cancel(s) ==
  /\ phase[s] = "active"
  /\ Abandon(s)
  /\ Leave(s)
  /\ UNCHANGED budget

\* emergency_shutdown: the directories go, the list is forgotten, and threads
\* run on, for no solve is ever entered among the active processes.
EmergencyShutdown ==
  /\ temp_files # {}
  /\ \E kept \in SUBSET (temp_files \cap dirs) :
       /\ dirs' = (dirs \ temp_files) \cup kept
       /\ stuck' = (stuck \ temp_files) \cup kept
  /\ temp_files' = {}
  /\ UNCHANGED <<phase, thread, queue, timer, budget, waited>>

Next ==
  \/ \E s \in Solves :
       \/ Start(s) \/ Refuse(s) \/ SetupFails(s)
       \/ ThreadEnds(s)
       \/ Answer(s) \/ TimeOut(s) \/ Cancel(s)
  \/ TakeNext \/ Tick \/ EmergencyShutdown

\* Time passes, the pool works, the event loop answers, and solvers end, those
\* that overrun excepted.
Fairness ==
  /\ WF_vars(Tick) /\ WF_vars(TakeNext)
  /\ \A s \in Solves : WF_vars(Answer(s)) /\ WF_vars(TimeOut(s))
  /\ \A s \in Solves \ Overrun : WF_vars(ThreadEnds(s))

Spec == Init /\ [][Next]_vars /\ Fairness

-----------------------------------------------------------------------------
(* Properties.                                                             *)

\* Only active solves wait, for no longer than they may, and the pool runs no
\* more than its threads.
TypeOK ==
  /\ phase \in [Solves -> {"new", "active", "over"}]
  /\ thread \in [Solves -> {"none", "queued", "running", "done"}]
  /\ queue \in Seq(Solves)
  /\ timer \in [Solves -> 0 .. Limit + Grace]
  /\ budget \in [Solves -> 0 .. Limit]
  /\ waited \in [Solves -> 0 .. Limit + Grace]
  /\ temp_files \subseteq Solves /\ dirs \subseteq Solves
  /\ stuck \subseteq Solves
  /\ Cardinality(Running) <= Workers
  /\ \A s \in Solves : timer[s] > 0 => s \in Active

\* Whichever way solves end, overlap or fail to start, the directories that
\* exist are those of active solves and those whose removal failed (588-601).
NoDirectoryLeft == dirs \subseteq Active \cup stuck

\* A failed removal is tried again by the next clean-up, unless an emergency
\* shutdown has forgotten the list: no directory that is still there leaves the
\* list otherwise (588-601).
DirectoriesListed ==
  [][\A s \in dirs : \/ s \in dirs' => s \in temp_files' \/ s \notin temp_files
                     \/ EmergencyShutdown]_vars

\* A solver that keeps its limit is still at work when the wait of its caller
\* is over only if its model had waited for a thread for as long as the grace,
\* the loop's delay in handing the model to the pool included.  The loop may still
\* be late for the answer, since the check of the resources blocks it for a second
\* (378, 385-386, 436).
TimeoutNeedsQueue ==
  \A s \in Active \ Overrun : timer[s] = 0 /\ thread[s] # "done" => waited[s] >= Grace

\* A solve that is over is never taken from the queue: a thread that runs for
\* nobody was running when its caller left (394-402).
NoGhostSolve ==
  /\ \A s \in Solves : thread[s] = "queued" <=> \E i \in DOMAIN queue : queue[i] = s
  /\ \A s \in Solves : thread[s] = "queued" => s \in Active

\* Every call ends, even if its solver never does or no thread is ever free
\* (385-386).
EverySolveEnds == \A s \in Solves : phase[s] = "active" ~> phase[s] = "over"

=============================================================================
