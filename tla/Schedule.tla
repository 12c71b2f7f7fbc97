------------------------------ MODULE Schedule ------------------------------
(***************************************************************************)
(* The Schedule aggregate of backend/app/domain/scheduling/entities/       *)
(* schedule.py: a production schedule that is drawn up as a draft,         *)
(* validated, published and then executed.  One action is one method call; *)
(* a call that raises leaves the schedule alone, except publish, which     *)
(* stores the violations it found before it raises.                        *)
(*                                                                         *)
(* Times are seconds, or any other fraction of a minute, since some        *)
(* midnight.  The text of a violation is reduced to its kind; names,       *)
(* timestamps, costs and utilization are left out.                         *)
(***************************************************************************)
EXTENDS Integers, FiniteSets

CONSTANTS
  Tasks, Jobs,
  Machines, Operators,
  Offers,                   \* the assignments callers make
  None,                     \* Python's None
  Minute,                   \* the length of a minute
  DayLength,                \* minutes in a day
  BusinessStart, BusinessEnd,
  LunchStart, LunchEnd      \* minutes of the day

Assignment ==
  [machine : Machines, operators : SUBSET Operators, start_time : Nat, end_time : Nat]

ASSUME ScheduleAssumption ==
  /\ IsFiniteSet(Tasks)
  /\ Offers \subseteq {a \in Assignment : a.start_time <= a.end_time}
  /\ None \notin Offers /\ None \notin Int
  /\ Minute \in Nat \ {0}
  /\ {DayLength, BusinessStart, BusinessEnd, LunchStart, LunchEnd} \subseteq Nat
  /\ BusinessStart < LunchStart /\ LunchStart < LunchEnd
  /\ LunchEnd < BusinessEnd /\ BusinessEnd < DayLength

VARIABLES
  status,
  assignments,            \* the assignment of each task, or None
  job_ids,
  start_date, end_date,   \* the bounds, None at first
  makespan,               \* as calculated last, None at first
  constraint_violations   \* the kinds found by the last validation

vars == <<status, assignments, job_ids, start_date, end_date, makespan, constraint_violations>>

\* is_published
PublishedStatuses == {"published", "active", "completed"}
Statuses == PublishedStatuses \cup {"draft", "cancelled"}

Assigned == {t \in Tasks : assignments[t] # None}

Init ==
  /\ status = "draft"
  /\ assignments = [t \in Tasks |-> None]
  /\ job_ids = {}
  /\ start_date = None /\ end_date = None
  /\ makespan = None
  /\ constraint_violations = {}

-----------------------------------------------------------------------------
(* Editing a draft. *)

\* add_job while the schedule is not published, as update_schedule guards it.
AddJob_Bug(j) ==
  /\ status \notin PublishedStatuses
  /\ job_ids' = job_ids \cup {j}
  /\ UNCHANGED <<status, assignments, start_date, end_date, makespan, constraint_violations>>

AddJob(j) ==
  /\ status = "draft"
  /\ job_ids' = job_ids \cup {j}
  /\ UNCHANGED <<status, assignments, start_date, end_date, makespan, constraint_violations>>

\* The method looks for the job's assignments and leaves them where they are.
RemoveJob(j) ==
  /\ status = "draft"
  /\ job_ids' = job_ids \ {j}
  /\ UNCHANGED <<status, assignments, start_date, end_date, makespan, constraint_violations>>

Earlier(bound, time) == IF bound = None \/ time < bound THEN time ELSE bound

\* The bound follows the last assignment.
Later_Bug(bound, time) == time

Later(bound, time) == IF bound = None \/ time > bound THEN time ELSE bound

\* An earlier assignment of the task is replaced; conflicts are not looked for.
AssignTask(t, a) ==
  /\ status = "draft"
  /\ assignments' = [assignments EXCEPT ![t] = a]
  /\ start_date' = Earlier(start_date, a.start_time)
  /\ end_date' = Later(end_date, a.end_time)
  /\ UNCHANGED <<status, job_ids, makespan, constraint_violations>>

\* The bounds stay as they are.
UnassignTask(t) ==
  /\ status = "draft"
  /\ assignments' = [assignments EXCEPT ![t] = None]
  /\ UNCHANGED <<status, job_ids, start_date, end_date, makespan, constraint_violations>>

-----------------------------------------------------------------------------
(* Validation. *)

OnMachine(m) == {t \in Assigned : assignments[t].machine = m}
WithOperator(o) == {t \in Assigned : o \in assignments[t].operators}

\* The tasks of a group, sorted by start time; tasks that start together stay
\* in the order of the dictionary, which may be any.
SortedOrders(group) ==
  {f \in [1 .. Cardinality(group) -> group] :
     /\ \A t \in group : \E i \in DOMAIN f : f[i] = t
     /\ \A i, j \in DOMAIN f :
          i < j => assignments[f[i]].start_time <= assignments[f[j]].start_time}

\* A task that ends when the next one starts counts as a double booking.
Clash_Bug(order) ==
  \E i \in 1 .. Cardinality(DOMAIN order) - 1 :
    assignments[order[i]].end_time >= assignments[order[i + 1]].start_time

\* Only neighbours in the sorted order are compared.
Clash(order) ==
  \E i \in 1 .. Cardinality(DOMAIN order) - 1 :
    assignments[order[i]].end_time > assignments[order[i + 1]].start_time

\* Can the check of these groups find a double booking, and can it find none?
MayReport(groups, found) ==
  IF found THEN \E group \in groups : \E f \in SortedOrders(group) : Clash(f)
           ELSE \A group \in groups : \E f \in SortedOrders(group) : ~ Clash(f)

MachineGroups == {OnMachine(m) : m \in Machines}
OperatorGroups == {WithOperator(o) : o \in Operators}

\* hour * 60 + minute of a datetime: what it is past the minute is dropped.
MinuteOfDay(time) == (time \div Minute) % DayLength

\* The end of the working day is not looked at.
OutsideHours_Bug(a) == MinuteOfDay(a.start_time) < BusinessStart

OutsideHours(a) ==
  \/ MinuteOfDay(a.start_time) < BusinessStart
  \/ MinuteOfDay(a.end_time) > BusinessEnd

OverLunch(a) ==
  /\ MinuteOfDay(a.start_time) < LunchEnd
  /\ MinuteOfDay(a.end_time) > LunchStart

Kinds == {"machine", "operator", "hours", "lunch"}

\* validate_constraints may find exactly these kinds of violation.
MayFind(found) ==
  /\ MayReport(MachineGroups, "machine" \in found)
  /\ MayReport(OperatorGroups, "operator" \in found)
  /\ "hours" \in found <=> \E t \in Assigned : OutsideHours(assignments[t])
  /\ "lunch" \in found <=> \E t \in Assigned : OverLunch(assignments[t])

ValidateConstraints ==
  /\ constraint_violations' \in {v \in SUBSET Kinds : MayFind(v)}
  /\ UNCHANGED <<status, assignments, job_ids, start_date, end_date, makespan>>

-----------------------------------------------------------------------------
(* The life of a schedule. *)

\* publish that trusts the last validation for the double bookings.
Publish_Bug ==
  /\ status = "draft"
  /\ \E v \in SUBSET Kinds :
       /\ MayFind(v)
       /\ constraint_violations' = (v \cap {"hours", "lunch"}) \cup
                                   (constraint_violations \cap {"machine", "operator"})
  /\ status' = IF constraint_violations' = {} THEN "published" ELSE status
  /\ UNCHANGED <<assignments, job_ids, start_date, end_date, makespan>>

Publish ==
  /\ status = "draft"
  /\ constraint_violations' \in {v \in SUBSET Kinds : MayFind(v)}
  /\ status' = IF constraint_violations' = {} THEN "published" ELSE status
  /\ UNCHANGED <<assignments, job_ids, start_date, end_date, makespan>>

Activate ==
  /\ status = "published"
  /\ status' = "active"
  /\ UNCHANGED <<assignments, job_ids, start_date, end_date, makespan, constraint_violations>>

Complete ==
  /\ status = "active"
  /\ status' = "completed"
  /\ UNCHANGED <<assignments, job_ids, start_date, end_date, makespan, constraint_violations>>

Cancel ==
  /\ status # "completed"
  /\ status' = "cancelled"
  /\ UNCHANGED <<assignments, job_ids, start_date, end_date, makespan, constraint_violations>>

\* The metrics route, the only caller, refuses other statuses.  When the bounds
\* are equal the method raises, but only after it has stored the makespan.
CalculateMetrics ==
  /\ status \in PublishedStatuses
  /\ Assigned # {}
  /\ makespan' = end_date - start_date
  /\ UNCHANGED <<status, assignments, job_ids, start_date, end_date, constraint_violations>>

Next ==
  \/ \E j \in Jobs : AddJob(j) \/ RemoveJob(j)
  \/ \E t \in Tasks, a \in Offers : AssignTask(t, a)
  \/ \E t \in Tasks : UnassignTask(t)
  \/ ValidateConstraints
  \/ Publish \/ Activate \/ Complete \/ Cancel
  \/ CalculateMetrics

Spec == Init /\ [][Next]_vars

-----------------------------------------------------------------------------
(* Properties. *)

\* The variables have their types.  Metrics are calculated without failing on
\* a negative duration, which Duration does not allow.
TypeOK ==
  /\ status \in Statuses
  /\ assignments \in [Tasks -> Offers \cup {None}]
  /\ job_ids \subseteq Jobs
  /\ start_date \in Nat \cup {None} /\ end_date \in Nat \cup {None}
  /\ makespan \in Nat \cup {None}
  /\ constraint_violations \subseteq Kinds

ShareAResource(a, b) == a.machine = b.machine \/ a.operators \cap b.operators # {}

Disjoint(a, b) == a.end_time <= b.start_time \/ b.end_time <= a.start_time

\* No two tasks of the plan need the same machine or operator at a time.
ConflictFree(plan) ==
  \A t, u \in Tasks :
    t # u /\ plan[t] # None /\ plan[u] # None /\ ShareAResource(plan[t], plan[u])
      => Disjoint(plan[t], plan[u])

\* Comparing neighbours in the sorted order is enough: a schedule that has been
\* published books no machine and no operator twice (publish, 510).
PublishedNoDoubleBooking == status \in PublishedStatuses => ConflictFree(assignments)

\* The check of neighbours finds a double booking exactly when two tasks do
\* overlap, as long as every task takes some time: a plan without overlaps is
\* not refused for one, whichever way the sort breaks ties (375-429).
ConflictCheckExact ==
  (\A t \in Assigned : assignments[t].start_time < assignments[t].end_time)
    => \A found \in BOOLEAN :
         /\ MayReport(MachineGroups, found)
              <=> found = \E t, u \in Assigned :
                            /\ t # u /\ assignments[t].machine = assignments[u].machine
                            /\ ~ Disjoint(assignments[t], assignments[u])
         /\ MayReport(OperatorGroups, found)
              <=> found = \E t, u \in Assigned :
                            /\ t # u /\ assignments[t].operators \cap assignments[u].operators # {}
                            /\ ~ Disjoint(assignments[t], assignments[u])

Day(time) == (time \div Minute) \div DayLength

Working(time) ==
  /\ MinuteOfDay(time) \in BusinessStart .. BusinessEnd - 1
  /\ MinuteOfDay(time) \notin LunchStart .. LunchEnd - 1

\* The minutes that no task may go beyond.
Limits == {LunchStart, BusinessEnd}

\* What there is of it outside working time is in the minute it ends in, which
\* is the first one of lunch or after the close.
KeepsHours(a) ==
  \A time \in a.start_time .. a.end_time - 1 :
    \/ Working(time)
    \/ MinuteOfDay(time) = MinuteOfDay(a.end_time) /\ MinuteOfDay(time) \in Limits

\* Start and end are judged by the minute they are in, their seconds dropped.
\* Even so a task that starts and ends on one day is published only if all of it
\* falls into working time, save for the seconds by which it may run into lunch
\* or over the close before the next minute begins (_check_business_hours,
\* 431-457).
PublishedInWorkingTime ==
  status \in PublishedStatuses =>
    \A t \in Assigned :
      Day(assignments[t].start_time) = Day(assignments[t].end_time)
        => KeepsHours(assignments[t])

\* The bounds, from which the makespan is calculated, enclose every assignment,
\* whatever was assigned, replaced and removed before (_update_schedule_bounds).
BoundsCover ==
  \A t \in Assigned :
    /\ start_date # None /\ end_date # None
    /\ start_date <= assignments[t].start_time
    /\ assignments[t].end_time <= end_date

Plan == INSTANCE PublishedPlan WITH
  stage <- status,
  plan <- [tasks |-> assignments, jobs |-> job_ids],
  Plans <- [tasks : [Tasks -> Offers \cup {None}], jobs : SUBSET Jobs],
  Acceptable <- {p \in [tasks : [Tasks -> Offers \cup {None}], jobs : SUBSET Jobs] :
                   ConflictFree(p.tasks)},
  Blank <- [tasks |-> [t \in Tasks |-> None], jobs |-> {}]

\* The schedule is a plan that is frozen once it is published, and published
\* only without double bookings: no method changes the tasks or the jobs of a
\* schedule that is published, running, finished or cancelled.
ImplementsPublishedPlan == Plan!Spec
=============================================================================
