------------------------------ MODULE MCSchedule ------------------------------
(***************************************************************************)
(* Small instances of Schedule.                                            *)
(***************************************************************************)
EXTENDS Schedule, TLC

CONSTANTS t1, t2, t3, j1, m1, m2, o1, o2

Bookings(machines, crews, intervals) ==
  {[machine |-> m, operators |-> crew, start_time |-> i[1], end_time |-> i[2]] :
     m \in machines, crew \in crews, i \in intervals}

\* A day of eight minutes of two halves each: work from minute 1 to 6, which are
\* the times 2 to 12, lunch from 4 to 5, the times 8 to 10.

\* Intervals of the morning, one of them empty: on one machine with one operator,
\* on the other with a crew of two.
Morning ==
  Bookings({m1}, {{o1}}, {<<2, 4>>, <<2, 8>>, <<4, 6>>, <<4, 8>>, <<4, 4>>})
    \cup Bookings({m2}, {{o1, o2}}, {<<2, 6>>, <<4, 8>>})

\* Intervals that cross each limit of the working time, some of them by a whole
\* minute or more, the night included, and some by half a minute, with nobody at
\* the machine.
AcrossTheLimits ==
  Bookings({m1}, {{}}, {<<1, 4>>, <<4, 10>>, <<4, 9>>, <<10, 13>>, <<10, 14>>, <<10, 18>>})

SomeDay == Morning \cup AcrossTheLimits

Alike == Permutations(Tasks)
=============================================================================
