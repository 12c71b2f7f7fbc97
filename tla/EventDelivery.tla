---------------------------- MODULE EventDelivery ----------------------------
(***************************************************************************)
(* What units of work and the event bus promise to those who write         *)
(* handlers: the events of a transaction become public together or not at  *)
(* all, what became of them is final, and a handler is called for public   *)
(* events only, for those of one unit in the order in which they were      *)
(* added, and so at most once for each.  DomainTransactions.tla is shown   *)
(* to implement this specification.                                        *)
(***************************************************************************)
EXTENDS Integers, Sequences

CONSTANTS
  Events,    \* numbered in the order in which they are added
  Units,     \* those who add events
  Nobody,    \* the unit of an event that has not been added
  Handlers   \* those who are called

VARIABLES
  owner,     \* the unit each event was added to
  fate,      \* "new", "staged", "committed" or "discarded"
  calls      \* the calls of handlers so far

vars == <<owner, fate, calls>>

Init ==
  /\ owner = [e \in Events |-> Nobody]
  /\ fate = [e \in Events |-> "new"]
  /\ calls = <<>>

Add(u, e) ==
  /\ \A f \in Events : fate[f] = "new" <=> e <= f
  /\ owner' = [owner EXCEPT ![e] = u]
  /\ fate' = [fate EXCEPT ![e] = "staged"]
  /\ UNCHANGED calls

\* All that is staged in a unit shares one fate, and nothing else changes.
Settle(u, outcome) ==
  /\ fate' = [e \in Events |->
                IF owner[e] = u /\ fate[e] = "staged" THEN outcome ELSE fate[e]]
  /\ UNCHANGED <<owner, calls>>

Call(h, e) ==
  /\ fate[e] = "committed"
  /\ \A i \in DOMAIN calls :
       calls[i].by = h /\ owner[calls[i].event] = owner[e] => calls[i].event < e
  /\ calls' = Append(calls, [by |-> h, event |-> e])
  /\ UNCHANGED <<owner, fate>>

Next ==
  \/ \E u \in Units :
       \/ \E e \in Events : Add(u, e)
       \/ \E outcome \in {"committed", "discarded"} : Settle(u, outcome)
  \/ \E h \in Handlers, e \in Events : Call(h, e)

Spec == Init /\ [][Next]_vars
=============================================================================
