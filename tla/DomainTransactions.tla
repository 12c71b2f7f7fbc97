-------------------------- MODULE DomainTransactions --------------------------
(***************************************************************************)
(* Units of work and the domain events they publish: DomainUnitOfWork      *)
(* (backend/app/infrastructure/database/domain_unit_of_work.py) on top of  *)
(* SqlModelUnitOfWork (unit_of_work.py), and InMemoryEventBus              *)
(* (infrastructure/events/event_bus.py), reached through the bridge of     *)
(* DomainEventPublisher (domain_event_publisher.py).                       *)
(*                                                                         *)
(* Everything is synchronous, but not sequential: a commit publishes the   *)
(* unit's events, a handler is called in the middle of the publication and *)
(* may open a unit of work of its own, whose events are published before   *)
(* the handler returns.  The units that are entered form a stack.          *)
(*                                                                         *)
(* Application code is free: between Enter and the end of its with block   *)
(* it may add events, commit and roll back as often as it likes, and catch *)
(* or not what they raise.  An action is one call, or one step of a loop   *)
(* that calls handlers.                                                    *)
(***************************************************************************)
EXTENDS Integers, Sequences, SequencesExt

CONSTANTS
  Uows,         \* DomainUnitOfWork objects, each entered at most once
  Nobody,       \* code outside every unit of work
  MaxEvents,    \* bound: how many events are added
  Types,        \* event types
  TypeOf,       \* the type of each event
  Handlers,     \* synchronous handlers of the bus
  Subscribers,  \* the handlers of each type when the application starts
  OneShot,      \* the handlers that may unsubscribe while an event is published
  MaxHistory    \* _max_history_size (1000 in the code)

\* Events are numbered in the order in which they are added to a unit.
Events == 1 .. MaxEvents

ASSUME TransactionsAssumption ==
  /\ Nobody \notin Uows
  /\ MaxEvents \in Nat /\ MaxHistory \in Nat \ {0}
  /\ TypeOf \in [Events -> Types]
  /\ Subscribers \in [Types -> Seq(Handlers)]
  /\ \A t \in Types : IsInjective(Subscribers[t])
  /\ OneShot \subseteq Handlers

VARIABLES
  phase,          \* of each unit: "new", "body" (its with block runs),
                  \* "publishing", "handling" (a handler runs) or "closed"
  session,        \* "ok", or "failed" when only a rollback can help
  stack,          \* the units that are entered, the innermost one last
  leaving,        \* the units that publish on the way out of the with block
  pending,        \* _domain_events of each unit
  position,       \* the event of pending that is published
  next_handler,   \* the next handler for it; 0 before bus.publish is called
  handlers,       \* _handlers of the bus
  event_history,  \* _event_history of the bus
  added,          \* how many events have been added
  unit_of,        \* the unit each event was added to (history)
  fate,           \* what became of its transaction (history)
  handled,        \* the calls of handlers so far (history)
  unsubscribed,   \* the handlers that were ever unsubscribed (history)
  skipped         \* what handlers missed, the list moving under them (history)

unit == <<phase, session, stack, leaving>>
queue == <<pending, position, next_handler>>
bus == <<handlers, event_history, unsubscribed, skipped>>
history == <<added, unit_of, fate, handled>>
vars == <<unit, queue, bus, history>>

Init ==
  /\ phase = [u \in Uows |-> "new"] /\ session = [u \in Uows |-> "ok"]
  /\ stack = <<>> /\ leaving = {}
  /\ pending = [u \in Uows |-> <<>>]
  /\ position = [u \in Uows |-> 1] /\ next_handler = [u \in Uows |-> 0]
  /\ handlers = Subscribers /\ event_history = <<>>
  /\ added = 0 /\ unit_of = [e \in Events |-> Nobody]
  /\ fate = [e \in Events |-> "new"] /\ handled = <<>>
  /\ unsubscribed = {} /\ skipped = {}

-----------------------------------------------------------------------------
(* The with block of a unit of work. *)

\* The unit whose code, or whose handler's code, runs.
running == IF stack = <<>> THEN Nobody ELSE Last(stack)

InBody(u) == running = u /\ phase[u] = "body"
InHandler == running \in Uows /\ phase[running] = "handling"

Enter(u) ==
  /\ running = Nobody \/ InHandler \/ \E v \in Uows : InBody(v)
  /\ phase[u] = "new"
  /\ phase' = [phase EXCEPT ![u] = "body"]
  /\ stack' = Append(stack, u)
  /\ UNCHANGED <<session, leaving, queue, bus, history>>

\* The newest event goes to the front.
AddDomainEvent_Bug(u) ==
  /\ InBody(u) /\ added < MaxEvents
  /\ added' = added + 1
  /\ pending' = [pending EXCEPT ![u] = <<added + 1>> \o @]
  /\ unit_of' = [unit_of EXCEPT ![added + 1] = u]
  /\ fate' = [fate EXCEPT ![added + 1] = "staged"]
  /\ UNCHANGED <<unit, position, next_handler, bus, handled>>

AddDomainEvent(u) ==
  /\ InBody(u) /\ added < MaxEvents
  /\ added' = added + 1
  /\ pending' = [pending EXCEPT ![u] = Append(@, added + 1)]
  /\ unit_of' = [unit_of EXCEPT ![added + 1] = u]
  /\ fate' = [fate EXCEPT ![added + 1] = "staged"]
  /\ UNCHANGED <<unit, position, next_handler, bus, handled>>

Sealed(u, outcome) ==
  [e \in Events |->
     IF e \in Range(pending[u]) /\ fate[e] = "staged" THEN outcome ELSE fate[e]]

\* Only the newest event is taken out.
Discard_Bug(u) ==
  IF pending[u] = <<>> THEN UNCHANGED <<fate, pending>>
  ELSE /\ fate' = [fate EXCEPT ![Last(pending[u])] = "discarded"]
       /\ pending' = [pending EXCEPT ![u] = Front(@)]

Discard(u) ==
  /\ fate' = Sealed(u, "discarded")
  /\ pending' = [pending EXCEPT ![u] = <<>>]

ClearDomainEvents(u) ==
  /\ InBody(u)
  /\ Discard(u)
  /\ UNCHANGED <<unit, position, next_handler, bus, added, unit_of, handled>>

\* When the session cannot roll back, the events are not cleared.
Rollback(u) ==
  /\ InBody(u)
  /\ \/ Discard(u) /\ session' = [session EXCEPT ![u] = "ok"]
     \/ session' = [session EXCEPT ![u] = "failed"] /\ UNCHANGED <<pending, fate>>
  /\ UNCHANGED <<phase, stack, leaving, position, next_handler, bus,
                 added, unit_of, handled>>

\* Publication starts whether or not the session has committed.
Committed_Bug(u) ==
  /\ InBody(u)
  /\ \E outcome \in {"committed", "discarded"} : fate' = Sealed(u, outcome)
  /\ phase' = [phase EXCEPT ![u] = "publishing"]
  /\ position' = [position EXCEPT ![u] = 1]
  /\ next_handler' = [next_handler EXCEPT ![u] = 0]
  /\ UNCHANGED <<session, stack, pending, bus, added, unit_of, handled>>

\* The events belong to a committed transaction now, and publication starts.
Committed(u) ==
  /\ InBody(u) /\ session[u] = "ok"
  /\ fate' = Sealed(u, "committed")
  /\ phase' = [phase EXCEPT ![u] = "publishing"]
  /\ position' = [position EXCEPT ![u] = 1]
  /\ next_handler' = [next_handler EXCEPT ![u] = 0]
  /\ UNCHANGED <<session, stack, pending, bus, added, unit_of, handled>>

\* commit() in the with block
Commit(u) == Committed(u) /\ UNCHANGED leaving

\* commit() rolls back before it raises, and the block goes on if it catches that.
CommitFails(u) == Rollback(u)

\* The end of the with block commits.
Leave(u) == Committed(u) /\ leaving' = leaving \cup {u}

Closed(u) ==
  /\ phase' = [phase EXCEPT ![u] = "closed"]
  /\ stack' = Front(stack)

\* The block is left with its events in the list.
Abandon_Bug(u) ==
  /\ InBody(u)
  /\ Closed(u)
  /\ UNCHANGED <<session, leaving, queue, bus, history>>

\* The with block raises, or its commit fails: whether or not the rollback
\* succeeds, the events are cleared, and the caller gets the exception.
Abandon(u) ==
  /\ InBody(u)
  /\ Discard(u)
  /\ Closed(u)
  /\ UNCHANGED <<session, leaving, position, next_handler, bus,
                 added, unit_of, handled>>

-----------------------------------------------------------------------------
(* Publication. *)

Publishing(u) == running = u /\ phase[u] = "publishing"
Current(u) == pending[u][position[u]]

\* bus.publish is called with the next event.
Publish(u) ==
  /\ Publishing(u) /\ position[u] <= Len(pending[u]) /\ next_handler[u] = 0
  /\ event_history' =
       LET longer == Append(event_history, Current(u))
       IN  IF Len(longer) > MaxHistory THEN Tail(longer) ELSE longer
  /\ next_handler' = [next_handler EXCEPT ![u] = 1]
  /\ UNCHANGED <<unit, pending, position, handlers, unsubscribed, skipped, history>>

\* A handler that fails ends the loop over the handlers.
CallHandler_Bug(u) ==
  /\ Publishing(u) /\ position[u] <= Len(pending[u])
  /\ next_handler[u] \in DOMAIN handlers[TypeOf[Current(u)]]
  /\ handled' = Append(handled, [by   |-> handlers[TypeOf[Current(u)]][next_handler[u]],
                                 event |-> Current(u)])
  /\ \/ next_handler' = [next_handler EXCEPT ![u] = @ + 1]
     \/ next_handler' = [next_handler EXCEPT ![u] = Len(handlers[TypeOf[Current(u)]]) + 1]
  /\ phase' = [phase EXCEPT ![u] = "handling"]
  /\ UNCHANGED <<session, stack, leaving, pending, position, bus,
                 added, unit_of, fate>>

\* The loop runs over the list of handlers itself, not over a copy.
CallHandler(u) ==
  /\ Publishing(u) /\ position[u] <= Len(pending[u])
  /\ next_handler[u] \in DOMAIN handlers[TypeOf[Current(u)]]
  /\ handled' = Append(handled, [by   |-> handlers[TypeOf[Current(u)]][next_handler[u]],
                                 event |-> Current(u)])
  /\ next_handler' = [next_handler EXCEPT ![u] = @ + 1]
  /\ phase' = [phase EXCEPT ![u] = "handling"]
  /\ UNCHANGED <<session, stack, leaving, pending, position, bus,
                 added, unit_of, fate>>

\* It makes no difference whether the handler returns or raises.
HandlerEnds(u) ==
  /\ running = u /\ phase[u] = "handling"
  /\ phase' = [phase EXCEPT ![u] = "publishing"]
  /\ UNCHANGED <<session, stack, leaving, queue, bus, history>>

NextEvent(u) ==
  /\ Publishing(u) /\ position[u] <= Len(pending[u])
  /\ next_handler[u] > Len(handlers[TypeOf[Current(u)]])
  /\ position' = [position EXCEPT ![u] = @ + 1]
  /\ next_handler' = [next_handler EXCEPT ![u] = 0]
  /\ UNCHANGED <<unit, pending, bus, history>>

\* The list of events is cleared only when the unit is left.
PublicationEnds_Bug(u) ==
  /\ Publishing(u) /\ position[u] > Len(pending[u])
  /\ IF u \in leaving
     THEN Closed(u) /\ pending' = [pending EXCEPT ![u] = <<>>]
     ELSE phase' = [phase EXCEPT ![u] = "body"] /\ UNCHANGED <<stack, pending>>
  /\ UNCHANGED <<session, leaving, position, next_handler, bus, history>>

\* The session is closed and the block left, or the block goes on.
PublicationEnds(u) ==
  /\ Publishing(u) /\ position[u] > Len(pending[u])
  /\ pending' = [pending EXCEPT ![u] = <<>>]
  /\ IF u \in leaving THEN Closed(u)
                      ELSE phase' = [phase EXCEPT ![u] = "body"] /\ UNCHANGED stack
  /\ UNCHANGED <<session, leaving, position, next_handler, bus, history>>

-----------------------------------------------------------------------------
(* Subscriptions, changed while nothing runs, or by a handler. *)

Subscribe(h, t) ==
  /\ running = Nobody
  /\ h \notin Range(handlers[t])
  /\ handlers' = [handlers EXCEPT ![t] = Append(@, h)]
  /\ UNCHANGED <<unit, queue, event_history, unsubscribed, skipped, history>>

\* The handlers next in line for an event of type t when the place d before them
\* falls out of the list: the loop takes the one after them.
PassedOver(t, d) ==
  {[by |-> handlers[t][next_handler[u]], event |-> Current(u)] :
     u \in {v \in Uows : /\ phase[v] \in {"publishing", "handling"}
                       /\ position[v] \in DOMAIN pending[v] /\ TypeOf[Current(v)] = t
                       /\ d < next_handler[v] /\ next_handler[v] \in DOMAIN handlers[t]}}

Unsubscribe(h, t) ==
  /\ running = Nobody \/ (InHandler /\ h \in OneShot)
  /\ \E d \in DOMAIN handlers[t] :
       /\ handlers[t][d] = h
       /\ handlers' = [handlers EXCEPT ![t] = RemoveAt(@, d)]
       /\ skipped' = skipped \cup PassedOver(t, d)
  /\ unsubscribed' = unsubscribed \cup {h}
  /\ UNCHANGED <<unit, queue, event_history, history>>

Next ==
  \/ \E u \in Uows :
       \/ Enter(u) \/ AddDomainEvent(u) \/ ClearDomainEvents(u) \/ Rollback(u)
       \/ Commit(u) \/ CommitFails(u) \/ Leave(u) \/ Abandon(u)
       \/ Publish(u) \/ CallHandler(u) \/ HandlerEnds(u) \/ NextEvent(u)
       \/ PublicationEnds(u)
  \/ \E h \in Handlers, t \in Types : Subscribe(h, t) \/ Unsubscribe(h, t)

Spec == Init /\ [][Next]_vars

-----------------------------------------------------------------------------
(* Properties. *)

\* The variables have their types; the history of events stays within its bound.
TypeOK ==
  /\ phase \in [Uows -> {"new", "body", "publishing", "handling", "closed"}]
  /\ session \in [Uows -> {"ok", "failed"}]
  /\ stack \in Seq(Uows) /\ leaving \subseteq Uows
  /\ pending \in [Uows -> Seq(Events)]
  /\ position \in [Uows -> Nat \ {0}] /\ next_handler \in [Uows -> Nat]
  /\ handlers \in [Types -> Seq(Handlers)]
  /\ event_history \in Seq(Events) /\ Len(event_history) <= MaxHistory
  /\ added \in 0 .. MaxEvents
  /\ unit_of \in [Events -> Uows \cup {Nobody}]
  /\ fate \in [Events -> {"new", "staged", "committed", "discarded"}]
  /\ handled \in Seq([by : Handlers, event : Events])
  /\ unsubscribed \subseteq Handlers
  /\ skipped \subseteq [by : Handlers, event : Events]

\* A handler sees an event only if the transaction it was added in has been
\* committed, however commits, rollbacks, failures and nested units follow each
\* other ("publish them after successful commit").
OnlyCommittedHandled ==
  \A i \in DOMAIN handled : fate[handled[i].event] = "committed"

\* No handler sees an event twice, though a unit may commit several times and
\* its with block commits once more.
HandledOnce == IsInjective(handled)

\* When every with block has been left, no event is left in a unit: each was
\* published or discarded with its transaction.
NoEventForgotten ==
  running = Nobody =>
    /\ \A u \in Uows : pending[u] = <<>>
    /\ \A e \in Events : fate[e] # "staged"

\* What a unit adds, each handler sees in the order in which it was added.
UnitOrderKept ==
  \A i, j \in DOMAIN handled :
    /\ i < j
    /\ handled[i].by = handled[j].by
    /\ unit_of[handled[i].event] = unit_of[handled[j].event]
    => handled[i].event < handled[j].event

\* The bus publishes an event "to all registered handlers" (110): whatever others
\* raise, and though lists change while they are walked, a handler that was there
\* all along has seen every committed event once all publications are over.  One
\* case excepted: it was next in line when a handler before it unsubscribed.
EveryHandlerNotified ==
  running = Nobody =>
    \A e \in Events : fate[e] = "committed" =>
      \A h \in Range(Subscribers[TypeOf[e]]) \ unsubscribed :
        [by |-> h, event |-> e] \in Range(handled) \cup skipped

-----------------------------------------------------------------------------
(* What handlers can rely on. *)

Delivery == INSTANCE EventDelivery WITH Units <- Uows, owner <- unit_of, calls <- handled

\* The events of a transaction are committed or discarded together and for good,
\* and handlers are called for committed ones, in the order of their unit: no
\* nesting of units, no failure and no change of subscriptions breaks that.
ImplementsEventDelivery == Delivery!Spec
=============================================================================
