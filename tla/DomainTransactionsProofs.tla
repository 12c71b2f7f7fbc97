----------------------- MODULE DomainTransactionsProofs -----------------------
(***************************************************************************)
(* Theorems about DomainTransactions, for any units, events and handlers.  *)
(***************************************************************************)
EXTENDS DomainTransactions, SequenceTheorems, TLAPS

(***************************************************************************)
(* The inductive invariant.                                                *)
(***************************************************************************)

\* The stack holds each unit that has been entered and not left, once.
StackOK ==
  /\ IsInjective(stack)
  /\ \A u \in Uows :
       u \in Range(stack) <=> phase[u] \in {"body", "publishing", "handling"}

IsPublished(u) == phase[u] \in {"publishing", "handling"}

\* The events of a unit are its own, in the order in which they were added; it
\* publishes committed ones, and those it still collects are staged.
PendingOK ==
  /\ \A e \in Events : e > added => fate[e] = "new"
  /\ \A u \in Uows : \A k \in DOMAIN pending[u] :
       /\ pending[u][k] <= added /\ unit_of[pending[u][k]] = u
       /\ fate[pending[u][k]] = IF IsPublished(u) THEN "committed" ELSE "staged"
       /\ \A l \in DOMAIN pending[u] : k < l => pending[u][k] < pending[u][l]

\* Only units that are entered hold events, and each staged event is in one.
NothingLost ==
  /\ \A u \in Uows : pending[u] # <<>> => u \in Range(stack)
  /\ \A e \in Events : fate[e] = "staged" => \E u \in Uows : e \in Range(pending[u])

SubscribedOnce == \A t \in Types : IsInjective(handlers[t])

\* Of the events of a publication, those before the current one are handled, the
\* current one only by handlers before the next, and those after it by nobody.
NotAhead ==
  \A u \in Uows : \A i \in DOMAIN handled : \A k \in DOMAIN pending[u] :
    IsPublished(u) /\ handled[i].event = pending[u][k] =>
      /\ k <= position[u]
      /\ k = position[u] =>
           /\ next_handler[u] # 0
           /\ \A j \in DOMAIN handlers[TypeOf[pending[u][k]]] :
                handlers[TypeOf[pending[u][k]]][j] = handled[i].by => j < next_handler[u]

\* What a unit has had handled is no newer than what it still has to publish.
NoneNewer ==
  \A u \in Uows : \A i \in DOMAIN handled : \A k \in DOMAIN pending[u] :
    /\ unit_of[handled[i].event] = u
    /\ IsPublished(u) => position[u] <= k
    => handled[i].event <= pending[u][k]

TransactionsInv ==
  /\ TypeOK /\ StackOK /\ PendingOK /\ NothingLost /\ SubscribedOnce
  /\ NotAhead /\ NoneNewer
  /\ OnlyCommittedHandled /\ HandledOnce /\ UnitOrderKept

(***************************************************************************)
(* Sequences.                                                              *)
(***************************************************************************)

\* Removing a place from a sequence moves the places after it down by one.
LEMMA RemoveAtProperties ==
  ASSUME NEW S, NEW s \in Seq(S), NEW i \in DOMAIN s
  PROVE  /\ RemoveAt(s, i) \in Seq(S)
         /\ Len(RemoveAt(s, i)) = Len(s) - 1
         /\ \A j \in 1 .. Len(s) - 1 :
              RemoveAt(s, i)[j] = IF j < i THEN s[j] ELSE s[j + 1]
<1> DEFINE left == SubSeq(s, 1, i - 1)
           right == SubSeq(s, i + 1, Len(s))
<1>1. Len(s) \in Nat /\ i \in 1 .. Len(s)
  BY LenProperties
<1>2. \A j \in 1 .. Len(s) : s[j] \in S
  BY ElementOfSeq
<1>3. /\ left \in Seq(S) /\ Len(left) = i - 1
      /\ \A j \in 1 .. i - 1 : left[j] = s[j]
  BY <1>1, <1>2, SubSeqProperties
<1>4. /\ right \in Seq(S) /\ Len(right) = Len(s) - i
      /\ \A j \in 1 .. Len(s) - i : right[j] = s[i + j]
  BY <1>1, <1>2, SubSeqProperties
<1> HIDE DEF left, right
<1>5. /\ left \o right \in Seq(S) /\ Len(left \o right) = Len(left) + Len(right)
      /\ \A j \in 1 .. Len(left) + Len(right) :
           (left \o right)[j] = IF j <= Len(left) THEN left[j] ELSE right[j - Len(left)]
  BY <1>3, <1>4, ConcatProperties
<1>6. ASSUME NEW j \in 1 .. Len(s) - 1
      PROVE  (left \o right)[j] = IF j < i THEN s[j] ELSE s[j + 1]
  <2>1. j \in 1 .. Len(left) + Len(right)
    BY <1>1, <1>3, <1>4
  <2>2. CASE j < i
    BY <1>1, <1>3, <1>5, <2>1, <2>2
  <2>3. CASE ~ (j < i)
    <3>1. j - Len(left) \in 1 .. Len(s) - i /\ i + (j - Len(left)) = j + 1
      BY <1>1, <1>3, <2>3
    <3>2. right[j - Len(left)] = s[j + 1]
      BY <1>4, <3>1
    <3>3. QED
      BY <1>1, <1>3, <1>5, <2>1, <2>3, <3>2
  <2>4. QED
    BY <2>2, <2>3
<1>7. Len(left \o right) = Len(s) - 1
  BY <1>1, <1>3, <1>4, <1>5
<1>8. QED
  BY <1>5, <1>6, <1>7 DEF RemoveAt, left, right

\* The front of a sequence is the sequence without its last place.
LEMMA FrontProperties ==
  ASSUME NEW S, NEW s \in Seq(S), s # <<>>
  PROVE  /\ Front(s) \in Seq(S) /\ Len(Front(s)) = Len(s) - 1
         /\ \A j \in 1 .. Len(s) - 1 : Front(s)[j] = s[j]
         /\ Len(s) \in Nat \ {0} /\ Last(s) = s[Len(s)] /\ Last(s) \in S
<1>1. Len(s) \in Nat \ {0} /\ \A j \in 1 .. Len(s) : s[j] \in S
  BY EmptySeq, ElementOfSeq
<1> DEFINE n == Len(s) - 1
<1>2. n \in Int /\ \A j \in 1 .. n : s[j] \in S
  BY <1>1
<1>3. n \in Nat
  BY <1>1
<1>4. Front(s) = SubSeq(s, 1, n)
  BY DEF Front
<1> HIDE DEF n
<1>5. Front(s) \in Seq(S) /\ Len(Front(s)) = n /\ \A j \in 1 .. n : Front(s)[j] = s[j]
  BY <1>2, <1>3, <1>4, SubSeqProperties
<1>6. QED
  BY <1>1, <1>5 DEF Last, n

\* A new element may be appended to a sequence without repetitions.
LEMMA AppendFresh ==
  ASSUME NEW S, NEW s \in Seq(S), NEW e \in S, IsInjective(s), e \notin Range(s)
  PROVE  /\ IsInjective(Append(s, e))
         /\ Range(Append(s, e)) = Range(s) \cup {e}
<1>1. /\ Len(s) \in Nat /\ DOMAIN s = 1 .. Len(s)
      /\ DOMAIN Append(s, e) = 1 .. Len(s) + 1
      /\ \A j \in 1 .. Len(s) : Append(s, e)[j] = s[j]
      /\ Append(s, e)[Len(s) + 1] = e
  BY AppendProperties, LenProperties
<1>2. IsInjective(Append(s, e))
  BY <1>1 DEF IsInjective, Range
<1>3. Range(Append(s, e)) \subseteq Range(s) \cup {e}
  BY <1>1 DEF Range
<1>4. Range(s) \cup {e} \subseteq Range(Append(s, e))
  <2>1. ASSUME NEW x \in Range(s) PROVE x \in Range(Append(s, e))
    <3>1. PICK j \in 1 .. Len(s) : s[j] = x
      BY <1>1, <2>1 DEF Range
    <3>2. j \in DOMAIN Append(s, e) /\ Append(s, e)[j] = x
      BY <1>1, <3>1
    <3>3. QED
      BY <3>2 DEF Range
  <2>2. e \in Range(Append(s, e))
    <3>1. Len(s) + 1 \in DOMAIN Append(s, e)
      BY <1>1
    <3>2. QED
      BY <1>1, <3>1 DEF Range
  <2>3. QED
    BY <2>1, <2>2
<1>5. QED
  BY <1>2, <1>3, <1>4

\* The front of a sequence without repetitions lacks just its last element.
LEMMA FrontInjective ==
  ASSUME NEW S, NEW s \in Seq(S), s # <<>>, IsInjective(s)
  PROVE  IsInjective(Front(s)) /\ Range(Front(s)) = Range(s) \ {Last(s)}
<1>1. /\ Len(s) \in Nat \ {0} /\ DOMAIN s = 1 .. Len(s)
      /\ DOMAIN Front(s) = 1 .. Len(s) - 1
      /\ \A j \in 1 .. Len(s) - 1 : Front(s)[j] = s[j]
      /\ Last(s) = s[Len(s)]
  BY FrontProperties, LenProperties
<1>2. IsInjective(Front(s))
  BY <1>1 DEF IsInjective
<1>3. Range(Front(s)) \subseteq Range(s) \ {Last(s)}
  BY <1>1 DEF Range, IsInjective
<1>4. ASSUME NEW x \in Range(s), x # Last(s) PROVE x \in Range(Front(s))
  <2>1. PICK j \in 1 .. Len(s) : s[j] = x
    BY <1>1 DEF Range
  <2>2. j \in 1 .. Len(s) - 1
    BY <1>1, <1>4, <2>1
  <2>3. j \in DOMAIN Front(s) /\ Front(s)[j] = x
    BY <1>1, <2>1, <2>2
  <2>4. QED
    BY <2>3 DEF Range
<1>5. QED
  BY <1>2, <1>3, <1>4

\* Removing a place from a sequence without repetitions.
LEMMA RemoveAtInjective ==
  ASSUME NEW S, NEW s \in Seq(S), NEW i \in DOMAIN s, IsInjective(s)
  PROVE  IsInjective(RemoveAt(s, i))
<1>1. /\ Len(s) \in Nat /\ DOMAIN s = 1 .. Len(s) /\ i \in 1 .. Len(s)
      /\ DOMAIN RemoveAt(s, i) = 1 .. Len(s) - 1
      /\ \A j \in 1 .. Len(s) - 1 :
           RemoveAt(s, i)[j] = IF j < i THEN s[j] ELSE s[j + 1]
  BY RemoveAtProperties, LenProperties
<1> DEFINE place(j) == IF j < i THEN j ELSE j + 1
<1>2. ASSUME NEW j \in 1 .. Len(s) - 1, NEW k \in 1 .. Len(s) - 1,
             RemoveAt(s, i)[j] = RemoveAt(s, i)[k]
      PROVE  j = k
  <2>1. place(j) \in 1 .. Len(s) /\ place(k) \in 1 .. Len(s) /\ (place(j) = place(k) => j = k)
    BY <1>1
  <2>2. s[place(j)] = s[place(k)]
    BY <1>1, <1>2
  <2> HIDE DEF place
  <2>3. QED
    BY <1>1, <2>1, <2>2 DEF IsInjective
<1>3. QED
  BY <1>1, <1>2 DEF IsInjective

(***************************************************************************)
(* Types and the stack.                                                    *)
(***************************************************************************)

\* The unit that runs is on top of the stack.
LEMMA RunningOnTop ==
  ASSUME stack \in Seq(Uows), NEW u \in Uows, running = u
  PROVE  stack # <<>> /\ Last(stack) = u
BY TransactionsAssumption DEF running

\* Every step keeps the type invariant.
LEMMA TypeStep == TypeOK /\ [Next]_vars => TypeOK'
<1> SUFFICES ASSUME TypeOK, [Next]_vars PROVE TypeOK'
  OBVIOUS
<1> USE TransactionsAssumption
<1>1. ASSUME NEW u \in Uows, Enter(u) PROVE TypeOK'
  BY <1>1 DEF TypeOK, Enter, queue, bus, history
<1>2. ASSUME NEW u \in Uows, AddDomainEvent(u) PROVE TypeOK'
  BY <1>2, SMTT(30) DEF TypeOK, AddDomainEvent, unit, bus, Events
<1>3. ASSUME NEW u \in Uows, ClearDomainEvents(u) PROVE TypeOK'
  BY <1>3 DEF TypeOK, ClearDomainEvents, Discard, Sealed, unit, bus
<1>4. ASSUME NEW u \in Uows, Rollback(u) PROVE TypeOK'
  <2>1. CASE Discard(u) /\ session' = [session EXCEPT ![u] = "ok"]
    BY <1>4, <2>1 DEF TypeOK, Rollback, Discard, Sealed, bus
  <2>2. CASE session' = [session EXCEPT ![u] = "failed"] /\ UNCHANGED <<pending, fate>>
    BY <1>4, <2>2 DEF TypeOK, Rollback, bus
  <2>3. QED
    BY <1>4, <2>1, <2>2 DEF Rollback
<1>5. ASSUME NEW u \in Uows, Committed(u), leaving' \subseteq Uows PROVE TypeOK'
  BY <1>5 DEF TypeOK, Committed, Sealed, bus
<1>6. ASSUME NEW u \in Uows, Abandon(u) PROVE TypeOK'
  <2>1. stack' \in Seq(Uows)
    BY <1>6, RunningOnTop, FrontProperties DEF TypeOK, Abandon, InBody, Closed
  <2>2. QED
    BY <1>6, <2>1 DEF TypeOK, Abandon, Discard, Sealed, Closed, bus
<1>7. ASSUME NEW u \in Uows, Publish(u) PROVE TypeOK'
  <2>1. event_history' \in Seq(Events) /\ Len(event_history') <= MaxHistory
    <3> DEFINE longer == Append(event_history, Current(u))
    <3>1. Current(u) \in Events
      BY <1>7 DEF TypeOK, Publish, Current, Publishing
    <3>2. longer \in Seq(Events) /\ Len(longer) = Len(event_history) + 1
      BY <3>1 DEF TypeOK
    <3>3. event_history' = IF Len(longer) > MaxHistory THEN Tail(longer) ELSE longer
      BY <1>7 DEF Publish
    <3> HIDE DEF longer
    <3>4. longer # <<>> /\ Len(event_history) <= MaxHistory
      BY <3>2 DEF TypeOK
    <3>5. Tail(longer) \in Seq(Events) /\ Len(Tail(longer)) = Len(longer) - 1
      BY <3>2, <3>4, HeadTailProperties
    <3>6. QED
      BY <3>2, <3>3, <3>4, <3>5, SMTT(30) DEF TypeOK
  <2>2. QED
    BY <1>7, <2>1 DEF TypeOK, Publish, unit, history
<1>8. ASSUME NEW u \in Uows, CallHandler(u) PROVE TypeOK'
  <2>1. handled' \in Seq([by : Handlers, event : Events])
    <3>1. Current(u) \in Events
      BY <1>8 DEF TypeOK, CallHandler, Current, Publishing
    <3>2. handlers[TypeOf[Current(u)]] \in Seq(Handlers)
      BY <3>1 DEF TypeOK
    <3>3. handlers[TypeOf[Current(u)]][next_handler[u]] \in Handlers
      BY <1>8, <3>2 DEF CallHandler
    <3>4. QED
      BY <1>8, <3>1, <3>3 DEF TypeOK, CallHandler
  <2>2. QED
    BY <1>8, <2>1, SMTT(30) DEF TypeOK, CallHandler, bus
<1>9. ASSUME NEW u \in Uows, HandlerEnds(u) PROVE TypeOK'
  BY <1>9 DEF TypeOK, HandlerEnds, queue, bus, history
<1>10. ASSUME NEW u \in Uows, NextEvent(u) PROVE TypeOK'
  <2>1. position' \in [Uows -> Nat \ {0}] /\ next_handler' \in [Uows -> Nat]
    BY <1>10 DEF TypeOK, NextEvent
  <2>2. UNCHANGED <<unit, pending, bus, history>>
    BY <1>10 DEF NextEvent
  <2>3. QED
    BY <2>1, <2>2 DEF TypeOK, unit, bus, history
<1>11. ASSUME NEW u \in Uows, PublicationEnds(u) PROVE TypeOK'
  <2>1. stack' \in Seq(Uows)
    BY <1>11, RunningOnTop, FrontProperties, SMTT(30) DEF TypeOK, PublicationEnds, Publishing, Closed
  <2>2. phase' \in [Uows -> {"new", "body", "publishing", "handling", "closed"}]
    BY <1>11 DEF TypeOK, PublicationEnds, Closed
  <2>3. pending' \in [Uows -> Seq(Events)]
    BY <1>11 DEF TypeOK, PublicationEnds
  <2>4. UNCHANGED <<session, leaving, position, next_handler, bus, history>>
    BY <1>11 DEF PublicationEnds
  <2>5. QED
    BY <2>1, <2>2, <2>3, <2>4 DEF TypeOK, bus, history
<1>12. ASSUME NEW h \in Handlers, NEW t \in Types, Subscribe(h, t) PROVE TypeOK'
  BY <1>12 DEF TypeOK, Subscribe, unit, queue, history
<1>13. ASSUME NEW h \in Handlers, NEW t \in Types, Unsubscribe(h, t) PROVE TypeOK'
  <2>1. handlers' \in [Types -> Seq(Handlers)]
    BY <1>13, RemoveAtProperties DEF TypeOK, Unsubscribe
  <2>2. ASSUME NEW d PROVE PassedOver(t, d) \subseteq [by : Handlers, event : Events]
    <3>1. ASSUME NEW u \in Uows, position[u] \in DOMAIN pending[u],
                 next_handler[u] \in DOMAIN handlers[t]
          PROVE  /\ handlers[t][next_handler[u]] \in Handlers
                 /\ Current(u) \in Events
      <4>1. handlers[t] \in Seq(Handlers) /\ pending[u] \in Seq(Events)
        BY DEF TypeOK
      <4>2. QED
        BY <3>1, <4>1 DEF Current
    <3>2. QED
      BY <3>1 DEF PassedOver
  <2>3. skipped' \subseteq [by : Handlers, event : Events]
    BY <1>13, <2>2 DEF TypeOK, Unsubscribe
  <2>4. unsubscribed' \subseteq Handlers /\ UNCHANGED <<unit, queue, event_history, history>>
    BY <1>13 DEF TypeOK, Unsubscribe
  <2>5. QED
    BY <2>1, <2>3, <2>4 DEF TypeOK, unit, queue, history
<1>14. CASE UNCHANGED vars
  BY <1>14 DEF TypeOK, vars, unit, queue, bus, history
<1>15. QED
  BY <1>1, <1>2, <1>3, <1>4, <1>5, <1>6, <1>7, <1>8, <1>9, <1>10, <1>11, <1>12,
     <1>13, <1>14 DEF Next, Commit, CommitFails, Leave, TypeOK

\* A unit that stays on the stack may move between its phases.
LEMMA PhaseMoves ==
  ASSUME StackOK, TypeOK, NEW u \in Uows, UNCHANGED stack,
         phase[u] \in {"body", "publishing", "handling"},
         NEW p \in {"body", "publishing", "handling"},
         phase' = [phase EXCEPT ![u] = p]
  PROVE  StackOK'
BY DEF StackOK, TypeOK

\* The unit that runs leaves the stack when it is closed.
LEMMA ClosedStack ==
  ASSUME StackOK, TypeOK, NEW u \in Uows, running = u, Closed(u)
  PROVE  StackOK' /\ Range(stack') = Range(stack) \ {u}
<1>1. stack \in Seq(Uows) /\ stack # <<>> /\ Last(stack) = u
  BY RunningOnTop DEF TypeOK
<1>2. IsInjective(stack') /\ Range(stack') = Range(stack) \ {u}
  BY <1>1, FrontInjective DEF StackOK, Closed
<1>3. QED
  BY <1>2 DEF StackOK, Closed, TypeOK

\* The stack always holds the units that are entered.
LEMMA StackStep == TypeOK /\ StackOK /\ [Next]_vars => StackOK'
<1> SUFFICES ASSUME TypeOK, StackOK, [Next]_vars PROVE StackOK'
  OBVIOUS
<1>1. ASSUME NEW u \in Uows, Enter(u) PROVE StackOK'
  <2>1. u \notin Range(stack)
    BY <1>1 DEF StackOK, Enter
  <2>2. IsInjective(stack') /\ Range(stack') = Range(stack) \cup {u}
    BY <1>1, <2>1, AppendFresh DEF StackOK, TypeOK, Enter
  <2>3. QED
    BY <1>1, <2>2 DEF StackOK, TypeOK, Enter
<1>2. ASSUME NEW u \in Uows, Committed(u) PROVE StackOK'
  BY <1>2, PhaseMoves DEF Committed, InBody
<1>3. ASSUME NEW u \in Uows, Abandon(u) PROVE StackOK'
  BY <1>3, ClosedStack DEF Abandon, InBody
<1>4. ASSUME NEW u \in Uows, CallHandler(u) PROVE StackOK'
  BY <1>4, PhaseMoves DEF CallHandler, Publishing
<1>5. ASSUME NEW u \in Uows, HandlerEnds(u) PROVE StackOK'
  BY <1>5, PhaseMoves DEF HandlerEnds
<1>6. ASSUME NEW u \in Uows, PublicationEnds(u) PROVE StackOK'
  <2>1. CASE Closed(u)
    BY <1>6, <2>1, ClosedStack DEF PublicationEnds, Publishing
  <2>2. CASE phase' = [phase EXCEPT ![u] = "body"] /\ UNCHANGED stack
    BY <1>6, <2>2, PhaseMoves DEF PublicationEnds, Publishing
  <2>3. QED
    BY <1>6, <2>1, <2>2 DEF PublicationEnds
<1>7. ASSUME UNCHANGED <<phase, stack>> PROVE StackOK'
  BY <1>7 DEF StackOK
<1>8. QED
  <2>1. ASSUME NEW u \in Uows,
               \/ AddDomainEvent(u) \/ ClearDomainEvents(u) \/ Rollback(u) \/ CommitFails(u)
               \/ Publish(u) \/ NextEvent(u)
        PROVE  UNCHANGED <<phase, stack>>
    BY <2>1 DEF AddDomainEvent, ClearDomainEvents, Rollback, CommitFails, Publish,
       NextEvent, unit
  <2>2. ASSUME NEW h \in Handlers, NEW t \in Types, Subscribe(h, t) \/ Unsubscribe(h, t)
        PROVE  UNCHANGED <<phase, stack>>
    BY <2>2 DEF Subscribe, Unsubscribe, unit
  <2>3. UNCHANGED vars => UNCHANGED <<phase, stack>>
    BY DEF vars, unit
  <2>4. QED
    BY <1>1, <1>2, <1>3, <1>4, <1>5, <1>6, <1>7, <2>1, <2>2, <2>3
       DEF Next, Commit, Leave

(***************************************************************************)
(* The events of the units.                                                *)
(***************************************************************************)

\* What a unit that does not run holds is its own, so sealing the events of the
\* unit that runs leaves them alone.
LEMMA SealedElsewhere ==
  ASSUME TypeOK, PendingOK, NEW u \in Uows, NEW v \in Uows, v # u,
         NEW k \in DOMAIN pending[v], NEW outcome
  PROVE  Sealed(u, outcome)[pending[v][k]] = fate[pending[v][k]]
<1>1. pending[v][k] \in Events
  BY DEF TypeOK
<1>2. pending[v][k] \notin Range(pending[u])
  BY DEF PendingOK, Range
<1>3. QED
  BY <1>1, <1>2 DEF Sealed

\* Emptying a unit and sealing its events keeps the events of the units in order.
LEMMA DiscardPending ==
  ASSUME TypeOK, PendingOK, NEW u \in Uows, Discard(u), UNCHANGED <<added, unit_of>>,
         \A v \in Uows \ {u} : phase'[v] = phase[v]
  PROVE  PendingOK'
<1>1. ASSUME NEW e \in Events, e > added PROVE fate'[e] = "new"
  BY <1>1 DEF PendingOK, Discard, Sealed
<1>2. ASSUME NEW v \in Uows, NEW k \in DOMAIN pending'[v]
      PROVE  v # u /\ pending'[v] = pending[v] /\ fate'[pending[v][k]] = fate[pending[v][k]]
  <2>1. v # u /\ pending'[v] = pending[v]
    BY <1>2 DEF TypeOK, Discard
  <2>2. QED
    BY <1>2, <2>1, SealedElsewhere DEF Discard
<1>3. QED
  BY <1>1, <1>2 DEF PendingOK, IsPublished

\* The events of every unit are its own, in order, and committed or staged.
LEMMA PendingStep == TypeOK /\ PendingOK /\ [Next]_vars => PendingOK'
<1> SUFFICES ASSUME TypeOK, PendingOK, [Next]_vars PROVE PendingOK'
  OBVIOUS
<1>1. ASSUME NEW u \in Uows, UNCHANGED <<pending, fate, added, unit_of>>,
             NEW p, phase' = [phase EXCEPT ![u] = p],
             IsPublished(u) <=> p \in {"publishing", "handling"}
      PROVE  PendingOK'
  BY <1>1 DEF TypeOK, PendingOK, IsPublished
<1>2. ASSUME UNCHANGED <<phase, pending, fate, added, unit_of>> PROVE PendingOK'
  BY <1>2 DEF PendingOK, IsPublished
<1>3. ASSUME NEW u \in Uows, Enter(u) PROVE PendingOK'
  BY <1>1, <1>3 DEF Enter, queue, history, IsPublished
<1>4. ASSUME NEW u \in Uows, AddDomainEvent(u) PROVE PendingOK'
  <2>1. /\ added \in Nat /\ added + 1 \in Events /\ added' = added + 1
        /\ fate[added + 1] = "new" /\ UNCHANGED phase
        /\ fate' = [fate EXCEPT ![added + 1] = "staged"]
        /\ unit_of' = [unit_of EXCEPT ![added + 1] = u]
        /\ pending' = [pending EXCEPT ![u] = Append(pending[u], added + 1)]
        /\ ~ IsPublished(u)
    BY <1>4, TransactionsAssumption
       DEF TypeOK, PendingOK, AddDomainEvent, Events, InBody, IsPublished, unit
  <2>2. \A e \in Events : e > added' => fate'[e] = "new"
    BY <2>1 DEF TypeOK, PendingOK, Events
  <2>3. ASSUME NEW v \in Uows, NEW k \in DOMAIN pending[v]
        PROVE  /\ pending[v][k] \in Events /\ pending[v][k] < added + 1
               /\ fate'[pending[v][k]] = fate[pending[v][k]]
               /\ unit_of'[pending[v][k]] = unit_of[pending[v][k]]
    <3>1. pending[v][k] \in Events /\ pending[v][k] <= added
      BY <2>3 DEF TypeOK, PendingOK
    <3>2. pending[v][k] # added + 1 /\ pending[v][k] < added + 1
      BY <2>1, <3>1 DEF Events
    <3>3. QED
      BY <2>1, <3>1, <3>2 DEF TypeOK
  <2>4. ASSUME NEW v \in Uows \ {u} PROVE pending'[v] = pending[v]
    BY <2>1, <2>4 DEF TypeOK
  <2>5. /\ pending[u] \in Seq(Events) /\ Len(pending[u]) \in Nat
        /\ DOMAIN pending[u] = 1 .. Len(pending[u])
        /\ DOMAIN pending'[u] = 1 .. Len(pending[u]) + 1
        /\ pending'[u][Len(pending[u]) + 1] = added + 1
        /\ \A k \in 1 .. Len(pending[u]) : pending'[u][k] = pending[u][k]
    BY <2>1, AppendProperties DEF TypeOK
  <2>6. ASSUME NEW v \in Uows, NEW k \in DOMAIN pending'[v]
        PROVE  /\ pending'[v][k] <= added' /\ unit_of'[pending'[v][k]] = v
               /\ fate'[pending'[v][k]] = IF IsPublished(v)' THEN "committed" ELSE "staged"
               /\ \A l \in DOMAIN pending'[v] : k < l => pending'[v][k] < pending'[v][l]
    <3>1. CASE v # u
      BY <2>1, <2>3, <2>4, <2>6, <3>1 DEF PendingOK, IsPublished, Events
    <3>2. CASE v = u /\ k = Len(pending[u]) + 1
      BY <2>1, <2>5, <3>2 DEF TypeOK, IsPublished
    <3>3. CASE v = u /\ k # Len(pending[u]) + 1
      <4>1. k \in DOMAIN pending[u] /\ pending'[u][k] = pending[u][k]
        BY <2>5, <2>6, <3>3
      <4>2. \A l \in DOMAIN pending'[u] : k < l => pending'[u][k] < pending'[u][l]
        BY <2>3, <2>5, <4>1 DEF PendingOK
      <4>3. QED
        BY <2>1, <2>3, <3>3, <4>1, <4>2 DEF PendingOK, IsPublished, Events
    <3>4. QED
      BY <3>1, <3>2, <3>3
  <2>7. QED
    BY <2>2, <2>6 DEF PendingOK
<1>5. ASSUME NEW u \in Uows, ClearDomainEvents(u) PROVE PendingOK'
  BY <1>5, DiscardPending DEF ClearDomainEvents, unit
<1>6. ASSUME NEW u \in Uows, Rollback(u) PROVE PendingOK'
  BY <1>2, <1>6, DiscardPending DEF Rollback
<1>7. ASSUME NEW u \in Uows, Committed(u) PROVE PendingOK'
  <2>1. /\ UNCHANGED <<pending, added, unit_of>> /\ fate' = Sealed(u, "committed")
        /\ phase' = [phase EXCEPT ![u] = "publishing"] /\ ~ IsPublished(u)
    BY <1>7 DEF Committed, InBody, IsPublished
  <2>2. ASSUME NEW k \in DOMAIN pending[u] PROVE fate'[pending[u][k]] = "committed"
    <3>1. pending[u][k] \in Events /\ fate[pending[u][k]] = "staged"
      BY <2>1, <2>2 DEF TypeOK, PendingOK
    <3>2. QED
      BY <2>1, <2>2, <3>1 DEF Sealed, Range
  <2>3. \A e \in Events : e > added => fate'[e] = "new"
    BY <2>1 DEF PendingOK, Sealed
  <2>4. ASSUME NEW v \in Uows, v # u, NEW k \in DOMAIN pending[v]
        PROVE  fate'[pending[v][k]] = fate[pending[v][k]]
    BY <2>1, <2>4, SealedElsewhere
  <2>5. QED
    BY <2>1, <2>2, <2>3, <2>4 DEF TypeOK, PendingOK, IsPublished
<1>8. ASSUME NEW u \in Uows, Abandon(u) PROVE PendingOK'
  BY <1>8, DiscardPending DEF Abandon, Closed, TypeOK
<1>9. ASSUME NEW u \in Uows, CallHandler(u) PROVE PendingOK'
  BY <1>1, <1>9 DEF CallHandler, Publishing, IsPublished
<1>10. ASSUME NEW u \in Uows, HandlerEnds(u) PROVE PendingOK'
  BY <1>1, <1>10 DEF HandlerEnds, queue, history, IsPublished
<1>11. ASSUME NEW u \in Uows, PublicationEnds(u) PROVE PendingOK'
  <2>1. /\ pending' = [pending EXCEPT ![u] = <<>>] /\ UNCHANGED <<fate, added, unit_of>>
        /\ \A v \in Uows \ {u} : phase'[v] = phase[v]
    BY <1>11 DEF PublicationEnds, Closed, history, TypeOK
  <2>2. QED
    BY <2>1 DEF TypeOK, PendingOK, IsPublished
<1>12. ASSUME NEW u \in Uows, Publish(u) \/ NextEvent(u) PROVE PendingOK'
  BY <1>2, <1>12 DEF Publish, NextEvent, unit, history
<1>13. ASSUME NEW h \in Handlers, NEW t \in Types, Subscribe(h, t) \/ Unsubscribe(h, t)
       PROVE  PendingOK'
  BY <1>2, <1>13 DEF Subscribe, Unsubscribe, unit, queue, history
<1>14. CASE UNCHANGED vars
  BY <1>2, <1>14 DEF vars, unit, queue, history
<1>15. QED
  BY <1>3, <1>4, <1>5, <1>6, <1>7, <1>8, <1>9, <1>10, <1>11, <1>12, <1>13, <1>14
     DEF Next, Commit, CommitFails, Leave

\* Every staged event stays with a unit that is entered.
LEMMA NothingLostStep ==
  TypeOK /\ StackOK /\ PendingOK /\ NothingLost /\ [Next]_vars => NothingLost'
<1> SUFFICES ASSUME TypeOK, StackOK, PendingOK, NothingLost, [Next]_vars PROVE NothingLost'
  OBVIOUS
<1>1. ASSUME UNCHANGED <<stack, pending, fate>> PROVE NothingLost'
  BY <1>1 DEF NothingLost
<1>2. ASSUME NEW u \in Uows, Enter(u) PROVE NothingLost'
  <2>1. u \notin Range(stack)
    BY <1>2 DEF StackOK, Enter
  <2>2. Range(stack') = Range(stack) \cup {u} /\ UNCHANGED <<pending, fate>>
    BY <1>2, <2>1, AppendFresh DEF StackOK, TypeOK, Enter, queue, history
  <2>3. QED
    BY <2>2 DEF NothingLost
<1>3. ASSUME NEW u \in Uows, AddDomainEvent(u) PROVE NothingLost'
  <2>1. /\ pending' = [pending EXCEPT ![u] = Append(pending[u], added + 1)]
        /\ fate' = [fate EXCEPT ![added + 1] = "staged"] /\ UNCHANGED stack
        /\ added + 1 \in Events /\ u \in Range(stack)
    BY <1>3, TransactionsAssumption
       DEF AddDomainEvent, unit, TypeOK, Events, InBody, StackOK
  <2>2. ASSUME NEW v \in Uows, pending'[v] # <<>> PROVE v \in Range(stack')
    BY <2>1, <2>2 DEF NothingLost, TypeOK
  <2>3. /\ pending[u] \in Seq(Events) /\ Len(pending[u]) \in Nat
        /\ DOMAIN pending[u] = 1 .. Len(pending[u])
        /\ DOMAIN pending'[u] = 1 .. Len(pending[u]) + 1
        /\ pending'[u][Len(pending[u]) + 1] = added + 1
        /\ \A k \in 1 .. Len(pending[u]) : pending'[u][k] = pending[u][k]
    BY <2>1, AppendProperties DEF TypeOK
  <2>4. added + 1 \in Range(pending'[u])
    <3>1. Len(pending[u]) + 1 \in DOMAIN pending'[u]
      BY <2>3
    <3>2. QED
      BY <2>3, <3>1 DEF Range
  <2>5. ASSUME NEW v \in Uows, NEW e \in Range(pending[v]) PROVE e \in Range(pending'[v])
    <3>1. CASE v # u
      BY <2>1, <2>5, <3>1 DEF TypeOK
    <3>2. CASE v = u
      <4>1. PICK k \in 1 .. Len(pending[u]) : pending[u][k] = e
        BY <2>3, <2>5, <3>2 DEF Range
      <4>2. k \in DOMAIN pending'[u] /\ pending'[u][k] = e
        BY <2>3, <4>1
      <4>3. QED
        BY <3>2, <4>2 DEF Range
    <3>3. QED
      BY <3>1, <3>2
  <2>6. ASSUME NEW e \in Events, fate'[e] = "staged"
        PROVE  \E v \in Uows : e \in Range(pending'[v])
    <3>1. CASE e = added + 1
      BY <2>4, <3>1
    <3>2. CASE e # added + 1
      BY <2>1, <2>5, <2>6, <3>2 DEF NothingLost, TypeOK
    <3>3. QED
      BY <3>1, <3>2
  <2>7. QED
    BY <2>2, <2>6 DEF NothingLost
<1>4. ASSUME NEW u \in Uows, Discard(u), UNCHANGED stack \/ Range(stack') = Range(stack) \ {u}
      PROVE  NothingLost'
  <2>1. ASSUME NEW v \in Uows, pending'[v] # <<>> PROVE v \in Range(stack')
    BY <1>4, <2>1 DEF NothingLost, Discard, TypeOK
  <2>2. ASSUME NEW e \in Events, fate'[e] = "staged"
        PROVE  \E v \in Uows : e \in Range(pending'[v])
    <3>1. fate[e] = "staged" /\ e \notin Range(pending[u])
      BY <1>4, <2>2 DEF Discard, Sealed
    <3>2. PICK v \in Uows : e \in Range(pending[v])
      BY <3>1 DEF NothingLost
    <3>3. pending'[v] = pending[v]
      BY <1>4, <3>1, <3>2 DEF Discard, TypeOK
    <3>4. QED
      BY <3>2, <3>3
  <2>3. QED
    BY <2>1, <2>2 DEF NothingLost
<1>5. ASSUME NEW u \in Uows, Committed(u) PROVE NothingLost'
  <2>1. UNCHANGED <<stack, pending>> /\ \A e \in Events : fate'[e] = "staged" => fate[e] = "staged"
    BY <1>5 DEF Committed, Sealed
  <2>2. QED
    BY <2>1 DEF NothingLost
<1>6. ASSUME NEW u \in Uows, Abandon(u) PROVE NothingLost'
  BY <1>4, <1>6, ClosedStack DEF Abandon, InBody
<1>7. ASSUME NEW u \in Uows, PublicationEnds(u) PROVE NothingLost'
  <2>1. pending' = [pending EXCEPT ![u] = <<>>] /\ UNCHANGED fate
    BY <1>7 DEF PublicationEnds, history
  <2>2. UNCHANGED stack \/ Range(stack') = Range(stack) \ {u}
    BY <1>7, ClosedStack DEF PublicationEnds, Publishing
  <2>3. ASSUME NEW v \in Uows, pending'[v] # <<>> PROVE v \in Range(stack')
    BY <2>1, <2>2, <2>3 DEF NothingLost, TypeOK
  <2>4. ASSUME NEW e \in Events, fate[e] = "staged"
        PROVE  \E v \in Uows : e \in Range(pending'[v])
    <3>1. PICK v \in Uows : e \in Range(pending[v])
      BY <2>4 DEF NothingLost
    <3>2. v # u
      BY <1>7, <2>4, <3>1 DEF PublicationEnds, Publishing, PendingOK, IsPublished, Range
    <3>3. QED
      BY <2>1, <3>1, <3>2 DEF TypeOK
  <2>5. QED
    BY <2>1, <2>3, <2>4 DEF NothingLost
<1>8. ASSUME NEW u \in Uows,
             Publish(u) \/ CallHandler(u) \/ HandlerEnds(u) \/ NextEvent(u)
      PROVE  NothingLost'
  BY <1>1, <1>8 DEF Publish, CallHandler, HandlerEnds, NextEvent, unit, queue, history
<1>9. ASSUME NEW h \in Handlers, NEW t \in Types, Subscribe(h, t) \/ Unsubscribe(h, t)
      PROVE  NothingLost'
  BY <1>1, <1>9 DEF Subscribe, Unsubscribe, unit, queue, history
<1>10. CASE UNCHANGED vars
  BY <1>1, <1>10 DEF vars, unit, queue, history
<1>11. ASSUME NEW u \in Uows, ClearDomainEvents(u) \/ Rollback(u) PROVE NothingLost'
  BY <1>1, <1>4, <1>11 DEF ClearDomainEvents, Rollback, unit
<1>12. QED
  BY <1>2, <1>3, <1>5, <1>6, <1>7, <1>8, <1>9, <1>10, <1>11
     DEF Next, Commit, CommitFails, Leave

\* No handler is subscribed to a type twice.
LEMMA SubscribedOnceStep == TypeOK /\ SubscribedOnce /\ [Next]_vars => SubscribedOnce'
<1> SUFFICES ASSUME TypeOK, SubscribedOnce, [Next]_vars PROVE SubscribedOnce'
  OBVIOUS
<1>1. ASSUME NEW h \in Handlers, NEW t \in Types, Subscribe(h, t) PROVE SubscribedOnce'
  <2>1. IsInjective(Append(handlers[t], h))
    BY <1>1, AppendFresh DEF SubscribedOnce, TypeOK, Subscribe
  <2>2. QED
    BY <1>1, <2>1 DEF SubscribedOnce, TypeOK, Subscribe
<1>2. ASSUME NEW h \in Handlers, NEW t \in Types, Unsubscribe(h, t) PROVE SubscribedOnce'
  <2>1. \A i \in DOMAIN handlers[t] : IsInjective(RemoveAt(handlers[t], i))
    BY RemoveAtInjective DEF SubscribedOnce, TypeOK
  <2>2. QED
    BY <1>2, <2>1 DEF SubscribedOnce, TypeOK, Unsubscribe
<1>3. ASSUME UNCHANGED handlers PROVE SubscribedOnce'
  BY <1>3 DEF SubscribedOnce
<1>4. QED
  BY <1>1, <1>2, <1>3 DEF Next, Commit, CommitFails, Leave, Committed, Enter, AddDomainEvent,
     ClearDomainEvents, Rollback, Abandon, Publish, CallHandler, HandlerEnds,
     NextEvent, PublicationEnds, vars, bus

(***************************************************************************)
(* What the handlers see.                                                  *)
(***************************************************************************)

\* A handler is called with a committed event of the unit that publishes, and
\* the call is the last one of the history.
LEMMA CallProperties ==
  ASSUME TypeOK, PendingOK, NEW u \in Uows, CallHandler(u)
  PROVE  /\ position[u] \in DOMAIN pending[u] /\ Current(u) = pending[u][position[u]]
         /\ Current(u) \in Events /\ unit_of[Current(u)] = u
         /\ IsPublished(u) /\ fate[Current(u)] = "committed"
         /\ Len(handled) \in Nat /\ DOMAIN handled = 1 .. Len(handled)
         /\ DOMAIN handled' = 1 .. Len(handled) + 1
         /\ \A i \in 1 .. Len(handled) : handled'[i] = handled[i]
         /\ handled'[Len(handled) + 1].event = Current(u)
         /\ handled'[Len(handled) + 1].by = handlers[TypeOf[Current(u)]][next_handler[u]]
<1>1. /\ position[u] \in Nat \ {0} /\ position[u] <= Len(pending[u])
      /\ pending[u] \in Seq(Events) /\ phase[u] = "publishing"
  BY DEF TypeOK, CallHandler, Publishing
<1>2. position[u] \in DOMAIN pending[u] /\ Current(u) = pending[u][position[u]]
  BY <1>1 DEF Current
<1>3. /\ Current(u) \in Events /\ unit_of[Current(u)] = u
      /\ IsPublished(u) /\ fate[Current(u)] = "committed"
  BY <1>1, <1>2 DEF PendingOK, IsPublished
<1> DEFINE call == [by |-> handlers[TypeOf[Current(u)]][next_handler[u]],
                    event |-> Current(u)]
<1>4. handled \in Seq([by : Handlers, event : Events]) /\ handled' = Append(handled, call)
  BY DEF TypeOK, CallHandler
<1>5. call \in [by : Handlers, event : Events]
  <2>1. handlers[TypeOf[Current(u)]] \in Seq(Handlers)
    BY <1>3, TransactionsAssumption DEF TypeOK
  <2>2. handlers[TypeOf[Current(u)]][next_handler[u]] \in Handlers
    BY <2>1 DEF CallHandler
  <2>3. QED
    BY <1>3, <2>2
<1> HIDE DEF call
<1>6. /\ Len(handled) \in Nat /\ DOMAIN handled = 1 .. Len(handled)
      /\ DOMAIN handled' = 1 .. Len(handled) + 1
      /\ \A i \in 1 .. Len(handled) : handled'[i] = handled[i]
      /\ handled'[Len(handled) + 1] = call
  BY <1>4, <1>5, AppendProperties
<1>7. QED
  BY <1>2, <1>3, <1>6 DEF call

\* The handlers have seen events.
LEMMA HandledType ==
  ASSUME TypeOK, NEW i \in DOMAIN handled
  PROVE  handled[i].event \in Events
<1>1. handled \in Seq([by : Handlers, event : Events])
  BY DEF TypeOK
<1>2. handled[i] \in [by : Handlers, event : Events]
  BY <1>1, LenProperties, ElementOfSeq
<1>3. QED
  BY <1>2

\* A committed event stays committed.
LEMMA CommittedForGood ==
  ASSUME TypeOK, PendingOK, [Next]_vars, NEW e \in Events, fate[e] = "committed"
  PROVE  fate'[e] = "committed" /\ unit_of'[e] = unit_of[e] /\ e <= added
<1>1. e <= added
  BY DEF PendingOK, TypeOK, Events
<1>2. ASSUME NEW u \in Uows, AddDomainEvent(u)
      PROVE  fate'[e] = "committed" /\ unit_of'[e] = unit_of[e]
  <2>1. e # added + 1
    BY <1>1 DEF Events, TypeOK
  <2>2. QED
    BY <1>2, <2>1 DEF AddDomainEvent, TypeOK
<1>3. \A u : Sealed(u, "committed")[e] = "committed" /\ Sealed(u, "discarded")[e] = "committed"
  BY DEF Sealed
<1>4. QED
  BY <1>1, <1>2, <1>3 DEF Next, Commit, CommitFails, Leave, Committed, Enter, ClearDomainEvents,
     Rollback, Discard, Abandon, Publish, CallHandler, HandlerEnds, NextEvent,
     PublicationEnds, Subscribe, Unsubscribe, vars, history

\* The history of calls changes when a handler is called, and then only.
LEMMA OnlyCallsAreHandled ==
  ASSUME [Next]_vars
  PROVE  UNCHANGED handled \/ \E u \in Uows : CallHandler(u)
BY DEF Next, Commit, CommitFails, Leave, Committed, Enter, AddDomainEvent, ClearDomainEvents,
   Rollback, Abandon, Publish, HandlerEnds, NextEvent, PublicationEnds,
   Subscribe, Unsubscribe, vars, history

\* Handlers see committed events only.
LEMMA CommittedStep ==
  TypeOK /\ PendingOK /\ OnlyCommittedHandled /\ [Next]_vars => OnlyCommittedHandled'
<1> SUFFICES ASSUME TypeOK, PendingOK, OnlyCommittedHandled, [Next]_vars
             PROVE  OnlyCommittedHandled'
  OBVIOUS
<1>1. ASSUME NEW i \in DOMAIN handled PROVE fate'[handled[i].event] = "committed"
  <2>1. handled[i].event \in Events /\ fate[handled[i].event] = "committed"
    BY <1>1, HandledType DEF OnlyCommittedHandled
  <2>2. QED
    BY <2>1, CommittedForGood
<1>2. CASE UNCHANGED handled
  BY <1>1, <1>2 DEF OnlyCommittedHandled
<1>3. ASSUME NEW u \in Uows, CallHandler(u) PROVE OnlyCommittedHandled'
  <2>1. fate'[Current(u)] = "committed"
    BY <1>3, CallProperties, CommittedForGood
  <2>2. ASSUME NEW i \in DOMAIN handled' PROVE fate'[handled'[i].event] = "committed"
    <3>1. CASE i \in DOMAIN handled
      BY <1>1, <1>3, <3>1, CallProperties
    <3>2. CASE i = Len(handled) + 1
      BY <1>3, <2>1, <3>2, CallProperties
    <3>3. QED
      BY <1>3, <2>2, <3>1, <3>2, CallProperties
  <2>3. QED
    BY <2>2 DEF OnlyCommittedHandled
<1>4. QED
  BY <1>2, <1>3, OnlyCallsAreHandled

\* The handler that is called has not seen the event before.
LEMMA CallIsNew ==
  ASSUME TypeOK, PendingOK, NotAhead, NEW u \in Uows, CallHandler(u),
         NEW i \in DOMAIN handled, handled[i].event = Current(u)
  PROVE  handled[i].by # handled'[Len(handled) + 1].by
<1>1. next_handler[u] \in DOMAIN handlers[TypeOf[Current(u)]] /\ next_handler[u] \in Nat
  BY DEF CallHandler, TypeOK
<1>2. \A j \in DOMAIN handlers[TypeOf[Current(u)]] :
        handlers[TypeOf[Current(u)]][j] = handled[i].by => j < next_handler[u]
  BY CallProperties DEF NotAhead
<1>3. QED
  BY <1>1, <1>2, CallProperties

\* No handler sees an event twice.
LEMMA OnceStep ==
  TypeOK /\ PendingOK /\ NotAhead /\ HandledOnce /\ [Next]_vars => HandledOnce'
<1> SUFFICES ASSUME TypeOK, PendingOK, NotAhead, HandledOnce, [Next]_vars PROVE HandledOnce'
  OBVIOUS
<1>1. CASE UNCHANGED handled
  BY <1>1 DEF HandledOnce, IsInjective
<1>2. ASSUME NEW u \in Uows, CallHandler(u) PROVE HandledOnce'
  <2>1. \A i \in DOMAIN handled : handled[i] # handled'[Len(handled) + 1]
    BY <1>2, CallProperties, CallIsNew
  <2>2. QED
    BY <1>2, <2>1, CallProperties DEF HandledOnce, IsInjective
<1>3. QED
  BY <1>1, <1>2, OnlyCallsAreHandled

\* Handlers see the events of a unit in order.
LEMMA OrderStep ==
  TypeOK /\ PendingOK /\ NotAhead /\ NoneNewer /\ OnlyCommittedHandled /\ UnitOrderKept
    /\ [Next]_vars => UnitOrderKept'
<1> SUFFICES ASSUME TypeOK, PendingOK, NotAhead, NoneNewer, OnlyCommittedHandled,
                    UnitOrderKept, [Next]_vars
             PROVE  UnitOrderKept'
  OBVIOUS
<1>1. \A i \in DOMAIN handled :
        handled[i].event \in Events /\ unit_of'[handled[i].event] = unit_of[handled[i].event]
  BY HandledType, CommittedForGood DEF OnlyCommittedHandled
<1>2. CASE UNCHANGED handled
  BY <1>1, <1>2 DEF UnitOrderKept
<1>3. ASSUME NEW u \in Uows, CallHandler(u) PROVE UnitOrderKept'
  <2>1. ASSUME NEW i \in DOMAIN handled, handled[i].by = handled'[Len(handled) + 1].by,
               unit_of[handled[i].event] = u
        PROVE  handled[i].event < Current(u)
    <3>1. handled[i].event # Current(u)
      BY <1>3, <2>1, CallIsNew
    <3>2. handled[i].event <= Current(u)
      <4>1. position[u] \in DOMAIN pending[u] /\ position[u] <= position[u]
        BY <1>3, CallProperties DEF TypeOK
      <4>2. handled[i].event <= pending[u][position[u]]
        BY <2>1, <4>1 DEF NoneNewer
      <4>3. QED
        BY <1>3, <4>2, CallProperties
    <3>3. QED
      BY <1>1, <1>3, <3>1, <3>2, CallProperties DEF Events
  <2>2. unit_of' = unit_of
    BY <1>3 DEF CallHandler
  <2>3. QED
    BY <1>3, <2>1, <2>2, CallProperties, SMTT(30) DEF UnitOrderKept
<1>4. QED
  BY <1>2, <1>3, OnlyCallsAreHandled

\* No handler is ahead of the publication that calls it.
LEMMA NotAheadStep ==
  TypeOK /\ StackOK /\ PendingOK /\ SubscribedOnce /\ OnlyCommittedHandled /\ NotAhead
    /\ [Next]_vars => NotAhead'
<1> SUFFICES ASSUME TypeOK, StackOK, PendingOK, SubscribedOnce, OnlyCommittedHandled,
                    NotAhead, [Next]_vars
             PROVE  NotAhead'
  OBVIOUS
<1>1. ASSUME NEW u \in Uows, UNCHANGED <<handled, handlers>>,
             \A v \in Uows \ {u} :
               /\ pending'[v] = pending[v] /\ position'[v] = position[v]
               /\ next_handler'[v] = next_handler[v] /\ phase'[v] = phase[v],
             \/ ~ IsPublished(u)'
             \/ pending'[u] = <<>>
             \/ /\ IsPublished(u) /\ pending'[u] = pending[u]
                /\ position'[u] = position[u] /\ next_handler'[u] = next_handler[u]
      PROVE  NotAhead'
  <2> SUFFICES ASSUME NEW v \in Uows, NEW i \in DOMAIN handled, NEW k \in DOMAIN pending'[v],
                      IsPublished(v)', handled[i].event = pending'[v][k]
               PROVE  /\ k <= position'[v]
                      /\ k = position'[v] =>
                           /\ next_handler'[v] # 0
                           /\ \A j \in DOMAIN handlers[TypeOf[pending'[v][k]]] :
                                handlers[TypeOf[pending'[v][k]]][j] = handled[i].by
                                  => j < next_handler'[v]
    BY <1>1 DEF NotAhead
  <2>1. /\ IsPublished(v) /\ pending'[v] = pending[v]
        /\ position'[v] = position[v] /\ next_handler'[v] = next_handler[v]
    BY <1>1 DEF IsPublished
  <2>2. QED
    BY <2>1 DEF NotAhead
<1>2. ASSUME NEW u \in Uows,
             \/ Enter(u) \/ AddDomainEvent(u) \/ ClearDomainEvents(u) \/ Rollback(u)
             \/ Abandon(u) \/ HandlerEnds(u) \/ PublicationEnds(u)
      PROVE  NotAhead'
  <2>1. CASE Enter(u)
    BY <1>1, <2>1 DEF Enter, queue, bus, history, IsPublished, TypeOK
  <2>2. CASE AddDomainEvent(u)
    BY <1>1, <2>2 DEF AddDomainEvent, InBody, unit, bus, IsPublished, TypeOK
  <2>3. CASE ClearDomainEvents(u)
    BY <1>1, <2>3 DEF ClearDomainEvents, Discard, InBody, unit, bus, IsPublished, TypeOK
  <2>4. CASE Rollback(u)
    BY <1>1, <2>4 DEF Rollback, Discard, InBody, bus, IsPublished, TypeOK
  <2>5. CASE Abandon(u)
    BY <1>1, <2>5 DEF Abandon, Discard, Closed, bus, IsPublished, TypeOK
  <2>6. CASE HandlerEnds(u)
    BY <1>1, <2>6 DEF HandlerEnds, queue, bus, history, IsPublished, TypeOK
  <2>7. CASE PublicationEnds(u)
    BY <1>1, <2>7 DEF PublicationEnds, Closed, bus, history, IsPublished, TypeOK
  <2>8. QED
    BY <1>2, <2>1, <2>2, <2>3, <2>4, <2>5, <2>6, <2>7
<1>3. ASSUME NEW u \in Uows, Committed(u) PROVE NotAhead'
  <2>1. /\ UNCHANGED <<handled, handlers, pending>> /\ ~ IsPublished(u)
        /\ \A v \in Uows \ {u} :
             /\ position'[v] = position[v] /\ next_handler'[v] = next_handler[v]
             /\ phase'[v] = phase[v]
    BY <1>3 DEF Committed, InBody, bus, IsPublished, TypeOK
  <2>2. \A i \in DOMAIN handled : \A k \in DOMAIN pending[u] :
          handled[i].event # pending[u][k]
    BY <2>1 DEF OnlyCommittedHandled, PendingOK
  <2>3. QED
    BY <2>1, <2>2 DEF NotAhead, IsPublished
<1>4. ASSUME NEW u \in Uows, Publish(u) PROVE NotAhead'
  <2>1. /\ UNCHANGED <<handled, handlers, pending, position, phase>>
        /\ next_handler[u] = 0 /\ IsPublished(u)
        /\ \A v \in Uows \ {u} : next_handler'[v] = next_handler[v]
    BY <1>4 DEF Publish, Publishing, unit, history, IsPublished, TypeOK
  <2>2. \A i \in DOMAIN handled : \A k \in DOMAIN pending[u] :
          handled[i].event = pending[u][k] => k <= position[u] /\ k # position[u]
    BY <2>1 DEF NotAhead
  <2>3. QED
    BY <2>1, <2>2 DEF NotAhead, IsPublished
<1>5. ASSUME NEW u \in Uows, NextEvent(u) PROVE NotAhead'
  <2>1. /\ UNCHANGED <<handled, handlers, pending, phase>> /\ IsPublished(u)
        /\ position[u] \in Nat /\ position'[u] = position[u] + 1
        /\ \A v \in Uows \ {u} :
             next_handler'[v] = next_handler[v] /\ position'[v] = position[v]
    BY <1>5 DEF NextEvent, Publishing, unit, bus, history, IsPublished, TypeOK
  <2>2. \A i \in DOMAIN handled : \A k \in DOMAIN pending[u] :
          handled[i].event = pending[u][k] => k <= position'[u] /\ k # position'[u]
    <3>1. \A k \in DOMAIN pending[u] : k \in Nat
      BY DEF TypeOK
    <3>2. \A i \in DOMAIN handled : \A k \in DOMAIN pending[u] :
            handled[i].event = pending[u][k] => k <= position[u]
      BY <2>1 DEF NotAhead
    <3>3. QED
      BY <2>1, <3>1, <3>2
  <2>3. QED
    BY <2>1, <2>2 DEF NotAhead, IsPublished
<1>6. ASSUME NEW u \in Uows, CallHandler(u) PROVE NotAhead'
  <2>1. /\ UNCHANGED <<pending, position, handlers>>
        /\ next_handler[u] \in Nat /\ next_handler'[u] = next_handler[u] + 1
        /\ next_handler[u] \in DOMAIN handlers[TypeOf[Current(u)]]
        /\ \A v \in Uows \ {u} : next_handler'[v] = next_handler[v]
        /\ \A v \in Uows : IsPublished(v)' <=> IsPublished(v)
    BY <1>6 DEF CallHandler, Publishing, bus, IsPublished, TypeOK
  <2>2. handlers[TypeOf[Current(u)]] \in Seq(Handlers)
    BY <1>6, CallProperties, TransactionsAssumption DEF TypeOK
  <2> SUFFICES ASSUME NEW v \in Uows, NEW i \in DOMAIN handled', NEW k \in DOMAIN pending[v],
                      IsPublished(v), handled'[i].event = pending[v][k]
               PROVE  /\ k <= position[v]
                      /\ k = position[v] =>
                           /\ next_handler'[v] # 0
                           /\ \A j \in DOMAIN handlers[TypeOf[pending[v][k]]] :
                                handlers[TypeOf[pending[v][k]]][j] = handled'[i].by
                                  => j < next_handler'[v]
    BY <2>1 DEF NotAhead
  <2>3. CASE i \in DOMAIN handled /\ v # u
    BY <1>6, <2>1, <2>3, CallProperties DEF NotAhead
  <2>4. CASE i \in DOMAIN handled /\ v = u
    <3>1. handled'[i] = handled[i]
      BY <1>6, <2>4, CallProperties
    <3>2. k <= position[u]
      BY <2>4, <3>1 DEF NotAhead
    <3>3. ASSUME k = position[u], NEW j \in DOMAIN handlers[TypeOf[pending[u][k]]],
                 handlers[TypeOf[pending[u][k]]][j] = handled[i].by
          PROVE  j < next_handler[u] + 1
      <4>1. pending[u][k] = Current(u)
        BY <3>3 DEF Current
      <4>2. j \in Nat /\ j < next_handler[u]
        BY <2>2, <2>4, <3>1, <3>3, <4>1 DEF NotAhead
      <4>3. QED
        BY <2>1, <4>2
    <3>4. QED
      BY <2>1, <2>4, <3>1, <3>2, <3>3
  <2>5. CASE i = Len(handled) + 1
    <3>1. /\ pending[v][k] = Current(u) /\ unit_of[Current(u)] = u
          /\ position[u] \in DOMAIN pending[u] /\ pending[u][position[u]] = Current(u)
          /\ handled'[i].by = handlers[TypeOf[Current(u)]][next_handler[u]]
      BY <1>6, <2>5, CallProperties
    <3>2. v = u
      BY <3>1 DEF PendingOK
    <3>3. k = position[u]
      <4>1. k \in Nat /\ position[u] \in Nat /\ Current(u) \in Nat
        BY <1>6, <3>1, CallProperties, SMTT(30) DEF TypeOK, Events
      <4>2. k < position[u] \/ position[u] < k => Current(u) < Current(u)
        BY <3>1, <3>2 DEF PendingOK
      <4>3. QED
        BY <4>1, <4>2
    <3>4. ASSUME NEW j \in DOMAIN handlers[TypeOf[Current(u)]],
                 handlers[TypeOf[Current(u)]][j] = handled'[i].by
          PROVE  j < next_handler[u] + 1
      <4>1. IsInjective(handlers[TypeOf[Current(u)]])
        BY <1>6, CallProperties, TransactionsAssumption DEF SubscribedOnce
      <4>2. j = next_handler[u]
        BY <2>1, <3>1, <3>4, <4>1 DEF IsInjective
      <4>3. QED
        BY <2>1, <4>2
    <3>5. position[u] <= position[u] /\ next_handler'[u] # 0
      BY <2>1 DEF TypeOK
    <3>6. QED
      BY <2>1, <3>1, <3>2, <3>3, <3>4, <3>5
  <2>6. QED
    BY <1>6, <2>3, <2>4, <2>5, CallProperties
<1>7. ASSUME NEW h \in Handlers, NEW t \in Types, Subscribe(h, t) PROVE NotAhead'
  <2>1. stack = <<>>
    BY <1>7, FrontProperties, TransactionsAssumption DEF Subscribe, running, TypeOK
  <2>2. \A v \in Uows : ~ IsPublished(v) /\ phase' = phase
    BY <1>7, <2>1 DEF Subscribe, unit, StackOK, Range, IsPublished
  <2>3. QED
    BY <2>2 DEF NotAhead, IsPublished
<1>8. ASSUME NEW h \in Handlers, NEW t \in Types, Unsubscribe(h, t) PROVE NotAhead'
  <2>1. UNCHANGED <<handled, pending, position, next_handler, phase>>
    BY <1>8 DEF Unsubscribe, unit, queue, history
  <2>2. PICK d \in DOMAIN handlers[t] :
          handlers' = [handlers EXCEPT ![t] = RemoveAt(handlers[t], d)]
    BY <1>8 DEF Unsubscribe
  <2>3. ASSUME NEW s \in Types, NEW j \in DOMAIN handlers'[s]
        PROVE  \E m \in DOMAIN handlers[s] :
                 m \in Nat /\ j \in Nat /\ j <= m /\ handlers[s][m] = handlers'[s][j]
    <3>1. handlers[s] \in Seq(Handlers) /\ handlers[t] \in Seq(Handlers)
      BY DEF TypeOK
    <3>2. CASE s # t
      <4>1. handlers'[s] = handlers[s]
        BY <2>2, <3>2 DEF TypeOK
      <4>2. j \in DOMAIN handlers[s] /\ j \in Nat /\ j <= j
        BY <2>3, <3>1, <4>1, LenProperties
      <4>3. QED
        BY <4>1, <4>2
    <3>3. CASE s = t
      <4>1. handlers'[t] = RemoveAt(handlers[t], d)
        BY <2>2 DEF TypeOK
      <4>2. /\ RemoveAt(handlers[t], d) \in Seq(Handlers)
            /\ Len(RemoveAt(handlers[t], d)) = Len(handlers[t]) - 1
            /\ \A n \in 1 .. Len(handlers[t]) - 1 :
                 RemoveAt(handlers[t], d)[n] = IF n < d THEN handlers[t][n] ELSE handlers[t][n + 1]
        BY <3>1, RemoveAtProperties
      <4>3. /\ Len(handlers[t]) \in Nat /\ DOMAIN handlers[t] = 1 .. Len(handlers[t])
            /\ DOMAIN handlers'[t] = 1 .. Len(handlers[t]) - 1
        BY <3>1, <4>1, <4>2, LenProperties
      <4>4. /\ j \in DOMAIN handlers[t] /\ j + 1 \in DOMAIN handlers[t] /\ j \in Nat
            /\ j + 1 \in Nat /\ j <= j /\ j <= j + 1
            /\ handlers'[t][j] = IF j < d THEN handlers[t][j] ELSE handlers[t][j + 1]
        BY <2>3, <3>3, <4>1, <4>2, <4>3
      <4>5. QED
        BY <3>3, <4>4
    <3>4. QED
      BY <3>2, <3>3
  <2> SUFFICES ASSUME NEW v \in Uows, NEW i \in DOMAIN handled, NEW k \in DOMAIN pending[v],
                      IsPublished(v), handled[i].event = pending[v][k], k = position[v],
                      NEW j \in DOMAIN handlers'[TypeOf[pending[v][k]]],
                      handlers'[TypeOf[pending[v][k]]][j] = handled[i].by
               PROVE  j < next_handler[v]
    BY <2>1 DEF NotAhead, IsPublished
  <2>4. TypeOf[pending[v][k]] \in Types
    BY TransactionsAssumption DEF TypeOK
  <2>5. PICK m \in DOMAIN handlers[TypeOf[pending[v][k]]] :
          /\ m \in Nat /\ j \in Nat /\ j <= m
          /\ handlers[TypeOf[pending[v][k]]][m] = handled[i].by
    <3> DEFINE r == TypeOf[pending[v][k]]
    <3>1. r \in Types /\ j \in DOMAIN handlers'[r] /\ handlers'[r][j] = handled[i].by
      BY <2>4
    <3> HIDE DEF r
    <3>2. \E m \in DOMAIN handlers[r] :
            m \in Nat /\ j \in Nat /\ j <= m /\ handlers[r][m] = handled[i].by
      BY <2>3, <3>1
    <3>3. QED
      BY <3>2 DEF r
  <2>6. m < next_handler[v] /\ next_handler[v] \in Nat
    BY <2>5 DEF NotAhead, TypeOK
  <2>7. QED
    BY <2>5, <2>6
<1>9. CASE UNCHANGED vars
  BY <1>9 DEF vars, unit, queue, bus, history, NotAhead, IsPublished
<1>10. QED
  BY <1>2, <1>3, <1>4, <1>5, <1>6, <1>7, <1>8, <1>9 DEF Next, Commit, CommitFails, Leave

\* What was handled of a unit is no newer than what the unit has left.
LEMMA NoneNewerStep ==
  TypeOK /\ PendingOK /\ OnlyCommittedHandled /\ NoneNewer /\ [Next]_vars => NoneNewer'
<1> SUFFICES ASSUME TypeOK, PendingOK, OnlyCommittedHandled, NoneNewer, [Next]_vars
             PROVE  NoneNewer'
  OBVIOUS
<1>1. \A i \in DOMAIN handled :
        /\ handled[i].event \in Events /\ handled[i].event <= added
        /\ unit_of'[handled[i].event] = unit_of[handled[i].event]
  BY HandledType, CommittedForGood DEF OnlyCommittedHandled
<1>2. ASSUME NEW u \in Uows, UNCHANGED handled,
             \A v \in Uows \ {u} :
               pending'[v] = pending[v] /\ position'[v] = position[v] /\ phase'[v] = phase[v],
             \/ pending'[u] = <<>>
             \/ pending'[u] = pending[u] /\ ~ IsPublished(u)
             \/ /\ pending'[u] = pending[u]
                /\ IsPublished(u)' /\ position[u] <= position'[u]
                /\ position[u] \in Nat /\ position'[u] \in Nat
      PROVE  NoneNewer'
  <2> SUFFICES ASSUME NEW v \in Uows, NEW i \in DOMAIN handled, NEW k \in DOMAIN pending'[v],
                      unit_of[handled[i].event] = v,
                      IsPublished(v)' => position'[v] <= k
               PROVE  handled[i].event <= pending'[v][k]
    BY <1>1, <1>2 DEF NoneNewer
  <2>1. /\ pending'[v] = pending[v] /\ k \in DOMAIN pending[v]
        /\ IsPublished(v) => position[v] <= k
    <3>1. CASE v # u
      BY <1>2, <3>1 DEF IsPublished
    <3>2. CASE v = u
      <4>1. pending'[u] = pending[u] /\ k \in Nat
        BY <1>2, <3>2 DEF TypeOK
      <4>2. QED
        BY <1>2, <3>2, <4>1
    <3>3. QED
      BY <3>1, <3>2
  <2>2. QED
    BY <2>1 DEF NoneNewer
<1>3. ASSUME NEW u \in Uows, AddDomainEvent(u) PROVE NoneNewer'
  <2>1. /\ UNCHANGED <<handled, position, phase>> /\ ~ IsPublished(u)
        /\ pending' = [pending EXCEPT ![u] = Append(pending[u], added + 1)]
        /\ added + 1 \in Events
    BY <1>3, TransactionsAssumption
       DEF AddDomainEvent, InBody, unit, IsPublished, TypeOK, Events
  <2>2. /\ pending[u] \in Seq(Events) /\ Len(pending[u]) \in Nat
        /\ DOMAIN pending[u] = 1 .. Len(pending[u])
        /\ DOMAIN pending'[u] = 1 .. Len(pending[u]) + 1
        /\ pending'[u][Len(pending[u]) + 1] = added + 1
        /\ \A k \in 1 .. Len(pending[u]) : pending'[u][k] = pending[u][k]
    BY <2>1, AppendProperties DEF TypeOK
  <2> SUFFICES ASSUME NEW v \in Uows, NEW i \in DOMAIN handled, NEW k \in DOMAIN pending'[v],
                      unit_of[handled[i].event] = v, IsPublished(v) => position[v] <= k
               PROVE  handled[i].event <= pending'[v][k]
    BY <1>1, <2>1 DEF NoneNewer, IsPublished
  <2>3. CASE v # u
    BY <2>1, <2>3 DEF NoneNewer, TypeOK
  <2>4. CASE v = u /\ k \in DOMAIN pending[u]
    BY <2>1, <2>2, <2>4 DEF NoneNewer
  <2>5. CASE v = u /\ k = Len(pending[u]) + 1
    BY <1>1, <2>2, <2>5 DEF TypeOK, Events
  <2>6. QED
    BY <2>2, <2>3, <2>4, <2>5
<1>4. ASSUME NEW u \in Uows, CallHandler(u) PROVE NoneNewer'
  <2>1. /\ UNCHANGED <<pending, position, unit_of>>
        /\ \A v \in Uows : IsPublished(v)' <=> IsPublished(v)
    BY <1>4 DEF CallHandler, Publishing, IsPublished, TypeOK
  <2> SUFFICES ASSUME NEW v \in Uows, NEW i \in DOMAIN handled', NEW k \in DOMAIN pending[v],
                      unit_of[handled'[i].event] = v, IsPublished(v) => position[v] <= k
               PROVE  handled'[i].event <= pending[v][k]
    BY <2>1 DEF NoneNewer
  <2>2. CASE i \in DOMAIN handled
    BY <1>4, <2>2, CallProperties DEF NoneNewer
  <2>3. CASE i = Len(handled) + 1
    <3>1. /\ handled'[i].event = pending[u][position[u]] /\ v = u /\ IsPublished(u)
          /\ position[u] \in DOMAIN pending[u]
      BY <1>4, <2>3, CallProperties
    <3>2. k \in Nat /\ position[u] \in Nat /\ pending[u][position[u]] \in Nat
      <4>1. pending[u] \in Seq(Events) /\ pending[v] \in Seq(Events)
        BY DEF TypeOK
      <4>2. pending[u][position[u]] \in Events
        BY <3>1, <4>1
      <4>3. k \in Nat /\ position[u] \in Nat
        BY <4>1 DEF TypeOK
      <4>4. QED
        BY <4>2, <4>3 DEF Events
    <3>3. position[u] = k \/ position[u] < k
      BY <3>1, <3>2
    <3>4. CASE position[u] = k
      BY <3>1, <3>2, <3>4
    <3>5. CASE position[u] < k
      <4>1. pending[u][position[u]] < pending[u][k]
        BY <3>1, <3>5 DEF PendingOK
      <4>2. pending[u][k] \in Events
        BY <3>1 DEF TypeOK
      <4>3. QED
        BY <3>1, <3>2, <4>1, <4>2 DEF Events
    <3>6. QED
      BY <3>3, <3>4, <3>5
  <2>4. QED
    BY <1>4, <2>2, <2>3, CallProperties
<1>5. ASSUME NEW u \in Uows,
             \/ ClearDomainEvents(u) \/ Rollback(u) \/ Abandon(u) \/ PublicationEnds(u)
      PROVE  NoneNewer'
  <2>1. CASE ClearDomainEvents(u)
    BY <1>2, <2>1 DEF ClearDomainEvents, Discard, unit, TypeOK
  <2>2. CASE Rollback(u)
    BY <1>2, <2>2 DEF Rollback, Discard, InBody, IsPublished, TypeOK
  <2>3. CASE Abandon(u)
    BY <1>2, <2>3 DEF Abandon, Discard, Closed, TypeOK
  <2>4. CASE PublicationEnds(u)
    BY <1>2, <2>4 DEF PublicationEnds, Closed, history, TypeOK
  <2>5. QED
    BY <1>5, <2>1, <2>2, <2>3, <2>4
<1>6. ASSUME NEW u \in Uows,
             Enter(u) \/ Committed(u) \/ Publish(u) \/ HandlerEnds(u) \/ NextEvent(u)
      PROVE  NoneNewer'
  <2>1. CASE Enter(u)
    BY <1>2, <2>1 DEF Enter, queue, history, IsPublished, TypeOK
  <2>2. CASE Committed(u)
    BY <1>2, <2>2 DEF Committed, InBody, IsPublished, TypeOK
  <2>3. CASE Publish(u)
    BY <1>2, <2>3 DEF Publish, Publishing, unit, history, IsPublished, TypeOK
  <2>4. CASE HandlerEnds(u)
    BY <1>2, <2>4 DEF HandlerEnds, queue, history, IsPublished, TypeOK
  <2>5. CASE NextEvent(u)
    <3>1. /\ UNCHANGED <<handled, pending, phase>> /\ IsPublished(u)'
          /\ position' = [position EXCEPT ![u] = position[u] + 1]
      BY <2>5 DEF NextEvent, Publishing, unit, history, IsPublished
    <3>2. position[u] \in Nat /\ position'[u] \in Nat /\ position[u] <= position'[u]
      BY <3>1 DEF TypeOK
    <3>3. \A v \in Uows \ {u} : position'[v] = position[v]
      BY <3>1 DEF TypeOK
    <3>4. QED
      BY <1>2, <3>1, <3>2, <3>3
  <2>6. QED
    BY <1>6, <2>1, <2>2, <2>3, <2>4, <2>5
<1>7. ASSUME UNCHANGED <<handled, pending, position, phase, unit_of>> PROVE NoneNewer'
  BY <1>7 DEF NoneNewer, IsPublished
<1>8. ASSUME NEW h \in Handlers, NEW t \in Types, Subscribe(h, t) \/ Unsubscribe(h, t)
      PROVE  NoneNewer'
  BY <1>7, <1>8 DEF Subscribe, Unsubscribe, unit, queue, history
<1>9. CASE UNCHANGED vars
  BY <1>7, <1>9 DEF vars, unit, queue, history
<1>10. QED
  BY <1>3, <1>4, <1>5, <1>6, <1>8, <1>9 DEF Next, Commit, CommitFails, Leave

(***************************************************************************)
(* The theorems.                                                           *)
(***************************************************************************)

\* No unit is entered and nothing is added or handled at the start.
LEMMA InitInv == Init => TransactionsInv
<1> SUFFICES ASSUME Init PROVE TransactionsInv
  OBVIOUS
<1>1. TypeOK
  BY TransactionsAssumption DEF Init, TypeOK
<1>2. StackOK /\ PendingOK /\ NothingLost
  BY DEF Init, StackOK, PendingOK, NothingLost, IsInjective, Range
<1>3. SubscribedOnce
  BY TransactionsAssumption DEF Init, SubscribedOnce
<1>4. NotAhead /\ NoneNewer /\ OnlyCommittedHandled /\ HandledOnce /\ UnitOrderKept
  BY DEF Init, NotAhead, NoneNewer, OnlyCommittedHandled, HandledOnce, UnitOrderKept,
     IsInjective
<1>5. QED
  BY <1>1, <1>2, <1>3, <1>4 DEF TransactionsInv

\* The parts of the invariant hold together.
THEOREM UnitsStayConsistent == Spec => []TransactionsInv
<1>1. TransactionsInv /\ [Next]_vars => TransactionsInv'
  BY TypeStep, StackStep, PendingStep, NothingLostStep, SubscribedOnceStep, NotAheadStep,
     NoneNewerStep, CommittedStep, OnceStep, OrderStep DEF TransactionsInv
<1>2. QED
  BY InitInv, <1>1, PTL DEF Spec

\* The variables have their types, and the history of events its bound.
THEOREM TypeCorrect == Spec => []TypeOK
<1>1. TransactionsInv => TypeOK
  BY DEF TransactionsInv
<1>2. QED
  BY <1>1, UnitsStayConsistent, PTL

\* Handlers see events of committed transactions only, whichever commits,
\* rollbacks and nested units come before ("publish them after successful commit").
THEOREM CommittedBeforeHandled == Spec => []OnlyCommittedHandled
<1>1. TransactionsInv => OnlyCommittedHandled
  BY DEF TransactionsInv
<1>2. QED
  BY <1>1, UnitsStayConsistent, PTL

\* No handler sees an event twice, even if handlers unsubscribe meanwhile.
THEOREM AtMostOnce == Spec => []HandledOnce
<1>1. TransactionsInv => HandledOnce
  BY DEF TransactionsInv
<1>2. QED
  BY <1>1, UnitsStayConsistent, PTL

\* Each handler sees the events of a unit in the order in which they were added.
THEOREM InOrder == Spec => []UnitOrderKept
<1>1. TransactionsInv => UnitOrderKept
  BY DEF TransactionsInv
<1>2. QED
  BY <1>1, UnitsStayConsistent, PTL

\* No event is left behind when every with block has been left.
THEOREM NothingForgotten == Spec => []NoEventForgotten
<1>1. TransactionsInv => NoEventForgotten
  <2> SUFFICES ASSUME TransactionsInv, running = Nobody PROVE
               (\A u \in Uows : pending[u] = <<>>) /\ \A e \in Events : fate[e] # "staged"
    BY DEF NoEventForgotten
  <2>1. stack = <<>>
    BY FrontProperties, TransactionsAssumption DEF running, TransactionsInv, TypeOK
  <2>2. \A u \in Uows : pending[u] = <<>>
    BY <2>1 DEF TransactionsInv, NothingLost, Range
  <2>3. QED
    BY <2>2 DEF TransactionsInv, NothingLost, Range
<1>2. QED
  BY <1>1, UnitsStayConsistent, PTL

-----------------------------------------------------------------------------
(* Who is notified. *)

\* The subscribers that stayed; those that no handler before them may push down
\* the list while it is walked; and of these the ones that stayed.
Staying == [t \in Types |-> Range(Subscribers[t]) \ unsubscribed]
Unskippable(t) ==
  {Subscribers[t][j] : j \in {k \in DOMAIN Subscribers[t] :
     \A i \in DOMAIN Subscribers[t] : i < k => Subscribers[t][i] \notin OneShot}}
Permanent == [t \in Types |-> Unskippable(t) \ unsubscribed]

\* They are still in the list, the last ones with no one-shot handler before them.
StillListed ==
  \A t \in Types :
    /\ Staying[t] \subseteq Range(handlers[t])
    /\ \A i, j \in DOMAIN handlers[t] :
         i < j /\ handlers[t][j] \in Permanent[t] => handlers[t][i] \notin OneShot

\* The calls and omissions so far, and the events that are accounted for with all
\* handlers that stayed.
Accounted == Range(handled) \cup skipped
Informed ==
  {e \in Events : \A h \in Staying[TypeOf[e]] : [by |-> h, event |-> e] \in Accounted}

\* A publication is done with the events before the current one, and with the
\* current one as far as it has walked the list.
ShownBy(u) ==
  \A k \in DOMAIN pending[u] :
    /\ k < position[u] => pending[u][k] \in Informed
    /\ k = position[u] =>
         \A t \in Types : \A j \in DOMAIN handlers[t] :
           t = TypeOf[pending[u][k]] /\ j < next_handler[u]
             => [by |-> handlers[t][j], event |-> pending[u][k]] \in Accounted
PublishedSoFar == \A u \in Uows : IsPublished(u) => ShownBy(u)

\* Those who were passed over had a one-shot handler before them, or have left.
SkippedBehindOneShot ==
  \A e \in Events : \A h \in Permanent[TypeOf[e]] : [by |-> h, event |-> e] \notin skipped

\* A committed event was shown to all of them, or a unit is publishing it.
CommittedSeen ==
  \A e \in Events : fate[e] = "committed" =>
    e \in Informed \/ \E u \in Uows : IsPublished(u) /\ e \in Range(pending[u])

LEMMA PermanentStays == \A t \in Types : Permanent[t] \subseteq Staying[t]
BY DEF Permanent, Staying, Unskippable, Range

\* What an unsubscription leaves: the list with one place less.
LEMMA UnsubscribedList ==
  ASSUME TypeOK, NEW h \in Handlers, NEW t \in Types, Unsubscribe(h, t)
  PROVE  /\ unsubscribed' = unsubscribed \cup {h}
         /\ \A s \in Types \ {t} : handlers'[s] = handlers[s]
         /\ Len(handlers[t]) \in Nat /\ DOMAIN handlers[t] = 1 .. Len(handlers[t])
         /\ DOMAIN handlers'[t] = 1 .. Len(handlers[t]) - 1
         /\ \E d \in DOMAIN handlers[t] :
              /\ handlers[t][d] = h
              /\ skipped' = skipped \cup PassedOver(t, d)
              /\ \A j \in 1 .. Len(handlers[t]) - 1 :
                   handlers'[t][j] = handlers[t][IF j < d THEN j ELSE j + 1]
<1>1. handlers[t] \in Seq(Handlers) /\ handlers \in [Types -> Seq(Handlers)]
  BY DEF TypeOK
<1>2. PICK d \in DOMAIN handlers[t] :
        /\ handlers[t][d] = h /\ handlers' = [handlers EXCEPT ![t] = RemoveAt(handlers[t], d)]
        /\ skipped' = skipped \cup PassedOver(t, d)
  BY DEF Unsubscribe
<1>3. handlers'[t] = RemoveAt(handlers[t], d) /\ \A s \in Types \ {t} : handlers'[s] = handlers[s]
  BY <1>1, <1>2
<1>4. /\ RemoveAt(handlers[t], d) \in Seq(Handlers)
      /\ Len(RemoveAt(handlers[t], d)) = Len(handlers[t]) - 1
      /\ \A j \in 1 .. Len(handlers[t]) - 1 :
           RemoveAt(handlers[t], d)[j] = IF j < d THEN handlers[t][j] ELSE handlers[t][j + 1]
  BY <1>1, RemoveAtProperties
<1>5. /\ Len(handlers[t]) \in Nat /\ DOMAIN handlers[t] = 1 .. Len(handlers[t])
      /\ DOMAIN handlers'[t] = 1 .. Len(handlers[t]) - 1
  BY <1>1, <1>3, <1>4, LenProperties
<1>6. \A j \in 1 .. Len(handlers[t]) - 1 :
        handlers'[t][j] = handlers[t][IF j < d THEN j ELSE j + 1]
  BY <1>3, <1>4
<1>7. QED
  BY <1>2, <1>3, <1>5, <1>6 DEF Unsubscribe

\* Subscriptions change in two actions only.
LEMMA ListsUnchanged ==
  ASSUME [Next]_vars,
         \A h \in Handlers, t \in Types : ~ Subscribe(h, t) /\ ~ Unsubscribe(h, t)
  PROVE  UNCHANGED <<handlers, unsubscribed, skipped>>
BY DEF Next, Commit, CommitFails, Leave, Committed, Enter, AddDomainEvent, ClearDomainEvents,
   Rollback, Abandon, Publish, CallHandler, HandlerEnds, NextEvent, PublicationEnds, vars, bus

\* New and returning handlers go to the end of the list, and one that leaves
\* changes nobody's order.
LEMMA ListedStep == TypeOK /\ SubscribedOnce /\ StillListed /\ [Next]_vars => StillListed'
<1> SUFFICES ASSUME TypeOK, SubscribedOnce, StillListed, [Next]_vars PROVE StillListed'
  OBVIOUS
<1>1. ASSUME NEW h \in Handlers, NEW t \in Types, Subscribe(h, t) PROVE StillListed'
  <2>1. handlers[t] \in Seq(Handlers) /\ UNCHANGED unsubscribed /\ h \notin Range(handlers[t])
    BY <1>1 DEF TypeOK, Subscribe
  <2>2. handlers'[t] = Append(handlers[t], h) /\ \A s \in Types \ {t} : handlers'[s] = handlers[s]
    BY <1>1 DEF TypeOK, Subscribe
  <2>3. /\ Len(handlers[t]) \in Nat /\ DOMAIN handlers[t] = 1 .. Len(handlers[t])
        /\ DOMAIN handlers'[t] = 1 .. Len(handlers[t]) + 1
        /\ \A j \in 1 .. Len(handlers[t]) : handlers'[t][j] = handlers[t][j]
        /\ handlers'[t][Len(handlers[t]) + 1] = h
    BY <2>1, <2>2, AppendProperties, LenProperties
  <2>4. Range(handlers[t]) \subseteq Range(handlers'[t])
    BY <2>3 DEF Range
  <2>5. h \notin Permanent[t] /\ Permanent' = Permanent /\ Staying' = Staying
    BY <2>1, PermanentStays DEF StillListed, Permanent, Staying
  <2>6. ASSUME NEW i \in DOMAIN handlers'[t], NEW j \in DOMAIN handlers'[t], i < j,
               handlers'[t][j] \in Permanent[t]
        PROVE  handlers'[t][i] \notin OneShot
    <3>1. j \in 1 .. Len(handlers[t]) /\ i \in 1 .. Len(handlers[t])
      BY <2>3, <2>5, <2>6
    <3>2. QED
      BY <2>3, <2>6, <3>1 DEF StillListed
  <2>7. QED
    BY <2>2, <2>4, <2>5, <2>6 DEF StillListed
<1>2. ASSUME NEW h \in Handlers, NEW t \in Types, Unsubscribe(h, t) PROVE StillListed'
  <2>1. /\ unsubscribed' = unsubscribed \cup {h}
        /\ \A s \in Types \ {t} : handlers'[s] = handlers[s]
        /\ Len(handlers[t]) \in Nat /\ DOMAIN handlers[t] = 1 .. Len(handlers[t])
        /\ DOMAIN handlers'[t] = 1 .. Len(handlers[t]) - 1
    BY <1>2, UnsubscribedList
  <2>2. PICK d \in DOMAIN handlers[t] :
          /\ handlers[t][d] = h
          /\ \A j \in 1 .. Len(handlers[t]) - 1 :
               handlers'[t][j] = handlers[t][IF j < d THEN j ELSE j + 1]
    BY <1>2, UnsubscribedList
  <2>3. \A s \in Types : Permanent'[s] = Permanent[s] \ {h} /\ Staying'[s] = Staying[s] \ {h}
    BY <2>1 DEF Permanent, Staying
  <2>4. ASSUME NEW g \in Staying[t], g # h PROVE g \in Range(handlers'[t])
    <3>1. PICK j \in DOMAIN handlers[t] : handlers[t][j] = g
      BY <2>4 DEF StillListed, Range
    <3>2. j # d
      BY <2>2, <2>4, <3>1
    <3>3. CASE j < d
      <4>1. j \in 1 .. Len(handlers[t]) - 1
        BY <2>1, <2>2, <3>3
      <4>2. QED
        BY <2>1, <2>2, <3>1, <3>3, <4>1 DEF Range
    <3>4. CASE j > d
      <4>1. j - 1 \in 1 .. Len(handlers[t]) - 1 /\ ~(j - 1 < d) /\ (j - 1) + 1 = j
        BY <2>1, <2>2, <3>4
      <4>2. handlers'[t][j - 1] = g
        BY <2>2, <3>1, <4>1
      <4>3. QED
        BY <2>1, <4>1, <4>2 DEF Range
    <3>5. QED
      BY <2>1, <2>2, <3>2, <3>3, <3>4
  <2>5. ASSUME NEW i \in DOMAIN handlers'[t], NEW j \in DOMAIN handlers'[t], i < j,
               handlers'[t][j] \in Permanent[t]
        PROVE  handlers'[t][i] \notin OneShot
    <3> DEFINE place(k) == IF k < d THEN k ELSE k + 1
    <3>1. /\ place(i) \in DOMAIN handlers[t] /\ place(j) \in DOMAIN handlers[t]
          /\ place(i) < place(j)
      BY <2>1, <2>2, <2>5
    <3>2. handlers'[t][i] = handlers[t][place(i)] /\ handlers'[t][j] = handlers[t][place(j)]
      BY <2>1, <2>2, <2>5
    <3> HIDE DEF place
    <3>3. QED
      BY <2>5, <3>1, <3>2 DEF StillListed
  <2>6. QED
    BY <2>1, <2>3, <2>4, <2>5 DEF StillListed
<1>3. CASE UNCHANGED <<handlers, unsubscribed>>
  BY <1>3 DEF StillListed, Permanent, Staying
<1>4. QED
  BY <1>1, <1>2, <1>3, ListsUnchanged

\* What is accounted for stays so, and nobody comes back to stay.
LEMMA SawForGood ==
  ASSUME TypeOK, PendingOK, [Next]_vars
  PROVE  /\ Accounted \subseteq Accounted'
         /\ \A t \in Types : Permanent'[t] \subseteq Permanent[t]
         /\ Informed \subseteq Informed'
<1>1. Range(handled) \subseteq Range(handled')
  <2>1. CASE UNCHANGED handled
    BY <2>1
  <2>2. ASSUME NEW u \in Uows, CallHandler(u) PROVE Range(handled) \subseteq Range(handled')
    <3>1. \A i \in DOMAIN handled : i \in DOMAIN handled' /\ handled'[i] = handled[i]
      BY <2>2, CallProperties
    <3>2. QED
      BY <3>1 DEF Range
  <2>3. QED
    BY <2>1, <2>2, OnlyCallsAreHandled
<1>2. unsubscribed \subseteq unsubscribed' /\ skipped \subseteq skipped'
  <2>1. ASSUME NEW h \in Handlers, NEW t \in Types, Subscribe(h, t) \/ Unsubscribe(h, t)
        PROVE  unsubscribed \subseteq unsubscribed' /\ skipped \subseteq skipped'
    BY <2>1 DEF Subscribe, Unsubscribe
  <2>2. QED
    BY <2>1, ListsUnchanged
<1>3. Accounted \subseteq Accounted'
  BY <1>1, <1>2 DEF Accounted
<1>4. \A t \in Types : Permanent'[t] \subseteq Permanent[t] /\ Staying'[t] \subseteq Staying[t]
  BY <1>2 DEF Permanent, Staying
<1>5. \A e \in Events : TypeOf[e] \in Types
  BY TransactionsAssumption
<1>6. QED
  BY <1>3, <1>4, <1>5 DEF Informed

\* What a unit has shown stays shown while its publication stands still.
LEMMA StillShown ==
  ASSUME TypeOK, PendingOK, PublishedSoFar, [Next]_vars, UNCHANGED handlers,
         NEW v \in Uows, IsPublished(v), pending'[v] = pending[v],
         position'[v] = position[v], next_handler'[v] = next_handler[v]
  PROVE  ShownBy(v)'
<1>1. ShownBy(v)
  BY DEF PublishedSoFar
<1>2. ASSUME NEW k \in DOMAIN pending[v], k < position[v]
      PROVE  pending[v][k] \in Informed'
  BY <1>1, <1>2, SawForGood DEF ShownBy
<1>3. ASSUME NEW k \in DOMAIN pending[v], k = position[v],
             NEW t \in Types, NEW j \in DOMAIN handlers[t], t = TypeOf[pending[v][k]],
             j < next_handler[v]
      PROVE  [by |-> handlers[t][j], event |-> pending[v][k]] \in Accounted'
  <2>1. [by |-> handlers[t][j], event |-> pending[v][k]] \in Accounted
    BY <1>1, <1>3 DEF ShownBy
  <2>2. QED
    BY <2>1, SawForGood
<1>4. QED
  BY <1>2, <1>3 DEF ShownBy

\* A step that moves at most the publication of u keeps what the others show.
LEMMA PublishedFrame ==
  ASSUME TypeOK, PendingOK, PublishedSoFar, [Next]_vars, NEW u \in Uows,
         UNCHANGED handlers,
         \A v \in Uows \ {u} :
           /\ pending'[v] = pending[v] /\ position'[v] = position[v]
           /\ next_handler'[v] = next_handler[v] /\ phase'[v] = phase[v],
         \/ ~ IsPublished(u)'
         \/ ShownBy(u)'
         \/ /\ IsPublished(u) /\ pending'[u] = pending[u]
            /\ position'[u] = position[u] /\ next_handler'[u] = next_handler[u]
  PROVE  PublishedSoFar'
<1> SUFFICES ASSUME NEW v \in Uows, IsPublished(v)'
             PROVE  ShownBy(v)'
  BY DEF PublishedSoFar
<1>1. CASE v # u
  BY <1>1, StillShown DEF IsPublished
<1>2. CASE v = u
  BY <1>2, StillShown
<1>3. QED
  BY <1>1, <1>2

\* Every step keeps what a publication has shown so far.
LEMMA PublishedStep ==
  TypeOK /\ StackOK /\ PendingOK /\ StillListed /\ PublishedSoFar
    /\ [Next]_vars => PublishedSoFar'
<1> SUFFICES ASSUME TypeOK, StackOK, PendingOK, StillListed, PublishedSoFar, [Next]_vars
             PROVE  PublishedSoFar'
  OBVIOUS
<1>0. /\ \A v \in Uows : \A k \in DOMAIN pending[v] :
           pending[v][k] \in Events /\ TypeOf[pending[v][k]] \in Types /\ k \in Nat \ {0}
      /\ \A t \in Types : /\ handlers[t] \in Seq(Handlers) /\ Len(handlers[t]) \in Nat
                          /\ DOMAIN handlers[t] = 1 .. Len(handlers[t])
      /\ \A v \in Uows : position[v] \in Nat /\ next_handler[v] \in Nat
  <2>1. \A v \in Uows : \A k \in DOMAIN pending[v] :
          pending[v][k] \in Events /\ TypeOf[pending[v][k]] \in Types /\ k \in Nat \ {0}
    <3>1. \A v \in Uows : pending[v] \in Seq(Events)
      BY DEF TypeOK
    <3>2. \A v \in Uows : \A k \in DOMAIN pending[v] : pending[v][k] \in Events /\ k \in Nat \ {0}
      BY <3>1
    <3>. QED
      BY <3>2, TransactionsAssumption
  <2>2. \A t \in Types : /\ handlers[t] \in Seq(Handlers) /\ Len(handlers[t]) \in Nat
                         /\ DOMAIN handlers[t] = 1 .. Len(handlers[t])
    BY DEF TypeOK
  <2>3. QED
    BY <2>1, <2>2 DEF TypeOK
<1>1. ASSUME NEW u \in Uows,
             \/ Enter(u) \/ AddDomainEvent(u) \/ ClearDomainEvents(u) \/ Rollback(u)
             \/ Abandon(u) \/ HandlerEnds(u) \/ PublicationEnds(u)
      PROVE  PublishedSoFar'
  <2>1. CASE Enter(u)
    BY <2>1, PublishedFrame DEF Enter, queue, bus, history, IsPublished, TypeOK
  <2>2. CASE AddDomainEvent(u)
    BY <2>2, PublishedFrame DEF AddDomainEvent, InBody, unit, bus, IsPublished, TypeOK
  <2>3. CASE ClearDomainEvents(u)
    BY <2>3, PublishedFrame
       DEF ClearDomainEvents, Discard, InBody, unit, bus, IsPublished, TypeOK
  <2>4. CASE Rollback(u)
    BY <2>4, PublishedFrame DEF Rollback, Discard, InBody, bus, IsPublished, TypeOK
  <2>5. CASE Abandon(u)
    BY <2>5, PublishedFrame DEF Abandon, Discard, Closed, bus, IsPublished, TypeOK
  <2>6. CASE HandlerEnds(u)
    BY <2>6, PublishedFrame DEF HandlerEnds, queue, bus, history, IsPublished, TypeOK
  <2>7. CASE PublicationEnds(u)
    BY <2>7, PublishedFrame DEF PublicationEnds, Closed, bus, history, IsPublished, TypeOK
  <2>8. QED
    BY <1>1, <2>1, <2>2, <2>3, <2>4, <2>5, <2>6, <2>7
<1>2. ASSUME NEW u \in Uows, Committed(u) PROVE PublishedSoFar'
  <2>1. /\ UNCHANGED <<handlers, pending>> /\ position'[u] = 1 /\ next_handler'[u] = 0
        /\ \A v \in Uows \ {u} :
             /\ position'[v] = position[v] /\ next_handler'[v] = next_handler[v]
             /\ phase'[v] = phase[v]
    BY <1>2 DEF Committed, InBody, bus, TypeOK
  <2>2. \A k \in DOMAIN pending[u] : ~(k < 1)
    BY <1>0
  <2>3. \A t \in Types : \A j \in DOMAIN handlers[t] : ~(j < 0)
    BY <1>0
  <2>4. ShownBy(u)'
    BY <2>1, <2>2, <2>3 DEF ShownBy
  <2>5. QED
    BY <2>1, <2>4, PublishedFrame
<1>3. ASSUME NEW u \in Uows, Publish(u) PROVE PublishedSoFar'
  <2>1. /\ UNCHANGED <<handlers, pending, position, phase>> /\ IsPublished(u)
        /\ next_handler'[u] = 1
        /\ \A v \in Uows \ {u} : next_handler'[v] = next_handler[v]
    BY <1>3 DEF Publish, Publishing, unit, history, IsPublished, TypeOK
  <2>2. \A k \in DOMAIN pending[u] : k < position[u] => pending[u][k] \in Informed'
    BY <2>1, SawForGood DEF PublishedSoFar, ShownBy
  <2>3. \A t \in Types : \A j \in DOMAIN handlers[t] : ~(j < 1)
    BY <1>0
  <2>4. ShownBy(u)'
    BY <2>1, <2>2, <2>3 DEF ShownBy
  <2>5. QED
    BY <2>1, <2>4, PublishedFrame
<1>4. ASSUME NEW u \in Uows, NextEvent(u) PROVE PublishedSoFar'
  <2>1. /\ UNCHANGED <<handlers, pending, phase>> /\ IsPublished(u)
        /\ position'[u] = position[u] + 1 /\ next_handler'[u] = 0
        /\ \A v \in Uows \ {u} :
             next_handler'[v] = next_handler[v] /\ position'[v] = position[v]
    BY <1>4 DEF NextEvent, Publishing, unit, bus, history, IsPublished, TypeOK
  <2>2. ASSUME NEW k \in DOMAIN pending[u], k = position[u]
        PROVE  pending[u][k] \in Informed
    <3> DEFINE e == pending[u][k]
    <3>1. e \in Events /\ TypeOf[e] \in Types
      BY <1>0
    <3>2. ASSUME NEW h \in Staying[TypeOf[e]] PROVE [by |-> h, event |-> e] \in Accounted
      <4>1. PICK j \in DOMAIN handlers[TypeOf[e]] : handlers[TypeOf[e]][j] = h
        BY <3>1, <3>2 DEF StillListed, Range
      <4>2. next_handler[u] > Len(handlers[TypeOf[e]])
        BY <1>4, <2>2 DEF NextEvent, Current
      <4>3. j < next_handler[u]
        BY <1>0, <3>1, <4>1, <4>2
      <4>4. QED
        BY <2>1, <2>2, <3>1, <3>2, <4>1, <4>3 DEF PublishedSoFar, ShownBy
    <3>3. QED
      BY <3>1, <3>2 DEF Informed
  <2>3. ASSUME NEW k \in DOMAIN pending[u], k < position[u] + 1
        PROVE  pending[u][k] \in Informed'
    <3>1. k < position[u] \/ k = position[u]
      BY <1>0, <2>3
    <3>2. pending[u][k] \in Informed
      BY <2>1, <2>2, <3>1 DEF PublishedSoFar, ShownBy
    <3>3. QED
      BY <3>2, SawForGood
  <2>4. \A t \in Types : \A j \in DOMAIN handlers[t] : ~(j < 0)
    BY <1>0
  <2>5. ShownBy(u)'
    BY <2>1, <2>3, <2>4 DEF ShownBy
  <2>6. QED
    BY <2>1, <2>5, PublishedFrame
<1>5. ASSUME NEW u \in Uows, CallHandler(u) PROVE PublishedSoFar'
  <2>1. /\ UNCHANGED <<pending, position, handlers>> /\ IsPublished(u)
        /\ next_handler'[u] = next_handler[u] + 1
        /\ \A v \in Uows \ {u} : next_handler'[v] = next_handler[v] /\ phase'[v] = phase[v]
    BY <1>5 DEF CallHandler, Publishing, bus, IsPublished, TypeOK
  <2>2. [by |-> handlers[TypeOf[Current(u)]][next_handler[u]], event |-> Current(u)] \in Accounted'
    <3> DEFINE call == [by |-> handlers[TypeOf[Current(u)]][next_handler[u]],
                        event |-> Current(u)]
    <3>1. handled' = Append(handled, call) /\ handled \in Seq([by : Handlers, event : Events])
      BY <1>5 DEF CallHandler, TypeOK
    <3>2. Len(handled) + 1 \in DOMAIN handled'
      BY <1>5, CallProperties
    <3> HIDE DEF call
    <3>3. handled'[Len(handled) + 1] = call
      BY <3>1
    <3>4. call \in Accounted'
      BY <3>2, <3>3 DEF Accounted, Range
    <3>5. QED
      BY <3>4 DEF call
  <2>3. ASSUME NEW k \in DOMAIN pending[u], k = position[u],
               NEW t \in Types, NEW j \in DOMAIN handlers[t], t = TypeOf[pending[u][k]],
               j < next_handler[u] + 1
        PROVE  [by |-> handlers[t][j], event |-> pending[u][k]] \in Accounted'
    <3>1. CASE j < next_handler[u]
      <4>1. [by |-> handlers[t][j], event |-> pending[u][k]] \in Accounted
        BY <2>1, <2>3, <3>1 DEF PublishedSoFar, ShownBy
      <4>2. QED
        BY <4>1, SawForGood
    <3>2. CASE j = next_handler[u]
      BY <2>2, <2>3, <3>2 DEF Current
    <3>3. j < next_handler[u] \/ j = next_handler[u]
      BY <1>0, <2>3
    <3>4. QED
      BY <3>1, <3>2, <3>3
  <2>4. \A k \in DOMAIN pending[u] : k < position[u] => pending[u][k] \in Informed'
    BY <2>1, SawForGood DEF PublishedSoFar, ShownBy
  <2>5. ShownBy(u)'
    BY <2>1, <2>3, <2>4 DEF ShownBy
  <2>6. QED
    BY <2>1, <2>5, PublishedFrame
<1>6. ASSUME NEW h \in Handlers, NEW t \in Types, running = Nobody,
             Subscribe(h, t) \/ Unsubscribe(h, t)
      PROVE  PublishedSoFar'
  <2>1. stack = <<>>
    BY <1>6, FrontProperties, TransactionsAssumption DEF running, TypeOK
  <2>2. \A v \in Uows : ~ IsPublished(v) /\ phase' = phase
    BY <1>6, <2>1 DEF Subscribe, Unsubscribe, unit, StackOK, Range, IsPublished
  <2>3. QED
    BY <2>2 DEF PublishedSoFar, IsPublished
<1>7. ASSUME NEW h \in Handlers, NEW s \in Types, Unsubscribe(h, s), h \in OneShot
      PROVE  PublishedSoFar'
  <2>1. /\ UNCHANGED <<pending, position, next_handler, phase>>
        /\ \A t \in Types \ {s} : handlers'[t] = handlers[t]
        /\ DOMAIN handlers'[s] = 1 .. Len(handlers[s]) - 1
    BY <1>7, UnsubscribedList DEF Unsubscribe, unit, queue
  <2>2. PICK d \in DOMAIN handlers[s] :
          /\ handlers[s][d] = h /\ skipped' = skipped \cup PassedOver(s, d)
          /\ \A j \in 1 .. Len(handlers[s]) - 1 :
               handlers'[s][j] = handlers[s][IF j < d THEN j ELSE j + 1]
    BY <1>7, UnsubscribedList
  <2> SUFFICES ASSUME NEW v \in Uows, IsPublished(v) PROVE ShownBy(v)'
    BY <2>1 DEF PublishedSoFar, IsPublished
  <2>5. \A k \in DOMAIN pending[v] : k < position[v] => pending[v][k] \in Informed'
    BY SawForGood DEF PublishedSoFar, ShownBy
  <2>6. ASSUME NEW k \in DOMAIN pending[v], k = position[v],
               NEW t \in Types, NEW j \in DOMAIN handlers'[t], t = TypeOf[pending[v][k]],
               j < next_handler[v]
        PROVE  [by |-> handlers'[t][j], event |-> pending[v][k]] \in Accounted'
    <3>1. \A i \in DOMAIN handlers[t] : i < next_handler[v] =>
            [by |-> handlers[t][i], event |-> pending[v][k]] \in Accounted'
      BY <2>6, SawForGood DEF PublishedSoFar, ShownBy
    <3>2. CASE t # s
      BY <2>1, <2>6, <3>1, <3>2
    <3>3. CASE t = s /\ j < d
      <4>1. j \in 1 .. Len(handlers[s]) - 1 /\ j \in DOMAIN handlers[s]
        BY <1>0, <2>1, <2>6, <3>3
      <4>2. QED
        BY <2>2, <2>6, <3>1, <3>3, <4>1
    <3>4. CASE t = s /\ ~(j < d)
      <4>1. /\ j \in 1 .. Len(handlers[s]) - 1 /\ j + 1 \in DOMAIN handlers[s]
            /\ j + 1 < next_handler[v] \/ j + 1 = next_handler[v]
            /\ d < j + 1
        BY <1>0, <2>1, <2>6, <3>4
      <4>2. handlers'[s][j] = handlers[s][j + 1]
        BY <2>2, <3>4, <4>1
      <4>3. CASE j + 1 < next_handler[v]
        BY <3>1, <3>4, <4>1, <4>2, <4>3
      <4>4. CASE j + 1 = next_handler[v]
        <5>1. [by |-> handlers[s][next_handler[v]], event |-> Current(v)] \in PassedOver(s, d)
          BY <2>6, <3>4, <4>1, <4>4 DEF PassedOver, Current, IsPublished
        <5>2. QED
          BY <2>2, <2>6, <3>4, <4>2, <4>4, <5>1 DEF Accounted, Current
      <4>5. QED
        BY <4>1, <4>3, <4>4
    <3>5. QED
      BY <3>2, <3>3, <3>4
  <2>7. QED
    BY <2>1, <2>5, <2>6 DEF ShownBy
<1>8. CASE UNCHANGED vars
  BY <1>8 DEF vars, unit, queue, bus, history, PublishedSoFar, ShownBy, IsPublished, Informed,
              Accounted, Staying
<1>9. ASSUME NEW h \in Handlers, NEW t \in Types, Subscribe(h, t) \/ Unsubscribe(h, t)
      PROVE  PublishedSoFar'
  BY <1>6, <1>7, <1>9 DEF Subscribe, Unsubscribe
<1>10. QED
  BY <1>1, <1>2, <1>3, <1>4, <1>5, <1>8, <1>9 DEF Next, Commit, CommitFails, Leave

\* Whoever is passed over stands behind the handler that leaves, and while a
\* handler runs only one-shot handlers leave.
LEMMA SkippedStep ==
  TypeOK /\ StackOK /\ PendingOK /\ StillListed /\ SkippedBehindOneShot
    /\ [Next]_vars => SkippedBehindOneShot'
<1> SUFFICES ASSUME TypeOK, StackOK, PendingOK, StillListed, SkippedBehindOneShot,
                    [Next]_vars,
                    NEW e \in Events, NEW h \in Permanent'[TypeOf[e]],
                    [by |-> h, event |-> e] \in skipped'
             PROVE  FALSE
  BY DEF SkippedBehindOneShot
<1>1. TypeOf[e] \in Types /\ h \in Permanent[TypeOf[e]]
  BY SawForGood, TransactionsAssumption
<1>2. [by |-> h, event |-> e] \notin skipped
  BY <1>1 DEF SkippedBehindOneShot
<1>3. PICK g \in Handlers, t \in Types : Unsubscribe(g, t)
  BY <1>2, ListsUnchanged DEF Subscribe
<1>4. PICK d \in DOMAIN handlers[t] :
        handlers[t][d] = g /\ skipped' = skipped \cup PassedOver(t, d)
  BY <1>3, UnsubscribedList
<1>5. PICK u \in Uows :
        /\ IsPublished(u) /\ TypeOf[Current(u)] = t
        /\ d < next_handler[u] /\ next_handler[u] \in DOMAIN handlers[t]
        /\ [by |-> h, event |-> e] = [by |-> handlers[t][next_handler[u]], event |-> Current(u)]
  BY <1>2, <1>4 DEF PassedOver, IsPublished
<1>6. h = handlers[t][next_handler[u]] /\ TypeOf[e] = t
  BY <1>5
<1>7. g \notin OneShot
  BY <1>1, <1>4, <1>5, <1>6 DEF StillListed
<1>8. stack = <<>>
  BY <1>3, <1>7, FrontProperties, TransactionsAssumption DEF Unsubscribe, running, TypeOK
<1>9. QED
  BY <1>5, <1>8 DEF StackOK, Range, IsPublished

\* A unit keeps its events while it publishes them.
LEMMA PublishedKept ==
  ASSUME TypeOK, [Next]_vars, NEW v \in Uows, IsPublished(v), ~ PublicationEnds(v)
  PROVE  IsPublished(v)' /\ pending'[v] = pending[v]
<1> USE DEF TypeOK, IsPublished
<1>1. ASSUME NEW u \in Uows, Enter(u) PROVE IsPublished(v)' /\ pending'[v] = pending[v]
  BY <1>1 DEF Enter, queue
<1>2. ASSUME NEW u \in Uows, AddDomainEvent(u)
      PROVE  IsPublished(v)' /\ pending'[v] = pending[v]
  BY <1>2 DEF AddDomainEvent, InBody, unit
<1>3. ASSUME NEW u \in Uows, ClearDomainEvents(u) \/ Rollback(u)
      PROVE  IsPublished(v)' /\ pending'[v] = pending[v]
  BY <1>3 DEF ClearDomainEvents, Rollback, Discard, InBody, unit
<1>4. ASSUME NEW u \in Uows, Abandon(u) PROVE IsPublished(v)' /\ pending'[v] = pending[v]
  BY <1>4 DEF Abandon, Discard, Closed, InBody
<1>5. ASSUME NEW u \in Uows, Committed(u) PROVE IsPublished(v)' /\ pending'[v] = pending[v]
  BY <1>5 DEF Committed, InBody
<1>6. ASSUME NEW u \in Uows, Publish(u) \/ CallHandler(u) \/ HandlerEnds(u) \/ NextEvent(u)
      PROVE  IsPublished(v)' /\ pending'[v] = pending[v]
  BY <1>6 DEF Publish, CallHandler, HandlerEnds, NextEvent, unit, queue
<1>7. ASSUME NEW u \in Uows, PublicationEnds(u)
      PROVE  IsPublished(v)' /\ pending'[v] = pending[v]
  <2>1. u # v
    BY <1>7
  <2>2. pending'[v] = pending[v] /\ phase'[v] = phase[v]
    BY <1>7, <2>1 DEF PublicationEnds, Closed
  <2>3. QED
    BY <2>2
<1>8. ASSUME NEW h \in Handlers, NEW t \in Types, Subscribe(h, t) \/ Unsubscribe(h, t)
      PROVE  IsPublished(v)' /\ pending'[v] = pending[v]
  BY <1>8 DEF Subscribe, Unsubscribe, unit, queue
<1>9. CASE UNCHANGED vars
  BY <1>9 DEF vars, unit, queue
<1>10. QED
  BY <1>1, <1>2, <1>3, <1>4, <1>5, <1>6, <1>7, <1>8, <1>9
     DEF Next, Commit, CommitFails, Leave

\* An event becomes committed only in the commit of a unit that holds it.
LEMMA CommittedBy ==
  ASSUME TypeOK, [Next]_vars, NEW e \in Events, fate[e] # "committed",
         fate'[e] = "committed"
  PROVE  \E u \in Uows : Committed(u) /\ e \in Range(pending[u])
<1>1. ASSUME NEW u \in Uows, Committed(u) PROVE e \in Range(pending[u])
  BY <1>1 DEF Committed, Sealed
<1>2. ASSUME NEW u \in Uows, AddDomainEvent(u) PROVE FALSE
  BY <1>2 DEF AddDomainEvent, TypeOK
<1>3. ASSUME NEW u \in Uows, ClearDomainEvents(u) \/ Rollback(u) \/ Abandon(u) PROVE FALSE
  BY <1>3 DEF ClearDomainEvents, Rollback, Abandon, Discard, Sealed
<1>4. ASSUME NEW u \in Uows, Enter(u) \/ Publish(u) \/ CallHandler(u) \/ HandlerEnds(u)
                             \/ NextEvent(u) \/ PublicationEnds(u)
      PROVE  FALSE
  BY <1>4 DEF Enter, Publish, CallHandler, HandlerEnds, NextEvent, PublicationEnds, history
<1>5. ASSUME NEW h \in Handlers, NEW t \in Types, Subscribe(h, t) \/ Unsubscribe(h, t)
      PROVE  FALSE
  BY <1>5 DEF Subscribe, Unsubscribe, history
<1>6. ASSUME UNCHANGED vars PROVE FALSE
  BY <1>6 DEF vars, history
<1>7. QED
  BY <1>1, <1>2, <1>3, <1>4, <1>5, <1>6 DEF Next, Commit, CommitFails, Leave

\* A unit that ends a publication has shown all of its events.
LEMMA AllShownAtTheEnd ==
  ASSUME TypeOK, PublishedSoFar, NEW u \in Uows, PublicationEnds(u)
  PROVE  Range(pending[u]) \subseteq Informed
<1>1. ASSUME NEW k \in DOMAIN pending[u] PROVE pending[u][k] \in Informed
  <2>1. IsPublished(u) /\ position[u] > Len(pending[u])
    BY DEF PublicationEnds, Publishing, IsPublished
  <2>2. k \in 1 .. Len(pending[u]) /\ Len(pending[u]) \in Nat /\ position[u] \in Nat
    <3>1. pending[u] \in Seq(Events) /\ position[u] \in Nat
      BY DEF TypeOK
    <3>2. QED
      BY <1>1, <3>1, LenProperties
  <2>3. k < position[u]
    BY <2>1, <2>2
  <2>4. QED
    BY <2>1, <2>3 DEF PublishedSoFar, ShownBy
<1>2. QED
  BY <1>1 DEF Range

\* Every committed event is shown to all of them or still being published.
LEMMA SeenStep ==
  TypeOK /\ PendingOK /\ PublishedSoFar /\ CommittedSeen /\ [Next]_vars => CommittedSeen'
<1> SUFFICES ASSUME TypeOK, PendingOK, PublishedSoFar, CommittedSeen, [Next]_vars,
                    NEW e \in Events, fate'[e] = "committed"
             PROVE  \/ e \in Informed'
                    \/ \E u \in Uows : IsPublished(u)' /\ e \in Range(pending'[u])
  BY DEF CommittedSeen
<1>1. CASE fate[e] # "committed"
  <2>1. PICK u \in Uows : Committed(u) /\ e \in Range(pending[u])
    BY <1>1, CommittedBy
  <2>2. IsPublished(u)' /\ pending' = pending
    BY <2>1 DEF Committed, IsPublished, TypeOK
  <2>3. QED
    BY <2>1, <2>2
<1>2. CASE e \in Informed
  BY <1>2, SawForGood
<1>3. ASSUME fate[e] = "committed", e \notin Informed
      PROVE  \E u \in Uows : IsPublished(u)' /\ e \in Range(pending'[u])
  <2>1. PICK u \in Uows : IsPublished(u) /\ e \in Range(pending[u])
    BY <1>3 DEF CommittedSeen
  <2>2. ~ PublicationEnds(u)
    BY <1>3, <2>1, AllShownAtTheEnd
  <2>3. QED
    BY <2>1, <2>2, PublishedKept
<1>4. QED
  BY <1>1, <1>2, <1>3

\* The inductive invariant behind EveryHandlerNotified.
NotifiedInv ==
  TransactionsInv /\ StillListed /\ PublishedSoFar /\ CommittedSeen /\ SkippedBehindOneShot

LEMMA NotifiedInit == Init => NotifiedInv
<1> SUFFICES ASSUME Init PROVE NotifiedInv
  OBVIOUS
<1>1. ASSUME NEW t \in Types
      PROVE  /\ Staying[t] \subseteq Range(handlers[t])
             /\ \A i, j \in DOMAIN handlers[t] :
                  i < j /\ handlers[t][j] \in Permanent[t] => handlers[t][i] \notin OneShot
  <2>1. /\ handlers[t] = Subscribers[t] /\ Permanent[t] = Unskippable(t)
        /\ Staying[t] = Range(Subscribers[t])
    BY DEF Init, Permanent, Staying
  <2>2. IsInjective(Subscribers[t])
    BY TransactionsAssumption
  <2>3. ASSUME NEW i \in DOMAIN Subscribers[t], NEW j \in DOMAIN Subscribers[t], i < j,
               Subscribers[t][j] \in Unskippable(t)
        PROVE  Subscribers[t][i] \notin OneShot
    <3>1. PICK k \in DOMAIN Subscribers[t] :
            /\ \A m \in DOMAIN Subscribers[t] : m < k => Subscribers[t][m] \notin OneShot
            /\ Subscribers[t][k] = Subscribers[t][j]
      BY <2>3 DEF Unskippable
    <3>2. k = j
      BY <2>2, <3>1 DEF IsInjective
    <3>3. QED
      BY <2>3, <3>1, <3>2
  <2>4. QED
    BY <2>1, <2>3
<1>2. PublishedSoFar /\ CommittedSeen /\ SkippedBehindOneShot
  BY DEF Init, PublishedSoFar, CommittedSeen, SkippedBehindOneShot, IsPublished
<1>3. QED
  BY <1>1, <1>2, InitInv DEF NotifiedInv, StillListed

LEMMA NotifiedKept == Spec => []NotifiedInv
<1>1. TransactionsInv /\ NotifiedInv /\ [Next]_vars /\ TransactionsInv' => NotifiedInv'
  BY ListedStep, PublishedStep, SeenStep, SkippedStep DEF NotifiedInv, TransactionsInv
<1>2. QED
  BY NotifiedInit, <1>1, UnitsStayConsistent, PTL DEF Spec

\* When all with blocks have been left, each original subscriber that stayed has
\* seen every committed event or was passed over, the list moving under it,
\* whatever handlers raise, open, commit, roll back, subscribe and unsubscribe.
THEOREM HandlersAreNotified == Spec => []EveryHandlerNotified
<1>1. NotifiedInv => EveryHandlerNotified
  <2> SUFFICES ASSUME NotifiedInv, running = Nobody, NEW e \in Events, fate[e] = "committed",
                      NEW h \in Range(Subscribers[TypeOf[e]]) \ unsubscribed
               PROVE  [by |-> h, event |-> e] \in Range(handled) \cup skipped
    BY DEF EveryHandlerNotified
  <2>1. stack = <<>>
    BY FrontProperties, TransactionsAssumption
       DEF running, NotifiedInv, TransactionsInv, TypeOK
  <2>2. \A u \in Uows : ~ IsPublished(u)
    BY <2>1 DEF NotifiedInv, TransactionsInv, StackOK, Range, IsPublished
  <2>3. e \in Informed
    BY <2>2 DEF NotifiedInv, CommittedSeen
  <2>4. h \in Staying[TypeOf[e]]
    BY TransactionsAssumption DEF Staying
  <2>5. QED
    BY <2>3, <2>4 DEF Informed, Accounted
<1>2. QED
  BY <1>1, NotifiedKept, PTL

\* Nobody is passed over who has no one-shot handler before them in the list.
\* Without one-shot handlers, as in this application, that is everybody: the bus
\* keeps its word, and each subscriber that stays sees every committed event.
UnskippableNotified ==
  running = Nobody =>
    \A e \in Events : fate[e] = "committed" =>
      \A h \in Unskippable(TypeOf[e]) \ unsubscribed :
        [by |-> h, event |-> e] \in Range(handled)
THEOREM UnskippableAreNotified == Spec => []UnskippableNotified
<1>1. NotifiedInv /\ EveryHandlerNotified => UnskippableNotified
  <2> SUFFICES ASSUME NotifiedInv, EveryHandlerNotified, running = Nobody,
                      NEW e \in Events, fate[e] = "committed",
                      NEW h \in Unskippable(TypeOf[e]) \ unsubscribed
               PROVE  [by |-> h, event |-> e] \in Range(handled)
    BY DEF UnskippableNotified
  <2>1. h \in Permanent[TypeOf[e]]
    BY TransactionsAssumption DEF Permanent
  <2>2. [by |-> h, event |-> e] \notin skipped
    BY <2>1 DEF NotifiedInv, SkippedBehindOneShot
  <2>3. h \in Range(Subscribers[TypeOf[e]]) \ unsubscribed
    BY DEF Unskippable, Range
  <2>4. QED
    BY <2>2, <2>3 DEF EveryHandlerNotified
<1>2. QED
  BY <1>1, NotifiedKept, HandlersAreNotified, PTL

(***************************************************************************)
(* The abstract specification.                                             *)
(***************************************************************************)

\* The events that have been added are not new any more.
AddedOK == \A e \in Events : e <= added => fate[e] # "new"

LEMMA AddedStep == TypeOK /\ AddedOK /\ [Next]_vars => AddedOK'
<1> SUFFICES ASSUME TypeOK, AddedOK, [Next]_vars PROVE AddedOK'
  OBVIOUS
<1>1. ASSUME UNCHANGED <<added, fate>> PROVE AddedOK'
  BY <1>1 DEF AddedOK
<1>2. ASSUME NEW u \in Uows, NEW outcome \in {"committed", "discarded"},
             UNCHANGED added, fate' = Sealed(u, outcome)
      PROVE  AddedOK'
  BY <1>2 DEF AddedOK, Sealed
<1>3. ASSUME NEW u \in Uows, AddDomainEvent(u) PROVE AddedOK'
  <2>1. /\ added \in Nat /\ added' = added + 1 /\ fate' = [fate EXCEPT ![added + 1] = "staged"]
        /\ DOMAIN fate = Events /\ Events \subseteq Nat
    BY <1>3, TransactionsAssumption DEF AddDomainEvent, TypeOK, Events
  <2>. QED
    BY <2>1 DEF AddedOK
<1>4. ASSUME NEW u \in Uows,
             \/ ClearDomainEvents(u) \/ Rollback(u) \/ CommitFails(u) \/ Abandon(u)
             \/ Commit(u) \/ Leave(u)
      PROVE  AddedOK'
  BY <1>1, <1>2, <1>4 DEF ClearDomainEvents, Rollback, CommitFails, Abandon, Discard,
       Commit, Leave, Committed
<1>5. ASSUME NEW u \in Uows,
             \/ Enter(u) \/ Publish(u) \/ CallHandler(u) \/ HandlerEnds(u) \/ NextEvent(u)
             \/ PublicationEnds(u)
      PROVE  AddedOK'
  BY <1>1, <1>5 DEF Enter, Publish, CallHandler, HandlerEnds, NextEvent, PublicationEnds, history
<1>6. ASSUME NEW h \in Handlers, NEW t \in Types, Subscribe(h, t) \/ Unsubscribe(h, t)
      PROVE  AddedOK'
  BY <1>1, <1>6 DEF Subscribe, Unsubscribe, history
<1>. QED
  BY <1>1, <1>3, <1>4, <1>5, <1>6 DEF Next, vars, history

\* The staged events of a unit are those in its list.
LEMMA SealedIsSettled ==
  ASSUME TypeOK, PendingOK, NothingLost, NEW u \in Uows, NEW outcome
  PROVE  Sealed(u, outcome) =
           [e \in Events |-> IF unit_of[e] = u /\ fate[e] = "staged" THEN outcome ELSE fate[e]]
<1>1. ASSUME NEW e \in Events, fate[e] = "staged"
      PROVE  e \in Range(pending[u]) <=> unit_of[e] = u
  <2>1. PICK v \in Uows : e \in Range(pending[v])
    BY <1>1 DEF NothingLost
  <2>2. \A w \in Uows : e \in Range(pending[w]) => unit_of[e] = w
    BY DEF PendingOK, Range
  <2>. QED
    BY <2>1, <2>2
<1>. QED
  BY <1>1 DEF Sealed

\* What shows of a unit that seals its events is that their fate is settled.
LEMMA SealingSettles ==
  ASSUME TypeOK, PendingOK, NothingLost, NEW u \in Uows, NEW outcome \in {"committed", "discarded"},
         fate' = Sealed(u, outcome), UNCHANGED <<unit_of, handled>>
  PROVE  Delivery!Next
<1>1. Delivery!Settle(u, outcome)
  BY SealedIsSettled DEF Delivery!Settle
<1>. QED
  BY <1>1 DEF Delivery!Next

\* A call of a handler is one that the abstract specification allows.
LEMMA CallDelivers ==
  ASSUME TransactionsInv, TransactionsInv', NEW u \in Uows, CallHandler(u)
  PROVE  Delivery!Next
<1>1. PICK h \in Handlers, e \in Events :
        handled' = Append(handled, [by |-> h, event |-> e])
  <2>1. position[u] \in DOMAIN pending[u] /\ Current(u) \in Events /\ TypeOf[Current(u)] \in Types
    BY TransactionsAssumption DEF CallHandler, TransactionsInv, TypeOK, Current
  <2>2. handlers[TypeOf[Current(u)]] \in Seq(Handlers)
    BY <2>1 DEF TransactionsInv, TypeOK
  <2>3. handlers[TypeOf[Current(u)]][next_handler[u]] \in Handlers
    BY <2>2, ElementOfSeq DEF CallHandler
  <2>. QED
    BY <2>1, <2>3 DEF CallHandler
<1>2. /\ Len(handled) \in Nat /\ DOMAIN handled = 1 .. Len(handled)
      /\ DOMAIN handled' = 1 .. Len(handled) + 1
      /\ \A i \in 1 .. Len(handled) : handled'[i] = handled[i]
      /\ handled'[Len(handled) + 1] = [by |-> h, event |-> e]
      /\ UNCHANGED <<unit_of, fate>>
  BY <1>1, AppendProperties DEF TransactionsInv, TypeOK, CallHandler
<1>3. fate[e] = "committed"
  <2>1. fate'[handled'[Len(handled) + 1].event] = "committed"
    BY <1>2 DEF TransactionsInv, OnlyCommittedHandled
  <2>. QED
    BY <1>2, <2>1
<1>4. ASSUME NEW i \in DOMAIN handled,
             handled[i].by = h, unit_of[handled[i].event] = unit_of[e]
      PROVE  handled[i].event < e
  <2>1. \A j, k \in DOMAIN handled' :
          /\ j < k
          /\ handled'[j].by = handled'[k].by
          /\ unit_of'[handled'[j].event] = unit_of'[handled'[k].event]
          => handled'[j].event < handled'[k].event
    BY DEF TransactionsInv, UnitOrderKept
  <2>2. /\ i \in DOMAIN handled' /\ Len(handled) + 1 \in DOMAIN handled'
        /\ i < Len(handled) + 1
    BY <1>2
  <2>. QED
    BY <1>2, <1>4, <2>1, <2>2
<1>5. Delivery!Call(h, e)
  BY <1>1, <1>2, <1>3, <1>4 DEF Delivery!Call
<1>. QED
  BY <1>5 DEF Delivery!Next

\* Every step is one of the abstract specification, or changes nothing it shows.
LEMMA StepDelivers ==
  TransactionsInv /\ TransactionsInv' /\ AddedOK /\ [Next]_vars
    => [Delivery!Next]_<<unit_of, fate, handled>>
<1> SUFFICES ASSUME TransactionsInv, TransactionsInv', AddedOK, [Next]_vars
             PROVE  Delivery!Next \/ UNCHANGED <<unit_of, fate, handled>>
  OBVIOUS
<1>i. TypeOK /\ PendingOK /\ NothingLost
  BY DEF TransactionsInv
<1>1. ASSUME NEW u \in Uows, AddDomainEvent(u) PROVE Delivery!Next
  <2>1. /\ added + 1 \in Events /\ added \in Nat
        /\ \A f \in Events : fate[f] = "new" <=> added + 1 <= f
    <3>1. \A f \in Events : f > added => fate[f] = "new"
      BY <1>i DEF PendingOK
    <3>2. \A f \in Events : f <= added => fate[f] # "new"
      BY <1>i DEF AddedOK
    <3>3. added \in Nat /\ added + 1 \in Events
      BY <1>1, <1>i, TransactionsAssumption DEF TypeOK, AddDomainEvent, Events
    <3>. QED
      BY <3>1, <3>2, <3>3, TransactionsAssumption DEF Events
  <2>2. Delivery!Add(u, added + 1)
    BY <1>1, <2>1 DEF AddDomainEvent, Delivery!Add
  <2>. QED
    BY <2>1, <2>2 DEF Delivery!Next
<1>2. ASSUME NEW u \in Uows, ClearDomainEvents(u) \/ Abandon(u) PROVE Delivery!Next
  BY <1>2, <1>i, SealingSettles DEF ClearDomainEvents, Abandon, Discard
<1>3. ASSUME NEW u \in Uows, Rollback(u) \/ CommitFails(u)
      PROVE  Delivery!Next \/ UNCHANGED <<unit_of, fate, handled>>
  BY <1>3, <1>i, SealingSettles DEF Rollback, CommitFails, Discard
<1>4. ASSUME NEW u \in Uows, Commit(u) \/ Leave(u) PROVE Delivery!Next
  BY <1>4, <1>i, SealingSettles DEF Commit, Leave, Committed
<1>5. ASSUME NEW u \in Uows, CallHandler(u) PROVE Delivery!Next
  BY <1>5, CallDelivers
<1>6. ASSUME NEW u \in Uows,
             Enter(u) \/ Publish(u) \/ HandlerEnds(u) \/ NextEvent(u) \/ PublicationEnds(u)
      PROVE  UNCHANGED <<unit_of, fate, handled>>
  BY <1>6 DEF Enter, Publish, HandlerEnds, NextEvent, PublicationEnds, history
<1>7. ASSUME NEW h \in Handlers, NEW t \in Types, Subscribe(h, t) \/ Unsubscribe(h, t)
      PROVE  UNCHANGED <<unit_of, fate, handled>>
  BY <1>7 DEF Subscribe, Unsubscribe, history
<1>8. ASSUME UNCHANGED vars PROVE UNCHANGED <<unit_of, fate, handled>>
  BY <1>8 DEF vars, history
<1>. QED
  BY <1>1, <1>2, <1>3, <1>4, <1>5, <1>6, <1>7, <1>8 DEF Next

\* Units of work and the bus deliver events as EventDelivery promises: the
\* events of a transaction share one final fate, and handlers are called for
\* committed events only, in the order of their unit.
THEOREM UnitsDeliver == Spec => ImplementsEventDelivery
<1>1. Init => Delivery!Init
  BY DEF Init, Delivery!Init
<1>2. Init => AddedOK
  BY DEF Init, AddedOK, Events
<1>3. TransactionsInv /\ AddedOK /\ [Next]_vars => AddedOK'
  BY AddedStep DEF TransactionsInv
<1>. QED
  BY <1>1, <1>2, <1>3, UnitsStayConsistent, StepDelivers, PTL
     DEF Spec, ImplementsEventDelivery, Delivery!Spec, Delivery!vars
=============================================================================
