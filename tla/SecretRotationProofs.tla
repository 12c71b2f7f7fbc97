------------------------ MODULE SecretRotationProofs ------------------------
(***************************************************************************)
(* Proofs about SecretRotation, for any types, threads, callers, interval  *)
(* and length of the history.                                              *)
(***************************************************************************)
EXTENDS SecretRotation, SequenceTheorems, TLAPS

HistoryOK == history \in Seq(Records) /\ Len(history) <= MaxHistory

\* A thread that lives has a type, only threads that were started are stopped
\* or on record,
\* and while the scheduler is being stopped every living thread has been told.
ThreadsInv ==
  /\ \A w \in Threads : Alive(w) => rotor[w].type \in Types
  /\ \A w \in stopped : ~At(w, "away")
  /\ \A t \in Types : registered[t] # None => ~At(registered[t], "away")
  /\ admin.op = "stop" => \A w \in Threads : Alive(w) => w \in stopped

Swapping == {r \in Rotors : At(r, "swapping")}

\* The engine a rotation has made is nobody else's: not active, not closing,
\* not the one another rotation replaces.
EnginesInv ==
  /\ engine <= made /\ closing \subseteq 1 .. made
  /\ \A r \in Swapping :
       /\ rotor[r].new \in 1 .. made /\ rotor[r].old \in 0 .. made
       /\ rotor[r].new # engine /\ rotor[r].new \notin closing
       /\ \A s \in Swapping : rotor[r].new # rotor[s].old /\ (r # s => rotor[r].new # rotor[s].new)

\* A rotation replaces the engine it has read, unless another one became active
\* in the meantime.
RacedInv == \A r \in Swapping : rotor[r].old = engine \/ engine \in raced

\* The last completion logged is in the history, behind the newer events.
RecordsInv ==
  \A t \in Types :
    lastDone[t] # None =>
      /\ newer[t] < Len(history)
      /\ history[Len(history) - newer[t]].type = t
      /\ history[Len(history) - newer[t]].status = "completed"
      /\ history[Len(history) - newer[t]].at = lastDone[t]
      /\ history[Len(history) - newer[t]].by = None

-----------------------------------------------------------------------------
(* The history.                                                            *)

\* Logging puts the event last, moves the others one place from the end, and
\* keeps the limit.
LEMMA LoggedFacts ==
  ASSUME HistoryOK, NEW event \in Records
  PROVE  /\ Logged(event) \in Seq(Records)
         /\ Len(Logged(event)) <= MaxHistory
         /\ Len(Logged(event)) > 0
         /\ Logged(event)[Len(Logged(event))] = event
         /\ \A k \in Nat : k < Len(history) /\ k + 1 < MaxHistory =>
              /\ k + 1 < Len(Logged(event))
              /\ Logged(event)[Len(Logged(event)) - (k + 1)] = history[Len(history) - k]
<1> DEFINE longer == Append(history, event)
           n == Len(history)
<1>1. MaxHistory \in Nat /\ MaxHistory >= 1 /\ n \in Nat /\ n <= MaxHistory
  BY RotationAssumption DEF HistoryOK
<1>2. /\ longer \in Seq(Records) /\ Len(longer) = n + 1
      /\ longer[n + 1] = event /\ \A i \in 1 .. n : longer[i] = history[i]
  BY DEF HistoryOK
<1>3. CASE n + 1 <= MaxHistory
  <2>1. Logged(event) = longer
    BY <1>1, <1>2, <1>3 DEF Logged
  <2> HIDE DEF longer
  <2>2. ASSUME NEW k \in Nat, k < n
        PROVE  longer[(n + 1) - (k + 1)] = history[n - k]
    <3>1. n - k \in 1 .. n /\ (n + 1) - (k + 1) = n - k
      BY <1>1, <2>2
    <3>. QED
      BY <1>2, <3>1
  <2>. QED
    BY <1>1, <1>2, <1>3, <2>1, <2>2
<1>4. CASE n + 1 > MaxHistory
  <2> DEFINE newest == SubSeq(longer, 2, n + 1)
  <2>1. n = MaxHistory /\ (n + 1) - MaxHistory + 1 = 2
    BY <1>1, <1>4
  <2>2. Logged(event) = newest
    BY <1>1, <1>2, <2>1 DEF Logged, Newest
  <2>3. /\ newest \in Seq(Records) /\ Len(newest) = n
        /\ \A i \in 1 .. n : newest[i] = longer[i + 1]
    <3> HIDE DEF longer
    <3>1. 2 \in 1 .. Len(longer) + 1 /\ n + 1 \in 1 - 1 .. Len(longer)
      BY <1>1, <1>2
    <3>2. /\ newest \in Seq(Records)
          /\ Len(newest) = IF 2 <= n + 1 THEN (n + 1) - 2 + 1 ELSE 0
          /\ \A i \in 1 .. (n + 1) - 2 + 1 : newest[i] = longer[2 + i - 1]
      BY <1>1, <1>2, SubSeqProperties
    <3> HIDE DEF newest
    <3>. QED
      BY <1>1, <2>1, <3>2
  <2> HIDE DEF newest, longer
  <2>4. newest[n] = event
    BY <1>1, <1>2, <2>1, <2>3
  <2>5. ASSUME NEW k \in Nat, k < n, k + 1 < MaxHistory
        PROVE  newest[n - (k + 1)] = history[n - k]
    <3>1. n - (k + 1) \in 1 .. n /\ (n - (k + 1)) + 1 = n - k /\ n - k \in 1 .. n
      BY <1>1, <2>1, <2>5
    <3>. QED
      BY <1>2, <2>3, <3>1
  <2>. QED
    BY <1>1, <2>1, <2>2, <2>3, <2>4, <2>5
<1>. QED
  BY <1>1, <1>3, <1>4

LEMMA EventType ==
  ASSUME NEW w \in Threads, rotor[w].type \in Types,
         NEW status \in Statuses, NEW at \in 0 .. MaxTime
  PROVE  Event(w, status, at) \in Records
BY DEF Event, Records, Statuses

LEMMA OutcomeType ==
  ASSUME NEW w \in Threads, rotor[w].type \in Types,
         NEW ok \in BOOLEAN, NEW at \in 0 .. MaxTime
  PROVE  Outcome(w, ok, at) \in Records
BY EventType DEF Outcome, Statuses

\* What Over does to the history: events of other threads and events that are
\* no longer pending stay, and it keeps its length.
LEMMA OverFacts ==
  ASSUME HistoryOK, NEW r \in Rotors, NEW ok \in BOOLEAN, now \in 0 .. MaxTime,
         r \in Threads => rotor[r].type \in Types,
         Over(r, ok)
  PROVE  /\ HistoryOK' /\ Len(history') = Len(history)
         /\ \A i \in 1 .. Len(history) : history[i].by = None => history'[i] = history[i]
<1>1. CASE r \in Callers
  BY <1>1 DEF Over, HistoryOK
<1>2. CASE r \in Threads
  <2>1. r \notin Callers /\ r # None
    BY <1>2, RotationAssumption
  <2>2. history' = [i \in DOMAIN history |->
                      IF history[i].by = r THEN Outcome(r, ok, now) ELSE history[i]]
    BY <2>1 DEF Over
  <2>3. Outcome(r, ok, now) \in Records
    BY <1>2, OutcomeType
  <2>4. DOMAIN history = 1 .. Len(history) /\ Len(history) \in Nat
    BY DEF HistoryOK
  <2>5. \A i \in 1 .. Len(history) : history[i] \in Records
    BY DEF HistoryOK
  <2>6. history' \in [1 .. Len(history) -> Records]
    BY <2>2, <2>3, <2>4, <2>5
  <2>7. history' \in Seq(Records) /\ Len(history') = Len(history)
    BY <2>4, <2>6
  <2>8. \A i \in 1 .. Len(history) : history[i].by = None => history'[i] = history[i]
    BY <2>1, <2>2, <2>4
  <2>. QED
    BY <2>7, <2>8 DEF HistoryOK
<1>. QED
  BY <1>1, <1>2 DEF Rotors

-----------------------------------------------------------------------------
(* Types and threads.                                                      *)

LEMMA TypeGivesHistory == ASSUME TypeOK PROVE HistoryOK
BY DEF TypeOK, HistoryOK, Records

\* A thread that waits for a type has a well-formed state.
LEMMA RotorTypes ==
  /\ \A t \in Types \cup {None} : Waiting(t) \in RotorStates
  /\ Away \in RotorStates
<1>1. 0 \in 0 .. MaxTime /\ 0 \in 0 .. MaxEngines
  BY RotationAssumption
<1>2. Away \in RotorStates
  BY <1>1 DEF Away, RotorStates
<1>3. \A t \in Types \cup {None} : Waiting(t) \in RotorStates
  BY <1>1 DEF Waiting, Away, RotorStates
<1>. QED
  BY <1>2, <1>3

\* A rotor's state stays well-formed when it moves on.
LEMMA RotorMoves ==
  ASSUME NEW state \in RotorStates
  PROVE  /\ \A pc \in {"ended", "due", "rotating"} : [state EXCEPT !.pc = pc] \in RotorStates
         /\ \A ok \in BOOLEAN, at \in 0 .. MaxTime :
              [state EXCEPT !.pc = "logging", !.ok = ok, !.at = at] \in RotorStates
         /\ \A old, new \in 0 .. MaxEngines :
              [state EXCEPT !.pc = "swapping", !.type = Database, !.old = old, !.new = new]
                \in RotorStates
BY RotationAssumption DEF RotorStates

LEMMA InitInv == Init => TypeOK /\ ThreadsInv /\ NoStrayThread
<1> SUFFICES ASSUME Init PROVE TypeOK /\ ThreadsInv /\ NoStrayThread
  OBVIOUS
<1> USE RotationAssumption DEF Init
<1>1. history \in Seq(Records) /\ Len(history) <= MaxHistory
  OBVIOUS
<1>0. Away \in RotorStates
  <2>. 0 \in 0 .. MaxTime /\ 0 \in 0 .. MaxEngines
    OBVIOUS
  <2>. QED
    BY DEF Away, RotorStates
<1>2. TypeOK
  <2>1. /\ rotor \in [Rotors -> RotorStates]
        /\ registered \in [Types -> Threads \cup {None}]
        /\ lastDone \in [Types -> 0 .. MaxTime \cup {None}]
        /\ newer \in [Types -> 0 .. MaxHistory - 1]
    BY <1>0
  <2>2. admin \in Calls
    BY DEF Idle, Calls
  <2>3. /\ now \in 0 .. MaxTime /\ calls \in 0 .. MaxCalls
        /\ engine \in 0 .. MaxEngines /\ made \in 0 .. MaxEngines
    OBVIOUS
  <2>4. /\ enabled \subseteq Types /\ stopped \subseteq Threads /\ lock \in BOOLEAN
        /\ raced \subseteq 0 .. MaxEngines /\ closing \subseteq 1 .. MaxEngines
    OBVIOUS
  <2>. HIDE DEF Init
  <2>. QED
    BY <1>1, <2>1, <2>2, <2>3, <2>4 DEF TypeOK
<1>3. \A w \in Threads : ~Alive(w)
  BY DEF Alive, At, Away, Rotors
<1>. QED
  BY <1>2, <1>3 DEF ThreadsInv, NoStrayThread, Idle

LEMMA TypeStep ==
  ASSUME TypeOK, ThreadsInv, [Next]_vars
  PROVE  TypeOK'
<1>h. HistoryOK
  BY TypeGivesHistory
<1>u. ASSUME UNCHANGED vars PROVE TypeOK'
  BY <1>u DEF TypeOK, vars, scheduler, engines, records
<1>s. ASSUME UNCHANGED <<rotor, engines, records>>, UNCHANGED <<now, enabled>>,
             admin' \in Calls,
             registered' \in [Types -> Threads \cup {None}],
             stopped' \subseteq Threads, calls' \in 0 .. MaxCalls, lock' \in BOOLEAN
      PROVE  TypeOK'
  BY <1>s DEF TypeOK, engines, records
<1>r. ASSUME NEW r \in Rotors, NEW state \in RotorStates,
             rotor' = [rotor EXCEPT ![r] = state],
             HistoryOK', lastDone' \in [Types -> 0 .. MaxTime \cup {None}],
             newer' \in [Types -> 0 .. MaxHistory - 1],
             engine' \in 0 .. MaxEngines, made' \in 0 .. MaxEngines,
             closing' \subseteq 1 .. MaxEngines, raced' \subseteq 0 .. MaxEngines,
             UNCHANGED <<now, scheduler>>
      PROVE  TypeOK'
  <2>1. rotor' \in [Rotors -> RotorStates]
    BY <1>r DEF TypeOK
  <2>. QED
    BY <1>r, <2>1 DEF TypeOK, HistoryOK, scheduler
<1>n. ASSUME NEW t \in Types
      PROVE  LaterEvent(t) \in 0 .. MaxHistory - 1 /\ KeptDone(t) \in 0 .. MaxTime \cup {None}
  <2>1. newer[t] \in 0 .. MaxHistory - 1 /\ lastDone[t] \in 0 .. MaxTime \cup {None}
    BY DEF TypeOK
  <2>. QED
    BY <2>1, RotationAssumption DEF LaterEvent, KeptDone
<1>c. ASSUME NEW op \in {"start", "stop", "configure"}, NEW todo \in SUBSET Types, Call(op, todo)
      PROVE  admin' \in Calls /\ calls' \in 0 .. MaxCalls
  BY <1>c, RotationAssumption DEF Call, MayCall, Calls, TypeOK
<1>d. ASSUME NEW t \in Types, Done(t) PROVE admin' \in Calls /\ calls' \in 0 .. MaxCalls
  BY <1>d DEF Done, Calls, TypeOK
<1>1. CASE StartScheduler
  <2>1. admin' \in Calls /\ calls' \in 0 .. MaxCalls
    BY <1>1, <1>c DEF StartScheduler, TypeOK
  <2>. QED
    BY <1>1, <1>s, <2>1 DEF StartScheduler, TypeOK
<1>2. CASE StopScheduler
  <2>1. admin' \in Calls /\ calls' \in 0 .. MaxCalls
    BY <1>2, <1>c DEF StopScheduler
  <2>2. stopped' \subseteq Threads
    BY <1>2 DEF StopScheduler, TypeOK
  <2>. QED
    BY <1>2, <1>s, <2>1, <2>2 DEF StopScheduler, TypeOK
<1>3. CASE Return
  <2>1. admin' \in Calls
    BY <1>3 DEF Return, Idle, Calls
  <2>2. registered' \in [Types -> Threads \cup {None}] /\ lock' \in BOOLEAN
    BY <1>3 DEF Return, TypeOK
  <2>. QED
    BY <1>3, <1>s, <2>1, <2>2 DEF Return, TypeOK
<1>4. ASSUME NEW t \in Types, StartNext(t) PROVE TypeOK'
  <2>0. admin' \in Calls /\ calls' \in 0 .. MaxCalls
    BY <1>4, <1>d DEF StartNext
  <2>1. CASE registered[t] # None
    BY <1>4, <1>s, <2>0, <2>1 DEF StartNext, StartThread, TypeOK
  <2>2. CASE registered[t] = None
    <3>1. PICK w \in Unborn : /\ registered' = [registered EXCEPT ![t] = w]
                              /\ rotor' = [rotor EXCEPT ![w] = Waiting(t)]
      BY <1>4, <2>2 DEF StartNext, StartThread
    <3>2. w \in Threads /\ w \in Rotors
      BY <3>1 DEF Unborn, Rotors
    <3>3. rotor' \in [Rotors -> RotorStates]
      BY <3>1, <3>2, RotorTypes DEF TypeOK
    <3>4. registered' \in [Types -> Threads \cup {None}]
      BY <3>1, <3>2 DEF TypeOK
    <3>. QED
      BY <1>4, <2>0, <3>3, <3>4 DEF StartNext, TypeOK, engines, records
  <2>. QED
    BY <2>1, <2>2
<1>5. ASSUME NEW t \in Types, Join(t) PROVE TypeOK'
  BY <1>5, <1>d, <1>s DEF Join, TypeOK
<1>6. ASSUME NEW t \in Types, NEW on \in BOOLEAN, Configure(t, on) PROVE TypeOK'
  <2>1. stopped' \subseteq Threads /\ enabled' \subseteq Types
    BY <1>6 DEF Configure, TypeOK
  <2>2. Call("configure", {}) \/ Call("configure", {t})
    BY <1>6 DEF Configure
  <2>3. admin' \in Calls /\ calls' \in 0 .. MaxCalls
    BY <1>c, <2>2
  <2>. QED
    BY <1>6, <2>1, <2>2, <2>3 DEF Configure, TypeOK, engines, records
<1>7. ASSUME NEW w \in Threads, Ends(w) \/ Check(w) PROVE TypeOK'
  <2>1. rotor' = [rotor EXCEPT ![w] = [rotor[w] EXCEPT !.pc = "ended"]]
          \/ rotor' = [rotor EXCEPT ![w] = [rotor[w] EXCEPT !.pc = "due"]]
    BY <1>7 DEF Ends, Check, Goto, TypeOK, Rotors
  <2>2. w \in Rotors /\ rotor[w] \in RotorStates
    BY DEF Rotors, TypeOK
  <2>3. PICK state \in RotorStates : rotor' = [rotor EXCEPT ![w] = state]
    BY <2>1, <2>2, RotorMoves
  <2>4. UNCHANGED <<now, scheduler, engines, records>>
    BY <1>7 DEF Ends, Check
  <2>. QED
    BY <1>h, <1>r, <2>2, <2>3, <2>4 DEF TypeOK, HistoryOK, engines, records
<1>8. ASSUME NEW w \in Threads, LogPending(w) PROVE TypeOK'
  <2>1. rotor[w].type \in Types /\ now \in 0 .. MaxTime
    BY <1>8 DEF LogPending, At, Alive, ThreadsInv, TypeOK
  <2>2. Event(w, "pending", now) \in Records
    BY <2>1, EventType DEF Statuses
  <2>3. HistoryOK'
    BY <1>8, <1>h, <2>2, LoggedFacts DEF LogPending, HistoryOK
  <2>4. rotor' = [rotor EXCEPT ![w] = [rotor[w] EXCEPT !.pc = "rotating"]] /\ w \in Rotors
    BY <1>8 DEF LogPending, Goto, TypeOK, Rotors
  <2>5. [rotor[w] EXCEPT !.pc = "rotating"] \in RotorStates
    BY <2>4, RotorMoves DEF TypeOK
  <2>6. newer' \in [Types -> 0 .. MaxHistory - 1]
    BY <1>8, <1>n DEF LogPending
  <2>7. lastDone' \in [Types -> 0 .. MaxTime \cup {None}]
    BY <1>8, <1>n DEF LogPending
  <2>. QED
    BY <1>8, <1>r, <2>3, <2>4, <2>5, <2>6, <2>7 DEF LogPending, TypeOK, engines
<1>9. ASSUME NEW w \in Threads, LogOutcome(w) PROVE TypeOK'
  <2>1. rotor[w].type \in Types /\ w \in Rotors
    BY <1>9 DEF LogOutcome, At, Alive, ThreadsInv, Rotors
  <2>2. rotor[w].ok \in BOOLEAN /\ rotor[w].at \in 0 .. MaxTime
    BY <2>1 DEF TypeOK, RotorStates
  <2>3. Outcome(w, rotor[w].ok, rotor[w].at) \in Records
    BY <2>1, <2>2, OutcomeType
  <2>4. HistoryOK'
    BY <1>9, <1>h, <2>3, LoggedFacts DEF LogOutcome, HistoryOK
  <2>5. lastDone' \in [Types -> 0 .. MaxTime \cup {None}] /\ newer' \in [Types -> 0 .. MaxHistory - 1]
    BY <1>9, <1>n, <2>2, RotationAssumption DEF LogOutcome, TypeOK
  <2>6. rotor' = [rotor EXCEPT ![w] = Waiting(rotor[w].type)]
    BY <1>9 DEF LogOutcome
  <2>7. Waiting(rotor[w].type) \in RotorStates
    BY <2>1, RotorTypes
  <2>8. UNCHANGED <<now, scheduler, engines>>
    BY <1>9 DEF LogOutcome
  <2>. QED
    BY <1>r, <2>1, <2>4, <2>5, <2>6, <2>7, <2>8 DEF TypeOK, engines
<1>o. ASSUME NEW r \in Rotors, NEW ok \in BOOLEAN, Over(r, ok),
             At(r, "rotating") \/ At(r, "swapping"),
             UNCHANGED <<now, scheduler, made, lastDone, newer>>,
             engine' \in 0 .. MaxEngines, closing' \subseteq 1 .. MaxEngines,
             raced' \subseteq 0 .. MaxEngines
      PROVE  TypeOK'
  <2>1. r \in Threads => rotor[r].type \in Types
    BY <1>o DEF At, Alive, ThreadsInv
  <2>2. HistoryOK'
    BY <1>o, <1>h, <2>1, OverFacts DEF TypeOK
  <2>3. \/ rotor' = [rotor EXCEPT ![r] = Away]
        \/ rotor' = [rotor EXCEPT ![r] = [Waiting(rotor[r].type) EXCEPT
                                            !.pc = "logging", !.ok = ok, !.at = now]]
    BY <1>o DEF Over
  <2>4. rotor[r].type \in Types \cup {None} /\ now \in 0 .. MaxTime
    BY <1>o DEF TypeOK, RotorStates
  <2>5. [Waiting(rotor[r].type) EXCEPT !.pc = "logging", !.ok = ok, !.at = now] \in RotorStates
    BY <1>o, <2>4, RotorTypes, RotorMoves
  <2>6. PICK state \in RotorStates : rotor' = [rotor EXCEPT ![r] = state]
    BY <2>3, <2>5, RotorTypes
  <2>. QED
    BY <1>o, <1>r, <2>2, <2>6 DEF TypeOK
<1>10. ASSUME NEW w \in Threads, RotationFails(w) \/ KeysWritten(w) PROVE TypeOK'
  BY <1>10, <1>o DEF RotationFails, KeysWritten, Rotors, engines, TypeOK
<1>11. ASSUME NEW r \in Rotors, MakeEngine(r) PROVE TypeOK'
  <2>1. made + 1 \in 0 .. MaxEngines /\ engine \in 0 .. MaxEngines
    BY <1>11, RotationAssumption DEF MakeEngine, TypeOK
  <2>2. [Away EXCEPT !.pc = "swapping", !.type = Database, !.old = engine, !.new = made + 1] \in RotorStates
    BY <2>1, RotorTypes, RotorMoves
  <2>3. HistoryOK'
    BY <1>11, <1>h DEF MakeEngine, records, HistoryOK
  <2>5. UNCHANGED <<now, scheduler, engine, closing, raced, records>>
    BY <1>11 DEF MakeEngine
  <2>6. PICK state \in RotorStates : rotor' = [rotor EXCEPT ![r] = state]
    BY <1>11, <2>2 DEF MakeEngine
  <2>7. made' \in 0 .. MaxEngines
    BY <1>11, <2>1 DEF MakeEngine
  <2>. QED
    BY <1>r, <2>3, <2>5, <2>6, <2>7 DEF TypeOK, records
<1>12. ASSUME NEW r \in Rotors, EngineSwapped(r) PROVE TypeOK'
  <2>0. rotor[r].new \in 0 .. MaxEngines /\ rotor[r].old \in 0 .. MaxEngines
    BY DEF TypeOK, RotorStates
  <2>1. closing \cup Replaced(r) \subseteq 1 .. MaxEngines
    <3>1. closing \subseteq 1 .. MaxEngines
      BY DEF TypeOK
    <3>2. Replaced(r) \subseteq 1 .. MaxEngines
      BY <2>0, RotationAssumption DEF Replaced
    <3>. QED
      BY <3>1, <3>2
  <2>2. raced' \subseteq 0 .. MaxEngines
    <3>1. raced' = raced \/ raced' = raced \cup {rotor[r].new}
      BY <1>12 DEF EngineSwapped
    <3>2. raced \subseteq 0 .. MaxEngines
      BY DEF TypeOK
    <3>. QED
      BY <2>0, <3>1, <3>2
  <2>3. Over(r, TRUE) /\ At(r, "swapping") /\ engine' = rotor[r].new
        /\ closing' = closing \cup Replaced(r)
        /\ UNCHANGED <<now, scheduler, made, lastDone, newer>>
    BY <1>12 DEF EngineSwapped
  <2>. QED
    BY <1>o, <2>0, <2>1, <2>2, <2>3
<1>13. CASE Tick
  <2>1. now' \in 0 .. MaxTime
    BY <1>13, RotationAssumption DEF Tick, TypeOK
  <2>. QED
    BY <1>13, <2>1 DEF Tick, TypeOK, scheduler, engines, records
<1>14. CASE AdminStep
  BY <1>1, <1>2, <1>3, <1>4, <1>5, <1>6, <1>14 DEF AdminStep, CallGoesOn
<1>15. ASSUME NEW w \in Threads, ThreadStep(w) PROVE TypeOK'
  BY <1>7, <1>8, <1>9, <1>10, <1>11, <1>12, <1>15 DEF ThreadStep, EngineMade, Rotors
<1>16. ASSUME NEW c \in Callers, CallerStep(c) PROVE TypeOK'
  BY <1>11, <1>12, <1>16 DEF CallerStep, ForceRotation, Rotors
<1>. QED
  BY <1>u, <1>13, <1>14, <1>15, <1>16 DEF Next

LEMMA ThreadsStep ==
  ASSUME TypeOK, ThreadsInv, NoStrayThread, [Next]_vars
  PROVE  ThreadsInv' /\ NoStrayThread'
<1>k. ASSUME NEW w \in Threads
      PROVE  /\ w \in Rotors /\ w # None /\ w \notin Callers
             /\ rotor[w].pc \in {"away", "waiting", "due", "rotating", "swapping", "logging", "ended"}
  BY <1>k, RotationAssumption DEF Rotors, TypeOK, RotorStates
<1>d. DOMAIN rotor = Rotors /\ DOMAIN registered = Types /\ stopped \subseteq Threads
  BY DEF TypeOK
<1>u. ASSUME UNCHANGED <<rotor, stopped, registered>>,
             admin'.op = "stop" => admin.op = "stop"
      PROVE  ThreadsInv' /\ NoStrayThread'
  BY <1>u DEF ThreadsInv, NoStrayThread, Alive, At
\* A thread that was started moves on, of the same type.
<1>m. ASSUME NEW r \in Rotors, UNCHANGED scheduler,
             \A s \in Rotors : s # r => rotor'[s] = rotor[s],
             r \in Threads => /\ rotor'[r].pc # "away"
                              /\ Alive(r) /\ rotor'[r].type = rotor[r].type
      PROVE  ThreadsInv' /\ NoStrayThread'
  <2>1. \A w \in Threads : /\ Alive(w)' => Alive(w) /\ rotor'[w].type = rotor[w].type
                           /\ ~At(w, "away") => ~At(w, "away")'
    BY <1>m, <1>k DEF Alive, At
  <2>2. UNCHANGED <<registered, stopped, admin>>
    BY <1>m DEF scheduler
  <2>3. \A t \in Types : registered[t] # None => registered[t] \in Threads
    BY DEF TypeOK
  <2>4. ThreadsInv'
    <3>1. \A w \in Threads : Alive(w)' => rotor'[w].type \in Types
      BY <2>1 DEF ThreadsInv
    <3>2. \A w \in stopped' : ~At(w, "away")'
      BY <1>d, <2>1, <2>2 DEF ThreadsInv
    <3>3. \A t \in Types : registered'[t] # None => rotor'[registered'[t]].pc # "away"
      BY <2>1, <2>2, <2>3 DEF ThreadsInv, At
    <3>4. admin'.op = "stop" => \A w \in Threads : Alive(w)' => w \in stopped'
      BY <2>1, <2>2 DEF ThreadsInv
    <3>. QED
      BY <3>1, <3>2, <3>3, <3>4 DEF ThreadsInv, At
  <2>. QED
    BY <2>1, <2>2, <2>4 DEF NoStrayThread
<1>1. CASE StartScheduler
  BY <1>1, <1>u DEF StartScheduler, Call
<1>2. CASE StopScheduler
  <2>1. stopped' = stopped \cup {registered[t] : t \in {s \in Types : registered[s] # None}}
    BY <1>2 DEF StopScheduler
  <2>2. UNCHANGED <<rotor, registered>>
    BY <1>2 DEF StopScheduler
  <2>3. \A w \in Threads : Alive(w) => w \in stopped'
    <3> SUFFICES ASSUME NEW w \in Threads, Alive(w), w \notin stopped PROVE w \in stopped'
      BY <2>1
    <3>1. rotor[w].type \in Types /\ registered[rotor[w].type] = w
      BY DEF ThreadsInv, NoStrayThread
    <3>. QED
      BY <2>1, <3>1, <1>k
  <2>4. \A w \in stopped' : ~At(w, "away")
    BY <2>1 DEF ThreadsInv
  <2>. QED
    BY <2>1, <2>2, <2>3, <2>4 DEF ThreadsInv, NoStrayThread, Alive, At
<1>3. CASE Return
  <2>1. UNCHANGED <<rotor, stopped>> /\ admin'.op = "none"
    BY <1>3 DEF Return, Idle
  <2>2. CASE admin.op = "stop"
    <3>1. \A t \in Types : registered'[t] = None
      BY <1>3, <2>2 DEF Return
    <3>2. \A w \in Threads : Alive(w) => w \in stopped
      BY <2>2 DEF ThreadsInv
    <3>. QED
      BY <2>1, <3>1, <3>2 DEF ThreadsInv, NoStrayThread, Alive, At
  <2>3. CASE admin.op # "stop"
    BY <1>3, <1>u, <2>1, <2>3 DEF Return
  <2>. QED
    BY <2>2, <2>3
<1>4. ASSUME NEW t \in Types, StartNext(t) PROVE ThreadsInv' /\ NoStrayThread'
  <2>1. UNCHANGED stopped /\ admin'.op = admin.op
    BY <1>4 DEF StartNext, Done, TypeOK, Calls
  <2>2. CASE registered[t] # None
    BY <1>4, <1>u, <2>1, <2>2 DEF StartNext, StartThread
  <2>3. CASE registered[t] = None
    <3>1. PICK w \in Unborn : /\ registered' = [registered EXCEPT ![t] = w]
                              /\ rotor' = [rotor EXCEPT ![w] = Waiting(t)]
      BY <1>4, <2>3 DEF StartNext, StartThread
    <3>2. w \in Threads /\ w \in Rotors /\ At(w, "away") /\ w # None
      BY <1>k, <3>1 DEF Unborn
    <3>3. rotor'[w] = Waiting(t) /\ \A s \in Rotors : s # w => rotor'[s] = rotor[s]
      BY <1>d, <3>1, <3>2
    <3>4. Waiting(t).pc = "waiting" /\ Waiting(t).type = t
      BY DEF Waiting, Away
    <3>5. registered'[t] = w /\ \A s \in Types : s # t => registered'[s] = registered[s]
      BY <1>d, <3>1
    <3>6. admin.op # "stop" /\ w \notin stopped
      BY <1>4, <3>2 DEF StartNext, ThreadsInv
    <3>7. \A s \in Threads : ~At(s, "away") => ~At(s, "away")'
      BY <1>k, <3>2, <3>3 DEF At
    <3>8. \A s \in Threads : s # w /\ Alive(s)' => Alive(s) /\ rotor'[s].type = rotor[s].type
      BY <1>k, <3>3 DEF Alive, At
    <3>9. ~At(w, "away")' /\ rotor'[w].type = t
      BY <3>3, <3>4 DEF At
    <3>10. ThreadsInv'
      <4>1. \A s \in Threads : Alive(s)' => rotor'[s].type \in Types
        BY <3>8, <3>9 DEF ThreadsInv
      <4>2. \A s \in stopped' : ~At(s, "away")'
        BY <1>d, <2>1, <3>7 DEF ThreadsInv
      <4>3. \A s \in Types : registered'[s] # None => rotor'[registered'[s]].pc # "away"
        <5>1. \A s \in Types : registered[s] # None => registered[s] \in Threads
          BY DEF TypeOK
        <5>2. \A s \in Types : registered[s] # None => ~At(registered[s], "away")
          BY DEF ThreadsInv
        <5>. QED
          BY <3>5, <3>7, <3>9, <5>1, <5>2 DEF At
      <4>. QED
        BY <2>1, <3>6, <4>1, <4>2, <4>3 DEF ThreadsInv, At
    <3>11. NoStrayThread'
      <4> SUFFICES ASSUME NEW s \in Threads, Alive(s)', s \notin stopped'
                   PROVE  registered'[rotor'[s].type] = s
        BY DEF NoStrayThread
      <4>1. CASE s = w
        BY <3>5, <3>9, <4>1
      <4>2. CASE s # w
        <5>1. Alive(s) /\ rotor'[s].type = rotor[s].type
          BY <3>8, <4>2
        <5>2. rotor[s].type \in Types /\ registered[rotor[s].type] = s
          BY <2>1, <5>1 DEF ThreadsInv, NoStrayThread
        <5>. QED
          BY <1>k, <2>3, <3>5, <5>1, <5>2
      <4>. QED
        BY <4>1, <4>2
    <3>. QED
      BY <3>10, <3>11
  <2>. QED
    BY <2>2, <2>3
<1>5. ASSUME NEW t \in Types, Join(t) PROVE ThreadsInv' /\ NoStrayThread'
  BY <1>5, <1>u DEF Join, Done, TypeOK, Calls
<1>6. ASSUME NEW t \in Types, NEW on \in BOOLEAN, Configure(t, on)
      PROVE  ThreadsInv' /\ NoStrayThread'
  <2>1. UNCHANGED <<rotor, registered>> /\ admin'.op # "stop"
    BY <1>6 DEF Configure, Call
  <2>2. stopped' = stopped \/ (registered[t] # None /\ stopped' = stopped \cup {registered[t]})
    BY <1>6 DEF Configure
  <2>. QED
    BY <2>1, <2>2 DEF ThreadsInv, NoStrayThread, Alive, At
<1>7. ASSUME NEW w \in Threads, NEW pc \in {"ended", "due", "rotating"}, Alive(w),
             Goto(w, pc), UNCHANGED scheduler
      PROVE  ThreadsInv' /\ NoStrayThread'
  <2>1. /\ rotor'[w] = [rotor[w] EXCEPT !.pc = pc]
        /\ \A s \in Rotors : s # w => rotor'[s] = rotor[s]
    BY <1>7, <1>d, <1>k DEF Goto
  <2>2. rotor[w] \in RotorStates
    BY <1>k DEF TypeOK
  <2>3. rotor'[w].pc = pc /\ rotor'[w].type = rotor[w].type
    BY <2>1, <2>2 DEF RotorStates
  <2>. QED
    BY <1>7, <1>k, <1>m, <2>1, <2>3
<1>8. ASSUME NEW r \in Rotors, NEW state, rotor' = [rotor EXCEPT ![r] = state],
             UNCHANGED scheduler,
             r \in Threads => Alive(r) /\ state.pc # "away" /\ state.type = rotor[r].type
      PROVE  ThreadsInv' /\ NoStrayThread'
  <2>1. rotor'[r] = state /\ \A s \in Rotors : s # r => rotor'[s] = rotor[s]
    BY <1>8, <1>d
  <2>. QED
    BY <1>8, <1>m, <2>1
<1>9. ASSUME NEW w \in Threads, Ends(w) \/ Check(w) \/ LogPending(w)
      PROVE  ThreadsInv' /\ NoStrayThread'
  <2>1. Alive(w) /\ UNCHANGED scheduler
    BY <1>9 DEF Ends, Check, LogPending, Alive, At
  <2>2. Goto(w, "ended") \/ Goto(w, "due") \/ Goto(w, "rotating")
    BY <1>9 DEF Ends, Check, LogPending
  <2>. QED
    BY <1>7, <2>1, <2>2
<1>10. ASSUME NEW w \in Threads, LogOutcome(w) PROVE ThreadsInv' /\ NoStrayThread'
  <2>1. Alive(w) /\ UNCHANGED scheduler /\ rotor' = [rotor EXCEPT ![w] = Waiting(rotor[w].type)]
    BY <1>10 DEF LogOutcome, Alive, At
  <2>2. Waiting(rotor[w].type).pc = "waiting" /\ Waiting(rotor[w].type).type = rotor[w].type
    BY DEF Waiting, Away
  <2>. QED
    BY <1>8, <1>k, <2>1, <2>2
<1>11. ASSUME NEW r \in Rotors, NEW ok, Over(r, ok), UNCHANGED scheduler,
              At(r, "rotating") \/ At(r, "swapping")
       PROVE  ThreadsInv' /\ NoStrayThread'
  <2>1. CASE r \in Callers
    <3>1. rotor' = [rotor EXCEPT ![r] = Away] /\ r \notin Threads
      BY <1>11, <2>1, RotationAssumption DEF Over
    <3>. QED
      BY <1>8, <1>11, <3>1
  <2>2. CASE r \notin Callers
    <3> DEFINE state == [Waiting(rotor[r].type) EXCEPT !.pc = "logging", !.ok = ok, !.at = now]
    <3>1. rotor' = [rotor EXCEPT ![r] = state] /\ Alive(r)
      BY <1>11, <2>2 DEF Over, Alive, At
    <3>2. state.pc = "logging" /\ state.type = rotor[r].type
      BY DEF Waiting, Away
    <3> HIDE DEF state
    <3>. QED
      BY <1>8, <1>11, <3>1, <3>2
  <2>. QED
    BY <2>1, <2>2
<1>12. ASSUME NEW w \in Threads, RotationFails(w) \/ KeysWritten(w) PROVE ThreadsInv' /\ NoStrayThread'
  BY <1>11, <1>12, <1>k DEF RotationFails, KeysWritten
<1>13. ASSUME NEW r \in Rotors, EngineSwapped(r) PROVE ThreadsInv' /\ NoStrayThread'
  BY <1>11, <1>13 DEF EngineSwapped
<1>14. ASSUME NEW r \in Rotors, MakeEngine(r),
              r \in Threads => Alive(r) /\ rotor[r].type = Database
       PROVE  ThreadsInv' /\ NoStrayThread'
  <2> DEFINE state == [Away EXCEPT !.pc = "swapping", !.type = Database,
                                  !.old = engine, !.new = made + 1]
  <2>1. rotor' = [rotor EXCEPT ![r] = state] /\ UNCHANGED scheduler
    BY <1>14 DEF MakeEngine
  <2>2. state.pc = "swapping" /\ state.type = Database
    BY DEF Away
  <2> HIDE DEF state
  <2>. QED
    BY <1>8, <1>14, <2>1, <2>2
<1>15. ASSUME NEW w \in Threads, EngineMade(w) PROVE ThreadsInv' /\ NoStrayThread'
  BY <1>14, <1>15, <1>k DEF EngineMade, Alive, At
<1>16. ASSUME NEW c \in Callers, ForceRotation(c) PROVE ThreadsInv' /\ NoStrayThread'
  BY <1>14, <1>16, RotationAssumption DEF ForceRotation, Rotors
<1>17. CASE AdminStep
  BY <1>1, <1>2, <1>3, <1>4, <1>5, <1>6, <1>17 DEF AdminStep, CallGoesOn
<1>18. ASSUME NEW w \in Threads, ThreadStep(w) PROVE ThreadsInv' /\ NoStrayThread'
  BY <1>9, <1>10, <1>12, <1>13, <1>15, <1>18, <1>k DEF ThreadStep
<1>19. ASSUME NEW c \in Callers, CallerStep(c) PROVE ThreadsInv' /\ NoStrayThread'
  BY <1>13, <1>16, <1>19 DEF CallerStep, Rotors
<1>20. CASE Tick
  BY <1>20, <1>u DEF Tick, scheduler
<1>21. CASE UNCHANGED vars
  BY <1>21, <1>u DEF vars, scheduler
<1>. QED
  BY <1>17, <1>18, <1>19, <1>20, <1>21 DEF Next

-----------------------------------------------------------------------------
(* The engines.                                                            *)

LEMMA EnginesInit == Init => EnginesInv /\ RacedInv /\ ReplacedEnginesClosed /\ ActiveEngineKept
<1> SUFFICES ASSUME Init PROVE EnginesInv /\ RacedInv /\ ReplacedEnginesClosed /\ ActiveEngineKept
  OBVIOUS
<1>1. Swapping = {}
  BY DEF Init, Swapping, At, Away
<1>. QED
  BY <1>1 DEF Init, EnginesInv, RacedInv, ReplacedEnginesClosed, ActiveEngineKept

LEMMA EnginesStep ==
  ASSUME TypeOK, EnginesInv, RacedInv, ReplacedEnginesClosed, ActiveEngineKept, [Next]_vars
  PROVE  EnginesInv' /\ RacedInv' /\ ReplacedEnginesClosed' /\ ActiveEngineKept'
<1> DEFINE Goal == EnginesInv' /\ RacedInv' /\ ReplacedEnginesClosed' /\ ActiveEngineKept'
<1>k. /\ engine \in Nat /\ made \in Nat /\ DOMAIN rotor = Rotors /\ Threads \subseteq Rotors
      /\ Callers \subseteq Rotors
      /\ \A r \in Rotors : rotor[r] \in RotorStates
  BY RotationAssumption DEF TypeOK, Rotors
\* Nothing changes that the properties speak of.
<1>s. ASSUME UNCHANGED engines,
             \A r \in Rotors : At(r, "swapping") <=> At(r, "swapping")',
             \A r \in Rotors : At(r, "swapping") => rotor'[r] = rotor[r]
      PROVE  Goal
  <2>1. Swapping' = Swapping /\ \A r \in Swapping : rotor'[r] = rotor[r]
    BY <1>s DEF Swapping
  <2>2. UNCHANGED <<engine, made, closing, raced>>
    BY <1>s DEF engines
  <2>3. EnginesInv' /\ RacedInv'
    BY <2>1, <2>2 DEF EnginesInv, RacedInv
  <2>4. ReplacedEnginesClosed'
    BY <1>s, <2>2 DEF ReplacedEnginesClosed
  <2>. QED
    BY <2>2, <2>3, <2>4 DEF ActiveEngineKept
<1>m. ASSUME NEW r \in Rotors, NEW state, rotor' = [rotor EXCEPT ![r] = state],
             ~At(r, "swapping"), state.pc # "swapping", UNCHANGED engines
      PROVE  Goal
  <2>1. rotor'[r] = state /\ \A s \in Rotors : s # r => rotor'[s] = rotor[s]
    BY <1>m, <1>k
  <2>. QED
    BY <1>m, <1>s, <2>1 DEF At
<1>p. ASSUME NEW w \in Threads, NEW pc \in {"ended", "due", "rotating"}, Goto(w, pc),
             ~At(w, "swapping"), UNCHANGED engines
      PROVE  Goal
  <2>1. rotor' = [rotor EXCEPT ![w] = [rotor[w] EXCEPT !.pc = pc]]
    BY <1>p, <1>k DEF Goto
  <2>2. [rotor[w] EXCEPT !.pc = pc].pc = pc
    BY <1>k DEF RotorStates
  <2>. QED
    BY <1>p, <1>k, <1>m, <2>1, <2>2
<1>o. ASSUME NEW r \in Rotors, NEW ok, Over(r, ok)
      PROVE  \E state : rotor' = [rotor EXCEPT ![r] = state] /\ state.pc # "swapping"
  <2>1. Away.pc = "away"
    BY DEF Away
  <2>2. [Waiting(rotor[r].type) EXCEPT !.pc = "logging", !.ok = ok, !.at = now].pc = "logging"
    BY DEF Waiting, Away
  <2>. QED
    BY <1>o, <2>1, <2>2 DEF Over
<1>1. ASSUME AdminStep, ~\E t \in Types : StartNext(t) PROVE Goal
  <2>1. UNCHANGED rotor /\ UNCHANGED engines
    BY <1>1 DEF AdminStep, CallGoesOn, StartScheduler, StopScheduler, Return, Join, Configure
  <2>. QED
    BY <1>s, <2>1 DEF At
<1>2. ASSUME NEW t \in Types, StartNext(t) PROVE Goal
  <2>0. UNCHANGED engines
    BY <1>2 DEF StartNext
  <2>1. CASE UNCHANGED rotor
    BY <1>s, <2>0, <2>1 DEF At
  <2>2. CASE ~UNCHANGED rotor
    <3>1. PICK w \in Unborn : rotor' = [rotor EXCEPT ![w] = Waiting(t)]
      BY <1>2, <2>2 DEF StartNext, StartThread
    <3>2. w \in Rotors /\ ~At(w, "swapping") /\ Waiting(t).pc = "waiting"
      BY <1>k, <3>1 DEF Unborn, At, Waiting, Away
    <3>. QED
      BY <1>m, <2>0, <3>1, <3>2
  <2>. QED
    BY <2>1, <2>2
<1>3. ASSUME NEW w \in Threads, Ends(w) \/ Check(w) \/ LogPending(w) PROVE Goal
  <2>1. Goto(w, "ended") \/ Goto(w, "due") \/ Goto(w, "rotating")
    BY <1>3 DEF Ends, Check, LogPending
  <2>2. ~At(w, "swapping") /\ UNCHANGED engines
    BY <1>3 DEF Ends, Check, LogPending, At
  <2>. QED
    BY <1>p, <2>1, <2>2
<1>4. ASSUME NEW w \in Threads, LogOutcome(w) PROVE Goal
  <2>1. /\ rotor' = [rotor EXCEPT ![w] = Waiting(rotor[w].type)]
        /\ ~At(w, "swapping") /\ UNCHANGED engines
    BY <1>4 DEF LogOutcome, At
  <2>2. Waiting(rotor[w].type).pc = "waiting"
    BY DEF Waiting, Away
  <2>. QED
    BY <1>m, <1>k, <2>1, <2>2
<1>5. ASSUME NEW w \in Threads, RotationFails(w) \/ KeysWritten(w) PROVE Goal
  <2>1. ~At(w, "swapping") /\ UNCHANGED engines /\ (Over(w, TRUE) \/ Over(w, FALSE))
    BY <1>5 DEF RotationFails, KeysWritten, At
  <2>2. \E state : rotor' = [rotor EXCEPT ![w] = state] /\ state.pc # "swapping"
    BY <1>o, <1>k, <2>1
  <2>. QED
    BY <1>k, <1>m, <2>1, <2>2
<1>6. ASSUME NEW r \in Rotors, MakeEngine(r), ~At(r, "swapping") PROVE Goal
  <2> DEFINE state == [Away EXCEPT !.pc = "swapping", !.type = Database,
                                  !.old = engine, !.new = made + 1]
  <2>1. state.pc = "swapping" /\ state.old = engine /\ state.new = made + 1
    BY DEF Away
  <2>2. /\ rotor' = [rotor EXCEPT ![r] = state] /\ made' = made + 1
        /\ engine' = engine /\ closing' = closing /\ raced' = raced
    BY <1>6 DEF MakeEngine
  <2> HIDE DEF state
  <2>3. rotor'[r] = state /\ \A s \in Rotors : s # r => rotor'[s] = rotor[s]
    BY <1>k, <2>2
  <2>4. Swapping' = Swapping \cup {r} /\ r \notin Swapping
    BY <1>6, <2>1, <2>3 DEF Swapping, At
  <2>5. \A s \in Swapping : s \in Rotors /\ s # r /\ rotor'[s] = rotor[s]
    BY <2>3, <2>4 DEF Swapping
  <2>6. EnginesInv'
    <3>1. engine' <= made' /\ closing' \subseteq 1 .. made'
      BY <1>k, <2>2 DEF EnginesInv
    <3>2. \A s \in Swapping' : /\ rotor'[s].new \in 1 .. made' /\ rotor'[s].old \in 0 .. made'
                               /\ rotor'[s].new # engine' /\ rotor'[s].new \notin closing'
      BY <1>k, <2>1, <2>2, <2>3, <2>4, <2>5 DEF EnginesInv
    <3>3. \A s \in Swapping' : rotor'[s].old <= made
      BY <1>k, <2>1, <2>3, <2>4, <2>5 DEF EnginesInv
    <3>4. \A s \in Swapping : rotor[s].new # engine /\ rotor[s].new <= made
      BY <1>k DEF EnginesInv
    <3>5. ASSUME NEW s \in Swapping', NEW q \in Swapping'
          PROVE  rotor'[s].new # rotor'[q].old /\ (s # q => rotor'[s].new # rotor'[q].new)
      <4>1. CASE s = r
        <5>1. rotor'[s].new = made + 1 /\ rotor'[q].old <= made /\ rotor'[q].old \in Nat
          BY <2>1, <2>2, <2>3, <3>2, <3>3, <4>1, <3>5, <1>k
        <5>2. s # q => rotor'[q].new <= made /\ rotor'[q].new \in Int
          BY <2>4, <2>5, <3>2, <3>4, <4>1, <3>5
        <5>. QED
          BY <1>k, <5>1, <5>2
      <4>2. CASE s # r /\ q = r
        BY <1>k, <2>1, <2>3, <2>4, <2>5, <3>4, <3>5, <4>2
      <4>3. CASE s # r /\ q # r
        BY <2>4, <2>5, <3>5, <4>3 DEF EnginesInv
      <4>. QED
        BY <4>1, <4>2, <4>3
    <3>. QED
      BY <3>1, <3>2, <3>5 DEF EnginesInv
  <2>7. RacedInv'
    BY <2>1, <2>2, <2>3, <2>4, <2>5 DEF RacedInv
  <2>8. ASSUME NEW e \in 1 .. made'
        PROVE  \/ e = engine' \/ e \in closing' \/ e \in raced'
               \/ \E s \in Swapping' : e = rotor'[s].new
    <3>1. e = made + 1 \/ e \in 1 .. made
      BY <1>k, <2>2, <2>8
    <3>2. CASE e = made + 1
      BY <2>1, <2>3, <2>4, <3>2
    <3>3. CASE e \in 1 .. made
      <4>1. \/ e = engine \/ e \in closing \/ e \in raced
            \/ \E s \in Swapping : e = rotor[s].new
        BY <3>3 DEF ReplacedEnginesClosed, Swapping
      <4>. QED
        BY <2>2, <2>4, <2>5, <4>1
    <3>. QED
      BY <3>1, <3>2, <3>3
  <2>9. ReplacedEnginesClosed'
    BY <2>8 DEF ReplacedEnginesClosed, Swapping
  <2>. QED
    BY <2>2, <2>6, <2>7, <2>9 DEF ActiveEngineKept
<1>7. ASSUME NEW r \in Rotors, EngineSwapped(r) PROVE Goal
  <2>1. PICK state : rotor' = [rotor EXCEPT ![r] = state] /\ state.pc # "swapping"
    BY <1>7, <1>o DEF EngineSwapped
  <2>2. /\ engine' = rotor[r].new /\ closing' = closing \cup Replaced(r)
        /\ made' = made /\ At(r, "swapping")
    BY <1>7 DEF EngineSwapped
  <2>r. raced' = IF \E s \in Rotors \ {r} : At(s, "swapping")
                 THEN raced \cup {rotor[r].new} ELSE raced
    BY <1>7 DEF EngineSwapped
  <2>3. rotor'[r] = state /\ \A s \in Rotors : s # r => rotor'[s] = rotor[s]
    BY <1>k, <2>1
  <2>4. Swapping' = Swapping \ {r} /\ r \in Swapping
    BY <2>1, <2>2, <2>3 DEF Swapping, At
  <2>5. \A s \in Swapping' : s \in Swapping /\ s # r /\ rotor'[s] = rotor[s]
    BY <2>3, <2>4 DEF Swapping
  <2>6. \A e : e \in Replaced(r) <=> e = rotor[r].old /\ e # 0
    BY DEF Replaced
  <2>7. rotor[r].new \in 1 .. made /\ rotor[r].old \in 0 .. made
    BY <2>4 DEF EnginesInv
  <2>8. EnginesInv'
    <3>1. engine' <= made' /\ closing' \subseteq 1 .. made'
      <4>1. closing \subseteq 1 .. made
        BY DEF EnginesInv
      <4>2. rotor[r].old # 0 => rotor[r].old \in 1 .. made
        BY <1>k, <2>7
      <4>3. Replaced(r) \subseteq 1 .. made
        BY <2>6, <4>2
      <4>4. rotor[r].new <= made
        BY <1>k, <2>7
      <4>. QED
        BY <2>2, <4>1, <4>3, <4>4
    <3>2. ASSUME NEW s \in Swapping'
          PROVE  /\ rotor'[s].new \in 1 .. made' /\ rotor'[s].old \in 0 .. made'
                 /\ rotor'[s].new # engine' /\ rotor'[s].new \notin closing'
      <4>1. s \in Swapping /\ s # r /\ rotor'[s] = rotor[s]
        BY <2>5
      <4>2. /\ rotor[s].new \in 1 .. made /\ rotor[s].old \in 0 .. made
            /\ rotor[s].new # rotor[r].new /\ rotor[s].new \notin closing
            /\ rotor[s].new # rotor[r].old
        BY <2>4, <4>1 DEF EnginesInv
      <4>. QED
        BY <2>2, <2>6, <4>1, <4>2
    <3>3. ASSUME NEW s \in Swapping', NEW q \in Swapping'
          PROVE  rotor'[s].new # rotor'[q].old /\ (s # q => rotor'[s].new # rotor'[q].new)
      BY <2>5, <3>3 DEF EnginesInv
    <3>. QED
      BY <3>1, <3>2, <3>3 DEF EnginesInv
  <2>9. ActiveEngineKept'
    BY <2>2, <2>4, <2>6 DEF EnginesInv, ActiveEngineKept
  <2>10. RacedInv'
    <3>1. ASSUME NEW s \in Swapping' PROVE rotor[r].new \in raced'
      <4>1. s \in Rotors \ {r} /\ At(s, "swapping")
        BY <2>5, <3>1 DEF Swapping
      <4>. QED
        BY <2>r, <4>1
    <3>. QED
      BY <2>2, <3>1 DEF RacedInv
  <2>11. ReplacedEnginesClosed'
    <3> SUFFICES ASSUME NEW e \in 1 .. made
                 PROVE  \/ e = engine' \/ e \in closing' \/ e \in raced'
                        \/ \E s \in Swapping' : e = rotor'[s].new
      BY <2>2 DEF ReplacedEnginesClosed, Swapping
    <3>1. raced \subseteq raced' /\ closing \subseteq closing'
      BY <2>2, <2>r
    <3>2. CASE e = engine
      <4>1. rotor[r].old = engine \/ engine \in raced
        BY <2>4 DEF RacedInv
      <4>. QED
        BY <1>k, <2>2, <2>6, <3>1, <3>2, <4>1
    <3>3. CASE e \in closing \/ e \in raced
      BY <3>1, <3>3
    <3>4. ASSUME NEW s \in Swapping, e = rotor[s].new
          PROVE  e = engine' \/ \E q \in Swapping' : e = rotor'[q].new
      <4>1. CASE s = r
        BY <2>2, <3>4, <4>1
      <4>2. CASE s # r
        BY <2>4, <2>5, <3>4, <4>2
      <4>. QED
        BY <4>1, <4>2
    <3>. QED
      BY <3>2, <3>3, <3>4 DEF ReplacedEnginesClosed, Swapping
  <2>. QED
    BY <2>8, <2>9, <2>10, <2>11
<1>8. ASSUME NEW w \in Threads, EngineMade(w) PROVE Goal
  BY <1>6, <1>8, <1>k DEF EngineMade, At
<1>9. ASSUME NEW c \in Callers, CallerStep(c) PROVE Goal
  BY <1>6, <1>7, <1>9, <1>k DEF CallerStep, ForceRotation, At
<1>10. ASSUME NEW w \in Threads, ThreadStep(w) PROVE Goal
  BY <1>3, <1>4, <1>5, <1>7, <1>8, <1>10, <1>k DEF ThreadStep
<1>11. ASSUME Tick \/ UNCHANGED vars PROVE Goal
  <2>1. UNCHANGED rotor /\ UNCHANGED engines
    BY <1>11 DEF Tick, vars
  <2>. QED
    BY <1>s, <2>1 DEF At
<1> HIDE DEF Goal
<1>12. Goal
  BY <1>1, <1>2, <1>9, <1>10, <1>11 DEF Next
<1>. QED
  BY <1>12 DEF Goal

-----------------------------------------------------------------------------
(* The history keeps the last rotation.                                    *)

LEMMA RecordsStep ==
  ASSUME TypeOK, ThreadsInv, RecordsInv, [Next]_vars
  PROVE  RecordsInv'
<1>k. HistoryOK /\ Threads \subseteq Rotors
  BY TypeGivesHistory DEF Rotors
<1>n. Len(history) \in Nat /\ MaxHistory \in Nat \ {0} /\ \A t \in Types : newer[t] \in Nat
  BY RotationAssumption DEF TypeOK
<1>u. ASSUME UNCHANGED records PROVE RecordsInv'
  BY <1>u DEF records, RecordsInv
\* An event logged behind the last completion of a type counts as newer.
<1>l. ASSUME NEW event \in Records, history' = Logged(event), NEW t \in Types,
             lastDone'[t] = KeptDone(t), newer'[t] = LaterEvent(t), lastDone'[t] # None
      PROVE  /\ newer'[t] < Len(history')
             /\ history'[Len(history') - newer'[t]].type = t
             /\ history'[Len(history') - newer'[t]].status = "completed"
             /\ history'[Len(history') - newer'[t]].at = lastDone'[t]
             /\ history'[Len(history') - newer'[t]].by = None
  <2> DEFINE k == newer[t]
  <2>0. k \in 0 .. MaxHistory - 1
    BY DEF TypeOK
  <2>1. /\ k \in Nat /\ newer'[t] = k + 1 /\ k + 1 < MaxHistory
        /\ lastDone[t] # None /\ lastDone'[t] = lastDone[t]
    BY <1>l, <1>n, <2>0 DEF LaterEvent, KeptDone
  <2>2. /\ k < Len(history)
        /\ history[Len(history) - k].type = t
        /\ history[Len(history) - k].status = "completed"
        /\ history[Len(history) - k].at = lastDone[t]
        /\ history[Len(history) - k].by = None
    BY <1>l, <2>1 DEF RecordsInv
  <2> HIDE DEF k
  <2>3. /\ k + 1 < Len(history')
        /\ history'[Len(history') - (k + 1)] = history[Len(history) - k]
    BY <1>k, <1>l, <2>1, <2>2, LoggedFacts
  <2>. QED
    BY <1>l, <2>1, <2>2, <2>3
\* A completion logged now is the last event.
<1>d. ASSUME NEW event \in Records, history' = Logged(event), NEW t \in Types,
             event.type = t, event.status = "completed", event.by = None,
             lastDone'[t] = event.at, newer'[t] = 0
      PROVE  /\ newer'[t] < Len(history')
             /\ history'[Len(history') - newer'[t]].type = t
             /\ history'[Len(history') - newer'[t]].status = "completed"
             /\ history'[Len(history') - newer'[t]].at = lastDone'[t]
             /\ history'[Len(history') - newer'[t]].by = None
  <2>1. /\ history' \in Seq(Records) /\ Len(history') > 0
        /\ history'[Len(history')] = event
    BY <1>k, <1>d, LoggedFacts
  <2>2. Len(history') \in Nat /\ Len(history') - newer'[t] = Len(history')
    BY <1>d, <2>1
  <2>. QED
    BY <1>d, <2>1, <2>2
<1>o. ASSUME NEW r \in Rotors, NEW ok \in BOOLEAN, Over(r, ok),
             At(r, "rotating") \/ At(r, "swapping"), UNCHANGED <<lastDone, newer>>
      PROVE  RecordsInv'
  <2>1. r \in Threads => rotor[r].type \in Types
    BY <1>o DEF At, Alive, ThreadsInv
  <2>2. /\ Len(history') = Len(history)
        /\ \A i \in 1 .. Len(history) : history[i].by = None => history'[i] = history[i]
    BY <1>k, <1>o, <2>1, OverFacts DEF TypeOK
  <2>3. ASSUME NEW t \in Types, lastDone[t] # None
        PROVE  /\ newer[t] < Len(history)
               /\ history'[Len(history) - newer[t]] = history[Len(history) - newer[t]]
    <3>1. newer[t] < Len(history) /\ history[Len(history) - newer[t]].by = None
      BY <2>3 DEF RecordsInv
    <3>2. Len(history) - newer[t] \in 1 .. Len(history)
      BY <1>n, <3>1
    <3>. QED
      BY <2>2, <3>1, <3>2
  <2>. QED
    BY <1>o, <2>2, <2>3 DEF RecordsInv
<1>1. ASSUME NEW w \in Threads, LogPending(w) PROVE RecordsInv'
  <2>1. rotor[w].type \in Types /\ now \in 0 .. MaxTime
    BY <1>1 DEF LogPending, At, Alive, ThreadsInv, TypeOK
  <2>2. Event(w, "pending", now) \in Records
    BY <2>1, EventType DEF Statuses
  <2>3. /\ history' = Logged(Event(w, "pending", now))
        /\ \A t \in Types : lastDone'[t] = KeptDone(t) /\ newer'[t] = LaterEvent(t)
    BY <1>1 DEF LogPending
  <2>. QED
    BY <1>l, <2>2, <2>3 DEF RecordsInv
<1>2. ASSUME NEW w \in Threads, LogOutcome(w) PROVE RecordsInv'
  <2> DEFINE event == Outcome(w, rotor[w].ok, rotor[w].at)
  <2>1. rotor[w].type \in Types /\ w \in Rotors
    BY <1>2 DEF LogOutcome, At, Alive, ThreadsInv, Rotors
  <2>2. rotor[w].ok \in BOOLEAN /\ rotor[w].at \in 0 .. MaxTime
    BY <2>1 DEF TypeOK, RotorStates
  <2>3. event \in Records
    BY <2>1, <2>2, OutcomeType
  <2>4. /\ event.type = rotor[w].type /\ event.at = rotor[w].at /\ event.by = None
        /\ rotor[w].ok => event.status = "completed"
    BY DEF Outcome, Event
  <2> HIDE DEF event
  <2>5. history' = Logged(event)
    BY <1>2 DEF LogOutcome, event
  <2>6. ASSUME NEW t \in Types
        PROVE  IF rotor[w].ok /\ t = rotor[w].type
               THEN lastDone'[t] = rotor[w].at /\ newer'[t] = 0
               ELSE lastDone'[t] = KeptDone(t) /\ newer'[t] = LaterEvent(t)
    BY <1>2 DEF LogOutcome
  <2>7. ASSUME NEW t \in Types, lastDone'[t] # None
        PROVE  /\ newer'[t] < Len(history')
               /\ history'[Len(history') - newer'[t]].type = t
               /\ history'[Len(history') - newer'[t]].status = "completed"
               /\ history'[Len(history') - newer'[t]].at = lastDone'[t]
               /\ history'[Len(history') - newer'[t]].by = None
    <3>1. CASE rotor[w].ok /\ t = rotor[w].type
      <4>1. /\ event.type = t /\ event.status = "completed" /\ event.by = None
            /\ lastDone'[t] = event.at /\ newer'[t] = 0
        BY <2>4, <2>6, <3>1
      <4>. QED
        BY <1>d, <2>3, <2>5, <4>1
    <3>2. CASE ~(rotor[w].ok /\ t = rotor[w].type)
      BY <1>l, <2>3, <2>5, <2>6, <2>7, <3>2
    <3>. QED
      BY <3>1, <3>2
  <2>. QED
    BY <2>7 DEF RecordsInv
<1>3. ASSUME NEW w \in Threads, ThreadStep(w) PROVE RecordsInv'
  <2>1. CASE Ends(w) \/ Check(w) \/ EngineMade(w)
    BY <1>u, <2>1 DEF Ends, Check, EngineMade, MakeEngine
  <2>2. CASE RotationFails(w) \/ KeysWritten(w) \/ EngineSwapped(w)
    BY <1>k, <1>o, <2>2 DEF RotationFails, KeysWritten, EngineSwapped
  <2>. QED
    BY <1>1, <1>2, <1>3, <2>1, <2>2 DEF ThreadStep
<1>4. ASSUME NEW c \in Callers, CallerStep(c) PROVE RecordsInv'
  <2>1. CASE ForceRotation(c)
    BY <1>u, <2>1 DEF ForceRotation, MakeEngine
  <2>2. CASE EngineSwapped(c)
    BY <1>o, <2>2 DEF EngineSwapped, Rotors
  <2>. QED
    BY <1>4, <2>1, <2>2 DEF CallerStep
<1>5. CASE AdminStep
  BY <1>5, <1>u DEF AdminStep, CallGoesOn, StartScheduler, StopScheduler, Return, StartNext,
                    Join, Configure
<1>6. CASE Tick \/ UNCHANGED vars
  BY <1>6, <1>u DEF Tick, vars
<1>. QED
  BY <1>3, <1>4, <1>5, <1>6 DEF Next

\* A thread becomes due by its own check only.
LEMMA DueByCheck ==
  ASSUME TypeOK, [Next]_vars, NEW w \in Threads, At(w, "waiting"), rotor'[w].pc = "due"
  PROVE  Check(w)
<1> SUFFICES ASSUME ~Check(w) PROVE FALSE
  OBVIOUS
<1>k. /\ DOMAIN rotor = Rotors /\ Threads \subseteq Rotors /\ w \in Rotors
      /\ \A r \in Rotors : rotor[r] \in RotorStates
  BY DEF TypeOK, Rotors
<1>u. rotor' # rotor
  BY DEF At
<1>m. ASSUME NEW r \in Rotors, NEW state, rotor' = [rotor EXCEPT ![r] = state], state.pc # "due"
      PROVE  FALSE
  BY <1>k, <1>m DEF At
<1>g. ASSUME NEW v \in Threads, NEW pc \in {"ended", "rotating"}, Goto(v, pc) PROVE FALSE
  <2>1. rotor' = [rotor EXCEPT ![v] = [rotor[v] EXCEPT !.pc = pc]]
    BY <1>g, <1>k DEF Goto
  <2>2. [rotor[v] EXCEPT !.pc = pc].pc = pc
    BY <1>k DEF RotorStates
  <2>. QED
    BY <1>g, <1>k, <1>m, <2>1, <2>2
<1>o. ASSUME NEW r \in Rotors, NEW ok, Over(r, ok) PROVE FALSE
  <2>1. Away.pc = "away"
    BY DEF Away
  <2>2. [Waiting(rotor[r].type) EXCEPT !.pc = "logging", !.ok = ok, !.at = now].pc = "logging"
    BY DEF Waiting, Away
  <2>3. \E state : rotor' = [rotor EXCEPT ![r] = state] /\ state.pc # "due"
    BY <1>o, <2>1, <2>2 DEF Over
  <2>. QED
    BY <1>m, <2>3
<1>e. ASSUME NEW r \in Rotors, MakeEngine(r) PROVE FALSE
  <2> DEFINE state == [Away EXCEPT !.pc = "swapping", !.type = Database,
                                  !.old = engine, !.new = made + 1]
  <2>1. state.pc = "swapping"
    BY DEF Away
  <2>2. rotor' = [rotor EXCEPT ![r] = state]
    BY <1>e DEF MakeEngine
  <2> HIDE DEF state
  <2>. QED
    BY <1>m, <2>1, <2>2
<1>c. ASSUME NEW v \in Threads, Check(v) PROVE FALSE
  <2>1. v # w
    BY <1>c
  <2>. QED
    BY <1>c, <1>k, <2>1 DEF Check, Goto, At
<1>1. ASSUME AdminStep PROVE FALSE
  <2>1. ASSUME NEW t \in Types, StartNext(t) PROVE FALSE
    <3>1. PICK v \in Unborn : rotor' = [rotor EXCEPT ![v] = Waiting(t)]
      BY <1>u, <2>1 DEF StartNext, StartThread
    <3>2. v \in Rotors /\ Waiting(t).pc = "waiting"
      BY <1>k, <3>1 DEF Unborn, Waiting, Away
    <3>. QED
      BY <1>m, <3>1, <3>2
  <2>. QED
    BY <1>1, <1>u, <2>1 DEF AdminStep, CallGoesOn, StartScheduler, StopScheduler, Return, Join, Configure
<1>2. ASSUME NEW v \in Threads, ThreadStep(v) PROVE FALSE
  <2>1. CASE Ends(v) \/ LogPending(v)
    BY <1>g, <2>1 DEF Ends, LogPending
  <2>2. CASE RotationFails(v) \/ KeysWritten(v) \/ EngineSwapped(v)
    BY <1>o, <1>k, <2>2 DEF RotationFails, KeysWritten, EngineSwapped
  <2>3. CASE LogOutcome(v)
    <3>1. rotor' = [rotor EXCEPT ![v] = Waiting(rotor[v].type)]
      BY <2>3 DEF LogOutcome
    <3>2. Waiting(rotor[v].type).pc = "waiting"
      BY DEF Waiting, Away
    <3>. QED
      BY <1>k, <1>m, <3>1, <3>2
  <2>4. CASE EngineMade(v)
    BY <1>e, <1>k, <2>4 DEF EngineMade
  <2>. QED
    BY <1>2, <1>c, <2>1, <2>2, <2>3, <2>4 DEF ThreadStep
<1>3. ASSUME NEW c \in Callers, CallerStep(c) PROVE FALSE
  BY <1>3, <1>e, <1>o DEF CallerStep, ForceRotation, EngineSwapped, Rotors
<1>. QED
  BY <1>1, <1>2, <1>3, <1>u DEF Next, Tick, vars

\* A check that finds a rotation due, with the last one in the history, is not
\* early.
LEMMA DueOnTime ==
  ASSUME TypeOK, ThreadsInv, RecordsInv, NEW w \in Threads, Check(w),
         lastDone[rotor[w].type] # None
  PROVE  now - lastDone[rotor[w].type] >= Interval - Warning
<1> DEFINE t == rotor[w].type
           d == lastDone[t]
<1>1. t \in Types /\ ShouldRotate(t)
  BY DEF Check, Alive, At, ThreadsInv
<1> HIDE DEF t
<1>2. /\ d \in Int /\ now \in Int /\ Interval \in Int /\ Warning \in Nat
      /\ newer[t] \in Nat /\ MaxHistory \in Nat /\ Len(history) \in Nat
      /\ d # None
  BY <1>1, RotationAssumption DEF TypeOK, t
<1> SUFFICES ASSUME now - d < Interval - Warning PROVE FALSE
  BY <1>2 DEF t
<1>3. d \in Recent(t)
  <2> DEFINE i == Len(history) - newer[t]
  <2>1. /\ newer[t] < Len(history) /\ history[i].type = t
        /\ history[i].status = "completed" /\ history[i].at = d
    BY <1>1, <1>2 DEF RecordsInv
  <2>2. i \in DOMAIN history
    <3>1. DOMAIN history = 1 .. Len(history)
      BY DEF TypeOK
    <3>. QED
      BY <1>2, <2>1, <3>1
  <2>3. now - d < Interval
    BY <1>2
  <2> HIDE DEF i, d
  <2>. QED
    BY <2>1, <2>2, <2>3 DEF Recent
<1> HIDE DEF d
<1>4. PICK last \in Recent(t) : (\A at \in Recent(t) : at <= last) /\ now >= last + Interval - Warning
  BY <1>1, <1>3 DEF ShouldRotate
<1>5. last \in Int
  <2>1. PICK i \in DOMAIN history : last = history[i].at
    BY <1>4 DEF Recent
  <2>2. history[i] \in Records
    BY <2>1 DEF TypeOK
  <2>. QED
    BY <2>1, <2>2 DEF Records
<1>6. d <= last
  BY <1>3, <1>4
<1>. QED
  BY <1>2, <1>4, <1>5, <1>6

-----------------------------------------------------------------------------
(* The theorems.                                                           *)

Inv ==
  /\ TypeOK /\ ThreadsInv /\ NoStrayThread
  /\ EnginesInv /\ RacedInv /\ ReplacedEnginesClosed /\ ActiveEngineKept
  /\ RecordsInv

LEMMA InvInit == Init => Inv
<1>1. Init => RecordsInv
  BY DEF Init, RecordsInv
<1>. QED
  BY <1>1, InitInv, EnginesInit DEF Inv

LEMMA InvStep == Inv /\ [Next]_vars => Inv'
BY TypeStep, ThreadsStep, EnginesStep, RecordsStep DEF Inv

LEMMA InvHolds == Spec => []Inv
BY InvInit, InvStep, PTL DEF Spec

\* Every variable keeps its type; the history of
\* _log_rotation_event never outgrows its limit.
THEOREM TypeCorrect == Spec => []TypeOK
BY InvHolds, PTL DEF Inv

\* No thread escapes the administrator: one that lives
\* and was not told to stop is on record, however starts, stops and
\* configurations follow one another while rotations wait for the lock.
THEOREM NoThreadEscapes == Spec => []NoStrayThread
BY InvHolds, PTL DEF Inv

\* The active database engine is never disposed of.
THEOREM ActiveEngineStays == Spec => []ActiveEngineKept
BY InvHolds, PTL DEF Inv

\* Every engine that was replaced is disposed of, also by rotations that overlap,
\* but for one that became active between another rotation's reading of the
\* active engine and its swap: swap_engine forgets that one.
THEOREM ReplacedEnginesGo == Spec => []ReplacedEnginesClosed
BY InvHolds, PTL DEF Inv

\* A rotation comes early only when the history has lost the
\* last one to newer events.
THEOREM EarlyOnlyWithoutRecord == Spec => EarlyOnlyWhenCrowdedOut
<1> DEFINE Early ==
      \A w \in Threads :
        LET last == lastDone[rotor[w].type]
        IN  At(w, "waiting") /\ rotor'[w].pc = "due" /\ last # None
            => now - last >= Interval - Warning
<1>1. Inv /\ [Next]_vars => [Early]_vars
  BY DueByCheck, DueOnTime DEF Inv
<1> HIDE DEF Early
<1>2. Spec => [][Early]_vars
  BY <1>1, InvHolds, PTL DEF Spec
<1>. QED
  BY <1>2 DEF Early, EarlyOnlyWhenCrowdedOut
=============================================================================
