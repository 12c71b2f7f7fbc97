--------------------------- MODULE SecretRotation ---------------------------
(***************************************************************************)
(* The secret rotation manager (core/secret_rotation.py): one thread per   *)
(* type of secret that rotates it when its interval is nearly over, an     *)
(* administrator who starts, stops and reconfigures the threads, and       *)
(* callers who force a rotation of the database credentials.               *)
(*                                                                         *)
(* The only part of the manager that outlives a rotation is the database   *)
(* engine, replaced together with its credentials and disposed of later,   *)
(* and the bounded history from which a thread learns when it last         *)
(* rotated.  One lock guards both, and stop_rotation_scheduler holds it    *)
(* while it joins the threads.                                             *)
(*                                                                         *)
(* What a rotation does in the vault is left out but for its outcome, and  *)
(* so is a forced rotation of the other types, which leaves nothing        *)
(* behind.  The exceptions of a rotation are caught where they arise, so   *)
(* that _perform_rotation makes one attempt whatever max_retries says.     *)
(***************************************************************************)
EXTENDS Integers, Sequences, FiniteSets

CONSTANTS Types,      \* the types of secret
          Configured, \* the types enabled by the configuration before the first start
          Database,   \* the type that stands for database_credentials
          Threads,    \* the rotation threads ever started: a bound
          Callers,    \* the requests that force a rotation
          Interval,   \* rotation_interval
          Warning,    \* advance_warning
          MaxHistory, \* the events kept, 1000 in the code
          MaxEngines, \* the engines ever made: a bound
          MaxCalls,   \* the calls of the administrator: a bound
          MaxTime,    \* the ticks of the clock: a bound
          None

ASSUME RotationAssumption ==
  /\ Database \in Types /\ Configured \subseteq Types
  /\ Interval \in Nat /\ Warning \in Nat /\ Warning <= Interval
  /\ MaxHistory \in Nat \ {0} /\ MaxEngines \in Nat
  /\ MaxCalls \in Nat /\ MaxTime \in Nat
  /\ Threads \cap Callers = {}
  /\ None \notin Types \cup Threads

VARIABLES
  now,         \* the clock
  enabled,     \* the types whose configuration is enabled
  registered,  \* _rotation_threads and _stop_events: the thread of a type
  stopped,     \* the threads whose stop event is set
  rotor,       \* what each thread and caller is at
  admin,       \* the call of the administrator, and the types left to do
  calls,       \* the number of its calls
  lock,        \* whether stop_rotation_scheduler holds the lock
  history,     \* _rotation_history
  engine,      \* _active_db_engine and its credentials, 0 before the first
  made,        \* the number of engines made
  closing,     \* the engines given to a timer, which disposes of them
  lastDone,    \* the completion last logged for a type, None when MaxHistory
               \* events were logged after it, for the properties
  newer,       \* the events logged after it
  raced        \* the engines made active while another rotation was about to
               \* replace the one before, which it had read

scheduler == <<enabled, registered, stopped, admin, calls, lock>>
engines   == <<engine, made, closing, raced>>
records   == <<history, lastDone, newer>>
vars      == <<now, rotor, scheduler, engines, records>>

Rotors == Threads \cup Callers

Away == [pc |-> "away", type |-> None, ok |-> FALSE, at |-> 0,
         old |-> 0, new |-> 0]
Waiting(t) == [Away EXCEPT !.pc = "waiting", !.type = t]
Idle == [op |-> "none", todo |-> {}]

Init ==
  /\ now = 0
  /\ enabled = Configured
  /\ registered = [t \in Types |-> None]
  /\ stopped = {}
  /\ rotor = [r \in Rotors |-> Away]
  /\ admin = Idle
  /\ calls = 0
  /\ lock = FALSE
  /\ history = <<>>
  /\ engine = 0 /\ made = 0 /\ closing = {}
  /\ lastDone = [t \in Types |-> None]
  /\ newer = [t \in Types |-> 0]
  /\ raced = {}

At(r, pc) == rotor[r].pc = pc
Goto(r, pc) == rotor' = [rotor EXCEPT ![r].pc = pc]

Unborn == {w \in Threads : At(w, "away")}
Alive(w) == ~At(w, "away") /\ ~At(w, "ended")

-----------------------------------------------------------------------------
(* The administrator: start, stop, configure.                              *)

MayCall == admin = Idle /\ calls < MaxCalls
Call(op, todo) ==
  /\ MayCall
  /\ admin' = [op |-> op, todo |-> todo]
  /\ calls' = calls + 1
Done(t) == admin' = [admin EXCEPT !.todo = @ \ {t}] /\ UNCHANGED calls

\* _start_rotation_thread: a type that has a thread on record gets no other.
\* Threads that have not been started are all alike.
StartThread(t) ==
  IF registered[t] # None
  THEN UNCHANGED <<registered, rotor>>
  ELSE /\ Unborn # {}
       /\ LET w == CHOOSE w \in Unborn : TRUE
          IN  /\ registered' = [registered EXCEPT ![t] = w]
              /\ rotor' = [rotor EXCEPT ![w] = Waiting(t)]

StartScheduler ==
  /\ Cardinality(Unborn) >= Cardinality(enabled)
  /\ Call("start", enabled)
  /\ UNCHANGED <<now, enabled, registered, stopped, rotor, lock, engines, records>>

StartNext(t) ==
  /\ admin.op = "start" /\ t \in admin.todo
  /\ StartThread(t)
  /\ Done(t)
  /\ UNCHANGED <<now, enabled, stopped, lock, engines, records>>

\* A slip: the stop events are forgotten instead of being set.
StopScheduler_Bug ==
  LET known == {t \in Types : registered[t] # None}
  IN  /\ known # {}
      /\ Call("stop", known)
      /\ lock' = TRUE
      /\ UNCHANGED <<now, enabled, registered, stopped, rotor, engines, records>>

\* Stopping with no thread on record changes nothing and is left out.
StopScheduler ==
  LET known == {t \in Types : registered[t] # None}
  IN  /\ known # {}
      /\ Call("stop", known)
      /\ lock' = TRUE
      /\ stopped' = stopped \cup {registered[t] : t \in known}
      /\ UNCHANGED <<now, enabled, registered, rotor, engines, records>>

\* A slip: a join without a timeout.
Joined_Bug(t) == ~Alive(registered[t])

\* Thread.join returns when the thread has ended or its timeout is over.
Joined(t) == TRUE

Join(t) ==
  /\ admin.op \in {"stop", "configure"} /\ t \in admin.todo
  /\ Joined(t)
  /\ Done(t)
  /\ UNCHANGED <<now, enabled, registered, stopped, lock, rotor, engines, records>>

\* configure_rotation stops the thread on record and leaves it there.
Configure(t, on) ==
  /\ enabled' = IF on THEN enabled \cup {t} ELSE enabled \ {t}
  /\ IF registered[t] = None
     THEN Call("configure", {}) /\ UNCHANGED stopped
     ELSE Call("configure", {t}) /\ stopped' = stopped \cup {registered[t]}
  /\ UNCHANGED <<now, registered, lock, rotor, engines, records>>

\* Return of start, stop and configure.  The last would start a thread for an
\* enabled type, but one is on record: nothing more happens.
Return ==
  /\ admin.op # "none" /\ admin.todo = {}
  /\ admin' = Idle /\ UNCHANGED calls
  /\ IF admin.op = "stop"
     THEN lock' = FALSE /\ registered' = [t \in Types |-> None]
     ELSE UNCHANGED <<lock, registered>>
  /\ UNCHANGED <<now, enabled, stopped, rotor, engines, records>>

-----------------------------------------------------------------------------
(* A rotation thread.                                                      *)

Ends(w) ==
  /\ At(w, "waiting") /\ w \in stopped
  /\ Goto(w, "ended")
  /\ UNCHANGED <<now, scheduler, engines, records>>

\* The completed rotations of the last interval in the history.
Recent(t) ==
  {history[i].at : i \in {j \in DOMAIN history :
     /\ history[j].type = t /\ history[j].status = "completed"
     /\ now - history[j].at < Interval}}

ShouldRotate(t) ==
  \/ Recent(t) = {}
  \/ \E last \in Recent(t) :
       /\ \A at \in Recent(t) : at <= last
       /\ now >= last + Interval - Warning

\* The wait is over without a stop, and a rotation is due.
Check(w) ==
  /\ At(w, "waiting") /\ w \notin stopped
  /\ ShouldRotate(rotor[w].type)
  /\ Goto(w, "due")
  /\ UNCHANGED <<now, scheduler, engines, records>>

\* An event belongs to its thread as long as its status is open.
Event(w, status, at) ==
  [type |-> rotor[w].type, status |-> status, at |-> at,
   by |-> IF status = "pending" THEN w ELSE None]

Newest(log, n) == SubSeq(log, Len(log) - n + 1, Len(log))

\* A slip: the oldest events are kept.
Logged_BugOldest(event) ==
  IF Len(history) < MaxHistory THEN Append(history, event) ELSE history

\* _log_rotation_event keeps the newest events.
Logged(event) ==
  LET longer == Append(history, event)
  IN  IF Len(longer) > MaxHistory THEN Newest(longer, MaxHistory) ELSE longer

KeptDone(t) == IF newer[t] + 1 = MaxHistory THEN None ELSE lastDone[t]
LaterEvent(t) == IF KeptDone(t) = None THEN 0 ELSE newer[t] + 1

LogPending(w) ==
  /\ At(w, "due") /\ ~lock
  /\ history' = Logged(Event(w, "pending", now))
  /\ lastDone' = [t \in Types |-> KeptDone(t)]
  /\ newer' = [t \in Types |-> LaterEvent(t)]
  /\ Goto(w, "rotating")
  /\ UNCHANGED <<now, scheduler, engines>>

Outcome(w, ok, at) == Event(w, IF ok THEN "completed" ELSE "failed", at)

\* The event is logged a second time, with its outcome.
LogOutcome(w) ==
  LET done == IF rotor[w].ok THEN {rotor[w].type} ELSE {}
  IN  /\ At(w, "logging") /\ ~lock
      /\ history' = Logged(Outcome(w, rotor[w].ok, rotor[w].at))
      /\ lastDone' = [t \in Types |-> IF t \in done THEN rotor[w].at ELSE KeptDone(t)]
      /\ newer' = [t \in Types |-> IF t \in done THEN 0 ELSE LaterEvent(t)]
      /\ rotor' = [rotor EXCEPT ![w] = Waiting(rotor[w].type)]
      /\ UNCHANGED <<now, scheduler, engines>>

-----------------------------------------------------------------------------
(* A rotation, in its thread or in the thread of the caller that forced it.  *)

\* A caller returns.  A thread sets the status and the time of its event before
\* it asks for the lock; the event logged as pending is the same object.
Over(r, ok) ==
  IF r \in Callers
  THEN rotor' = [rotor EXCEPT ![r] = Away] /\ UNCHANGED history
  ELSE /\ rotor' = [rotor EXCEPT ![r] = [Waiting(rotor[r].type) EXCEPT
                      !.pc = "logging", !.ok = ok, !.at = now]]
       /\ history' = [i \in DOMAIN history |->
                        IF history[i].by = r THEN Outcome(r, ok, now) ELSE history[i]]

\* The vault, the test of the credentials or the write fails.
RotationFails(w) ==
  /\ At(w, "rotating")
  /\ Over(w, FALSE)
  /\ UNCHANGED <<now, scheduler, engines, lastDone, newer>>

\* The new API keys or JWT keys are in the vault.
KeysWritten(w) ==
  /\ At(w, "rotating") /\ rotor[w].type # Database
  /\ Over(w, TRUE)
  /\ UNCHANGED <<now, scheduler, engines, lastDone, newer>>

\* The active engine is read without the lock, and the new one is made.
MakeEngine(r) ==
  /\ made < MaxEngines
  /\ made' = made + 1
  /\ rotor' = [rotor EXCEPT ![r] = [Away EXCEPT !.pc = "swapping", !.type = Database,
                                              !.old = engine, !.new = made + 1]]
  /\ UNCHANGED <<now, scheduler, engine, closing, raced, records>>

EngineMade(w) == At(w, "rotating") /\ rotor[w].type = Database /\ MakeEngine(w)

\* A forced rotation comes into view with its engine: until then it touches
\* nothing, and one that fails is never seen.
ForceRotation(c) == At(c, "away") /\ MakeEngine(c)

\* Slips: the active engine is read after it was set; the timer is forgotten.
Replaced_BugNew(r) == {rotor[r].new}
Replaced_BugNone(r) == {}

\* The engine the rotation replaces gets a timer.
Replaced(r) == IF rotor[r].old = 0 THEN {} ELSE {rotor[r].old}

EngineSwapped(r) ==
  /\ At(r, "swapping") /\ ~lock
  /\ engine' = rotor[r].new
  /\ closing' = closing \cup Replaced(r)
  /\ raced' = IF \E s \in Rotors \ {r} : At(s, "swapping")
              THEN raced \cup {rotor[r].new} ELSE raced
  /\ Over(r, TRUE)
  /\ UNCHANGED <<now, scheduler, made, lastDone, newer>>

Tick ==
  /\ now < MaxTime
  /\ now' = now + 1
  /\ UNCHANGED <<rotor, scheduler, engines, records>>

-----------------------------------------------------------------------------
CallGoesOn == Return \/ \E t \in Types : StartNext(t) \/ Join(t)

AdminStep ==
  \/ StartScheduler \/ StopScheduler \/ CallGoesOn
  \/ \E t \in Types, on \in BOOLEAN : Configure(t, on)

ThreadStep(w) ==
  \/ Ends(w) \/ Check(w) \/ LogPending(w)
  \/ RotationFails(w) \/ KeysWritten(w) \/ EngineMade(w) \/ EngineSwapped(w)
  \/ LogOutcome(w)

CallerStep(c) == ForceRotation(c) \/ EngineSwapped(c)

Next ==
  \/ AdminStep
  \/ \E w \in Threads : ThreadStep(w)
  \/ \E c \in Callers : CallerStep(c)
  \/ Tick

\* The administrator's calls go on, each join for 5 or 10 seconds at most.  A
\* rotation waits for the vault and the database, which need not answer; nobody
\* has to call, and the clock need not advance.
Fairness == WF_vars(CallGoesOn)

Spec == Init /\ [][Next]_vars /\ Fairness

-----------------------------------------------------------------------------
(* Properties.                                                             *)

Statuses == {"pending", "completed", "failed"}
Records == [type : Types, status : Statuses, at : 0 .. MaxTime, by : Threads \cup {None}]
Calls == [op : {"none", "start", "stop", "configure"}, todo : SUBSET Types]
RotorStates ==
  [pc : {"away", "waiting", "due", "rotating", "swapping", "logging", "ended"},
   type : Types \cup {None}, ok : BOOLEAN, at : 0 .. MaxTime,
   old : 0 .. MaxEngines, new : 0 .. MaxEngines]

\* The types of the variables: the history is never longer than its limit.
TypeOK ==
  /\ now \in 0 .. MaxTime
  /\ enabled \subseteq Types
  /\ registered \in [Types -> Threads \cup {None}]
  /\ stopped \subseteq Threads
  /\ rotor \in [Rotors -> RotorStates]
  /\ admin \in Calls
  /\ calls \in 0 .. MaxCalls
  /\ lock \in BOOLEAN
  /\ history \in Seq(Records)
  /\ Len(history) <= MaxHistory
  /\ engine \in 0 .. MaxEngines /\ made \in 0 .. MaxEngines
  /\ closing \subseteq 1 .. MaxEngines
  /\ lastDone \in [Types -> 0 .. MaxTime \cup {None}]
  /\ newer \in [Types -> 0 .. MaxHistory - 1]
  /\ raced \subseteq 0 .. MaxEngines

\* A thread that lives and was not told to stop is the one on record for its
\* type: nothing rotates a secret that stop_rotation_scheduler cannot reach,
\* and two threads rotate one type only while the older one ends.
NoStrayThread ==
  \A w \in Threads : Alive(w) /\ w \notin stopped => registered[rotor[w].type] = w

\* The engine in use is never given to a timer, although the one
\* to dispose of is read without the lock.
ActiveEngineKept == engine \notin closing

\* Every engine that was replaced was given to a timer, also when two rotations
\* have read and replace the same one.  The engine forgotten then is the one that
\* became active between the two, which neither of them has read.
ReplacedEnginesClosed ==
  \A e \in 1 .. made :
    \/ e = engine \/ e \in closing \/ e \in raced
    \/ \E r \in Rotors : At(r, "swapping") /\ e = rotor[r].new

\* A thread finds a rotation due too early after the last completed one only
\* when as many events as the history holds were logged since, by the threads of
\* all types: lastDone is None then.
EarlyOnlyWhenCrowdedOut ==
  [][\A w \in Threads :
       LET last == lastDone[rotor[w].type]
       IN  At(w, "waiting") /\ rotor'[w].pc = "due" /\ last # None
           => now - last >= Interval - Warning]_vars

\* Every call of the administrator returns, whatever the threads it joins do:
\* stopping keeps the lock, and a rotation may never end.
CallsReturn == (admin # Idle) ~> (admin = Idle)

\* "Restart rotation thread if running": once configure_rotation has returned,
\* the thread on record for an enabled type has not been told to stop.
ReconfiguredTypeRotates ==
  \A t \in Types :
    admin = Idle /\ t \in enabled /\ registered[t] # None => registered[t] \notin stopped
=============================================================================
