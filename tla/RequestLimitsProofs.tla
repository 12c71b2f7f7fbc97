------------------------- MODULE RequestLimitsProofs -------------------------
(***************************************************************************)
(* Proofs about RequestLimits, for any thresholds, windows and addresses.  *)
(*                                                                         *)
(* The lists the code reads are cleaned on other occasions than they are   *)
(* read, so the invariant says exactly what each of them holds: the events *)
(* of its kind that were young when the last one of them was entered.      *)
(***************************************************************************)
EXTENDS RequestLimits, FiniteSetTheorems, TLAPS

Entry == [at : Times, what : Kinds]

Ordered(s) == \A i, k \in 1 .. Len(s) : i <= k => s[i].at <= s[k].at

Before(s, time) == \A i \in 1 .. Len(s) : s[i].at <= time

OfKind(s, kinds) == {i \in 1 .. Len(s) : s[i].what \in kinds}

\* A list holds what was young at its last event.
Lists(s, list, kinds, window) ==
  /\ list \subseteq OfKind(s, kinds)
  /\ OfKind(s, kinds) # {} =>
       \E last \in OfKind(s, kinds) :
         /\ \A i \in OfKind(s, kinds) : i <= last
         /\ list = Within(s, last, kinds, window)

-----------------------------------------------------------------------------
(* Lemmas about logs.                                                      *)

LEMMA TimesAreIntegers ==
  /\ \A t \in Times : t \in Int
  /\ \A e \in Entry : e.at \in Int /\ e.at \in Times /\ e.what \in Kinds
<1>1. \A t \in Times : t \in Int
  BY LimitsAssumption DEF Times
<1>2. \A e \in Entry : e.at \in Times /\ e.what \in Kinds
  BY DEF Entry
<1>. QED
  BY <1>1, <1>2

LEMMA AppendFacts ==
  ASSUME NEW s \in Seq(Entry), NEW e \in Entry
  PROVE  /\ Append(s, e) \in Seq(Entry)
         /\ Len(Append(s, e)) = Len(s) + 1
         /\ \A i \in 1 .. Len(s) : Append(s, e)[i] = s[i] /\ s[i] \in Entry
         /\ Append(s, e)[Len(s) + 1] = e
         /\ Len(s) \in Nat
OBVIOUS

\* What was true of an old event stays true of it.
LEMMA WithinAppend ==
  ASSUME NEW s \in Seq(Entry), NEW e \in Entry, NEW i \in 1 .. Len(s), NEW kinds, NEW window
  PROVE  Within(Append(s, e), i, kinds, window) = Within(s, i, kinds, window)
<1>1. \A k \in 1 .. i : Append(s, e)[k] = s[k]
  BY AppendFacts
<1>2. Append(s, e)[i] = s[i]
  BY AppendFacts
<1>. QED
  BY <1>1, <1>2 DEF Within

LEMMA WithinFinite ==
  ASSUME NEW s, NEW i \in Nat, NEW kinds, NEW window
  PROVE  /\ IsFiniteSet(Within(s, i, kinds, window))
         /\ Cardinality(Within(s, i, kinds, window)) \in Nat
<1>1. IsFiniteSet(1 .. i)
  BY FS_Interval
<1>. QED
  BY <1>1, FS_Subset, FS_CardinalityType DEF Within

\* What a new event sees behind it.
LEMMA NewEventSees ==
  ASSUME NEW s \in Seq(Entry), NEW e \in Entry, NEW kinds, NEW window \in Nat \ {0}
  PROVE  \A i : i \in Within(Append(s, e), Len(s) + 1, kinds, window) <=>
                 \/ i \in OfKind(s, kinds) /\ s[i].at > e.at - window
                 \/ i = Len(s) + 1 /\ e.what \in kinds
<1>. DEFINE n == Len(s) + 1
            t == Append(s, e)
<1>1. Len(s) \in Nat /\ t[n] = e /\ \A i \in 1 .. Len(s) : t[i] = s[i]
  BY AppendFacts
<1>2. e.at > e.at - window
  BY TimesAreIntegers
<1>3. 1 .. n = 1 .. Len(s) \cup {n}
  BY <1>1
<1>4. Within(t, n, kinds, window) = {k \in 1 .. n : t[k].what \in kinds /\ t[k].at > e.at - window}
  BY <1>1 DEF Within
<1>. HIDE DEF n, t
<1>. QED
  BY <1>1, <1>2, <1>3, <1>4 DEF OfKind, n, t

\* Cleaned or not, a list misses no event that is young now.
LEMMA ListsMissNothing ==
  ASSUME NEW s \in Seq(Entry), NEW time \in Times, NEW kinds, NEW window \in Nat, NEW list,
         Lists(s, list, kinds, window), Before(s, time)
  PROVE  {i \in OfKind(s, kinds) : s[i].at > time - window} \subseteq list
<1>. SUFFICES ASSUME NEW i \in OfKind(s, kinds), s[i].at > time - window
              PROVE  i \in list
  OBVIOUS
<1>1. PICK last \in OfKind(s, kinds) :
        (\A k \in OfKind(s, kinds) : k <= last) /\ list = Within(s, last, kinds, window)
  BY DEF Lists
<1>2. s[i] \in Entry /\ s[last] \in Entry
  BY DEF OfKind
<1>3. s[last].at <= time
  BY DEF Before, OfKind
<1>4. s[i].at > s[last].at - window
  BY <1>2, <1>3, TimesAreIntegers
<1>5. i \in 1 .. last
  BY <1>1 DEF OfKind
<1>. QED
  BY <1>1, <1>4, <1>5 DEF Within, OfKind

\* Entering an event into its list, and cleaning the list on the way.
LEMMA ListGrows ==
  ASSUME NEW s \in Seq(Entry), NEW e \in Entry, NEW kinds, NEW window \in Nat \ {0}, NEW list,
         Lists(s, list, kinds, window), Before(s, e.at), e.what \in kinds,
         NEW new, 
         \A i : i \in new <=> (i \in list /\ s[i].at > e.at - window) \/ i = Len(s) + 1
  PROVE  /\ new = Within(Append(s, e), Len(s) + 1, kinds, window)
         /\ Lists(Append(s, e), new, kinds, window)
<1>. DEFINE t == Append(s, e)
            n == Len(s) + 1
<1>1. {i \in OfKind(s, kinds) : s[i].at > e.at - window} \subseteq list
  BY ListsMissNothing DEF Entry
<1>2. list \subseteq OfKind(s, kinds)
  BY DEF Lists
<1>3. new = Within(t, n, kinds, window)
  <2>1. \A i : i \in Within(t, n, kinds, window) <=>
                 (i \in OfKind(s, kinds) /\ s[i].at > e.at - window) \/ i = n
    BY NewEventSees
  <2>2. \A i : i \in OfKind(s, kinds) /\ s[i].at > e.at - window =>  i \in list
    BY <1>1
  <2>3. \A i : i \in Within(t, n, kinds, window) <=> i \in new
    BY <1>2, <2>1, <2>2
  <2>. QED
    BY <2>3
<1>4. Len(t) = n /\ n \in Nat /\ t[n] = e
  BY AppendFacts
<1>5. n \in OfKind(t, kinds) /\ \A i \in OfKind(t, kinds) : i <= n
  BY <1>4 DEF OfKind
<1>6. new \subseteq OfKind(t, kinds)
  BY <1>3, <1>4 DEF Within, OfKind
<1>. QED
  BY <1>3, <1>5, <1>6 DEF Lists

\* An event of another kind leaves the list what it is.
LEMMA ListKept ==
  ASSUME NEW s \in Seq(Entry), NEW e \in Entry, NEW kinds, NEW window, NEW list,
         Lists(s, list, kinds, window), e.what \notin kinds
  PROVE  Lists(Append(s, e), list, kinds, window)
<1>1. OfKind(Append(s, e), kinds) = OfKind(s, kinds)
  BY AppendFacts DEF OfKind
<1>2. \A last \in OfKind(s, kinds) :
        Within(Append(s, e), last, kinds, window) = Within(s, last, kinds, window)
  BY WithinAppend DEF OfKind
<1>. QED
  BY <1>1, <1>2 DEF Lists

LEMMA OrderKept ==
  ASSUME NEW s \in Seq(Entry), NEW e \in Entry, Ordered(s), Before(s, e.at)
  PROVE  Ordered(Append(s, e)) /\ Before(Append(s, e), e.at)
<1>1. e.at <= e.at
  BY TimesAreIntegers
<1>. QED
  BY <1>1, AppendFacts DEF Ordered, Before

\* The limit shrinks as failures grow.
LEMMA LimitAntitone ==
  ASSUME NEW m \in Nat, NEW n \in Nat, m <= n
  PROVE  LimitAfter(n) <= LimitAfter(m)
BY LimitsAssumption DEF LimitAfter

-----------------------------------------------------------------------------
(* The invariant.                                                          *)

BucketOK(ip) ==
  /\ rate_bucket[ip] \subseteq OfKind(log[ip], LoggingIn)
  /\ {i \in OfKind(log[ip], LoggingIn) : log[ip][i].at > now - AuthWindow} \subseteq rate_bucket[ip]

\* While failures are too many to be forgotten, the address is blocked for as
\* long as the last of them demands.
BlockHolds(ip) ==
  Cardinality(failed_attempts[ip]) >= MaxFailed =>
    \A k \in OfKind(log[ip], Failing) :
      \/ log[ip][k].at + BlockDuration <= now
      \/ blocked_ips[ip] # None /\ blocked_ips[ip] >= log[ip][k].at

\* Nothing takes a refused burst out of the history.
Stuck(ip) ==
  OfKind(log[ip], {"burst"}) # {} => Cardinality(request_history[ip]) > BurstThreshold

AddressInv(ip) ==
  /\ Ordered(log[ip])
  /\ Before(log[ip], now)
  /\ Lists(log[ip], request_history[ip], Passing, BurstWindow)
  /\ Lists(log[ip], failed_attempts[ip], Failing, FailureMemory)
  /\ BucketOK(ip)
  /\ BlockHolds(ip)
  /\ Stuck(ip)

LimitsInv ==
  /\ TypeOK
  /\ \A ip \in IPs : AddressInv(ip)
  /\ BurstBounded
  /\ LoginsWithinLimit
  /\ ServedAfterBlock
  /\ BlockedForCause
  /\ BurstIsForever

-----------------------------------------------------------------------------
(* What a step that logs an event does.                                    *)

LEMMA ConstantFacts ==
  /\ BurstWindow \in Nat \ {0} /\ FailureMemory \in Nat \ {0} /\ AuthWindow \in Nat \ {0}
  /\ BurstThreshold \in Nat \ {0} /\ MaxFailed \in Nat \ {0} /\ BlockDuration \in Nat \ {0}
  /\ CleanLimit \in Nat \ {0} /\ WarnedLimit \in Nat \ {0} /\ SuspiciousLimit \in Nat \ {0}
  /\ SomeFailures \in Nat \ {0}
  /\ CleanLimit >= WarnedLimit /\ WarnedLimit >= SuspiciousLimit
  /\ MaxTime \in Nat /\ MaxEvents \in Nat
  /\ None \notin Int
BY LimitsAssumption

LEMMA ListsAreFinite ==
  ASSUME TypeOK, NEW ip \in IPs
  PROVE  /\ IsFiniteSet(request_history[ip]) /\ Cardinality(request_history[ip]) \in Nat
         /\ IsFiniteSet(failed_attempts[ip]) /\ Cardinality(failed_attempts[ip]) \in Nat
         /\ IsFiniteSet(rate_bucket[ip]) /\ Cardinality(rate_bucket[ip]) \in Nat
<1>1. IsFiniteSet(1 .. MaxEvents)
  BY ConstantFacts, FS_Interval
<1>2. /\ request_history[ip] \subseteq 1 .. MaxEvents
      /\ failed_attempts[ip] \subseteq 1 .. MaxEvents
      /\ rate_bucket[ip] \subseteq 1 .. MaxEvents
  BY DEF TypeOK
<1>. QED
  BY <1>1, <1>2, FS_Subset, FS_CardinalityType

\* One more element above a set that was cleaned.
LEMMA OneMore ==
  ASSUME NEW S, IsFiniteSet(S), NEW C, C \subseteq S, NEW x
  PROVE  /\ IsFiniteSet(C \cup {x})
         /\ Cardinality(C \cup {x}) \in Nat
         /\ Cardinality(C) \in Nat
         /\ Cardinality(C) <= Cardinality(S)
         /\ Cardinality(C \cup {x}) <= Cardinality(C) + 1
<1>1. IsFiniteSet(C) /\ Cardinality(C) <= Cardinality(S)
  BY FS_Subset
<1>2. /\ IsFiniteSet(C \cup {x})
      /\ Cardinality(C \cup {x}) = IF x \in C THEN Cardinality(C) ELSE Cardinality(C) + 1
  BY <1>1, FS_AddElement
<1>. QED
  BY <1>1, <1>2, FS_CardinalityType

LEMMA LogGrows ==
  ASSUME TypeOK, NEW ip \in IPs, NEW what \in Kinds, log' = Logged(ip, what), Len(log[ip]) < MaxEvents
  PROVE  /\ [at |-> now, what |-> what] \in Entry
         /\ log'[ip] = Append(log[ip], [at |-> now, what |-> what])
         /\ \A q \in IPs : q # ip => log'[q] = log[q]
         /\ \A q \in IPs : log[q] \in Seq(Entry) /\ log'[q] \in Seq(Entry)
         /\ log' \in [IPs -> Seq(Entry)]
         /\ \A q \in IPs : Len(log'[q]) <= MaxEvents
         /\ \A q \in IPs : DOMAIN log[q] = 1 .. Len(log[q]) /\ DOMAIN log'[q] = 1 .. Len(log'[q])
         /\ \A q \in IPs : DOMAIN log[q] \subseteq DOMAIN log'[q]
         /\ Len(log[ip]) \in Nat /\ Len(log'[ip]) = Len(log[ip]) + 1
<1>. DEFINE e == [at |-> now, what |-> what]
<1>1. e \in Entry
  BY DEF Entry, TypeOK
<1>2. log \in [IPs -> Seq(Entry)]
  BY DEF TypeOK, Entry
<1>3. log' = [log EXCEPT ![ip] = Append(log[ip], e)]
  BY DEF Logged
<1>. HIDE DEF e
<1>4. Append(log[ip], e) \in Seq(Entry)
  BY <1>1, <1>2, AppendFacts
<1>5. log' \in [IPs -> Seq(Entry)] /\ log'[ip] = Append(log[ip], e) /\ \A q \in IPs : q # ip => log'[q] = log[q]
  BY <1>2, <1>3, <1>4
<1>6. Len(log'[ip]) = Len(log[ip]) + 1 /\ Len(log[ip]) \in Nat
  BY <1>1, <1>2, <1>5, AppendFacts
<1>7. \A q \in IPs : Len(log'[q]) <= MaxEvents
  <2>1. \A q \in IPs : Len(log[q]) <= MaxEvents
    BY DEF TypeOK
  <2>2. Len(log'[ip]) <= MaxEvents
    BY <1>6, ConstantFacts
  <2>. QED
    BY <1>5, <2>1, <2>2
<1>8. \A q \in IPs : DOMAIN log[q] = 1 .. Len(log[q]) /\ DOMAIN log'[q] = 1 .. Len(log'[q])
  BY <1>2, <1>5
<1>9. \A q \in IPs : DOMAIN log[q] \subseteq DOMAIN log'[q]
  <2>1. DOMAIN log[ip] \subseteq DOMAIN log'[ip]
    BY <1>6, <1>8
  <2>. QED
    BY <1>5, <2>1
<1>. QED
  BY <1>1, <1>2, <1>5, <1>6, <1>7, <1>8, <1>9 DEF e

\* Old events keep what they were and what they saw.
LEMMA OldEvents ==
  ASSUME TypeOK, NEW ip \in IPs, NEW what \in Kinds, log' = Logged(ip, what), Len(log[ip]) < MaxEvents,
         NEW q \in IPs, NEW i \in DOMAIN log'[q], q # ip \/ i # Len(log[ip]) + 1
  PROVE  /\ i \in DOMAIN log[q]
         /\ log'[q][i] = log[q][i]
         /\ log[q][i] \in Entry
         /\ \A kinds, window : Within(log'[q], i, kinds, window) = Within(log[q], i, kinds, window)
         /\ \A kinds, window : Within(log[q], i, kinds, window) \subseteq DOMAIN log[q]
<1>1. CASE q # ip
  <2>1. log'[q] = log[q] /\ log[q] \in Seq(Entry) /\ DOMAIN log[q] = 1 .. Len(log[q])
    BY <1>1, LogGrows
  <2>2. i \in 1 .. Len(log[q])
    BY <2>1
  <2>. QED
    BY <2>1, <2>2 DEF Within
<1>2. CASE q = ip
  <2>. DEFINE e == [at |-> now, what |-> what]
  <2>1. e \in Entry /\ log'[q] = Append(log[q], e) /\ log[q] \in Seq(Entry)
    BY <1>2, LogGrows
  <2>. HIDE DEF e
  <2>2. i \in 1 .. Len(log[q]) /\ DOMAIN log[q] = 1 .. Len(log[q])
    <3>1. /\ DOMAIN log[q] = 1 .. Len(log[q]) /\ DOMAIN log'[q] = 1 .. Len(log'[q])
          /\ Len(log[q]) \in Nat /\ Len(log'[q]) = Len(log[q]) + 1
      BY <1>2, LogGrows
    <3>2. i \in 1 .. Len(log[q]) + 1 /\ i # Len(log[q]) + 1
      BY <1>2, <3>1
    <3>. QED
      BY <3>1, <3>2
  <2>3. log'[q][i] = log[q][i] /\ log[q][i] \in Entry
    BY <2>1, <2>2, AppendFacts
  <2>4. \A kinds, window : Within(log'[q], i, kinds, window) = Within(log[q], i, kinds, window)
    BY <2>1, <2>2, WithinAppend
  <2>5. \A kinds, window : Within(log[q], i, kinds, window) \subseteq DOMAIN log[q]
    BY <2>2 DEF Within
  <2>. QED
    BY <2>2, <2>3, <2>4, <2>5
<1>. QED
  BY <1>1, <1>2

-----------------------------------------------------------------------------
(* The properties, event by event.                                         *)

BurstAt(s, i) == Cardinality(Within(s, i, Passing, BurstWindow)) <= BurstThreshold + 1

LoginAt(s, i) ==
  s[i].what = "login" =>
    Cardinality(Within(s, i, LoggingIn, AuthWindow))
      <= LimitAfter(Cardinality(Within(s, i, Failing, FailureMemory)))

ServedAt(s, i) ==
  s[i].what \in Passing /\ Cardinality(Within(s, i, Failing, FailureMemory)) >= MaxFailed =>
    \A k \in Within(s, i, Failing, FailureMemory) : s[k].at + BlockDuration <= s[i].at

ForeverAt(s, k) ==
  \A i \in DOMAIN s : i < k /\ s[i].what = "burst" => s[k].what \notin Passing

CauseAt(s, i) ==
  \/ Cardinality(Within(s, i, Passing, BurstWindow)) > BurstThreshold
  \/ Cardinality(Within(s, i, Failing, FailureMemory)) >= MaxFailed

\* It is enough to look at the new event.
LEMMA PropertiesStep ==
  ASSUME LimitsInv, NEW ip \in IPs, NEW what \in Kinds, log' = Logged(ip, what),
         Len(log[ip]) < MaxEvents, NEW n, n = Len(log[ip]) + 1,
         BurstAt(log'[ip], n), LoginAt(log'[ip], n), ServedAt(log'[ip], n), ForeverAt(log'[ip], n)
  PROVE  BurstBounded' /\ LoginsWithinLimit' /\ ServedAfterBlock' /\ BurstIsForever'
<1>. USE DEF LimitsInv
<1>1. BurstBounded'
  <2>. SUFFICES ASSUME NEW q \in IPs, NEW i \in DOMAIN log'[q] PROVE BurstAt(log'[q], i)
    BY DEF BurstBounded, BurstAt
  <2>1. CASE q = ip /\ i = n
    BY <2>1
  <2>2. CASE q # ip \/ i # n
    <3>1. i \in DOMAIN log[q]
      BY <2>2, OldEvents
    <3>2. \A kinds, window : Within(log'[q], i, kinds, window) = Within(log[q], i, kinds, window)
      BY <2>2, OldEvents
    <3>3. BurstAt(log[q], i)
      BY <3>1 DEF BurstBounded, BurstAt
    <3>. QED
      BY <3>2, <3>3 DEF BurstAt
  <2>. QED
    BY <2>1, <2>2
<1>2. LoginsWithinLimit'
  <2>. SUFFICES ASSUME NEW q \in IPs, NEW i \in DOMAIN log'[q] PROVE LoginAt(log'[q], i)
    BY DEF LoginsWithinLimit, LoginAt
  <2>1. CASE q = ip /\ i = n
    BY <2>1
  <2>2. CASE q # ip \/ i # n
    <3>1. i \in DOMAIN log[q] /\ log'[q][i] = log[q][i]
      BY <2>2, OldEvents
    <3>2. \A kinds, window : Within(log'[q], i, kinds, window) = Within(log[q], i, kinds, window)
      BY <2>2, OldEvents
    <3>3. LoginAt(log[q], i)
      BY <3>1 DEF LoginsWithinLimit, LoginAt
    <3>. QED
      BY <3>1, <3>2, <3>3 DEF LoginAt
  <2>. QED
    BY <2>1, <2>2
<1>3. ServedAfterBlock'
  <2>. SUFFICES ASSUME NEW q \in IPs, NEW i \in DOMAIN log'[q] PROVE ServedAt(log'[q], i)
    BY DEF ServedAfterBlock, ServedAt
  <2>1. CASE q = ip /\ i = n
    BY <2>1
  <2>2. CASE q # ip \/ i # n
    <3>. DEFINE W == Within(log[q], i, Failing, FailureMemory)
    <3>1. /\ i \in DOMAIN log[q] /\ log'[q][i] = log[q][i]
          /\ Within(log'[q], i, Failing, FailureMemory) = W
      <4>1. i \in DOMAIN log[q] /\ log'[q][i] = log[q][i]
        BY <2>2, OldEvents
      <4>2. \A kinds, window : Within(log'[q], i, kinds, window) = Within(log[q], i, kinds, window)
        BY <2>2, OldEvents
      <4>. QED
        BY <4>1, <4>2
    <3>2. ASSUME NEW k \in W PROVE log'[q][k] = log[q][k]
      <4>. k \in 1 .. i
        BY <3>2 DEF Within
      <4>1. k \in DOMAIN log'[q] /\ (q = ip => k # n)
        <5>1. i \in 1 .. Len(log[q]) /\ Len(log[q]) \in Nat
          BY <3>1, LogGrows
        <5>2. k \in 1 .. Len(log[q])
          BY <5>1
        <5>3. 1 .. Len(log[q]) \subseteq DOMAIN log'[q]
          BY <5>1, LogGrows
        <5>. QED
          BY <5>1, <5>2, <5>3
      <4>. QED
        BY <4>1, OldEvents
    <3>3. log[q][i].what \in Passing /\ Cardinality(W) >= MaxFailed =>
            \A k \in W : log[q][k].at + BlockDuration <= log[q][i].at
      BY <3>1 DEF ServedAfterBlock
    <3>. QED
      BY <3>1, <3>2, <3>3 DEF ServedAt
  <2>. QED
    BY <2>1, <2>2
<1>4. BurstIsForever'
  <2>. SUFFICES ASSUME NEW q \in IPs, NEW k \in DOMAIN log'[q] PROVE ForeverAt(log'[q], k)
    BY DEF BurstIsForever, ForeverAt
  <2>1. CASE q = ip /\ k = n
    BY <2>1
  <2>2. CASE q # ip \/ k # n
    <3>. SUFFICES ASSUME NEW i \in DOMAIN log'[q], i < k, log'[q][i].what = "burst"
                  PROVE  log'[q][k].what \notin Passing
      BY DEF ForeverAt
    <3>1. k \in DOMAIN log[q] /\ log'[q][k] = log[q][k]
      BY <2>2, OldEvents
    <3>2. q = ip => i # n
      BY <3>1, LogGrows
    <3>3. i \in DOMAIN log[q] /\ log'[q][i] = log[q][i]
      BY <3>2, OldEvents
    <3>. QED
      BY <3>1, <3>3 DEF BurstIsForever
  <2>. QED
    BY <2>1, <2>2
<1>. QED
  BY <1>1, <1>2, <1>3, <1>4

\* A block that was there has its cause; a new one must come with one.
LEMMA CauseStep ==
  ASSUME LimitsInv, NEW ip \in IPs, NEW what \in Kinds, log' = Logged(ip, what),
         Len(log[ip]) < MaxEvents,
         \A q \in IPs : blocked_ips'[q] # None =>
           blocked_ips[q] # None \/ \E i \in DOMAIN log'[q] : CauseAt(log'[q], i)
  PROVE  BlockedForCause'
<1>. SUFFICES ASSUME NEW q \in IPs, blocked_ips'[q] # None
              PROVE  \E i \in DOMAIN log'[q] : CauseAt(log'[q], i)
  BY DEF BlockedForCause, CauseAt
<1>1. CASE \E i \in DOMAIN log'[q] : CauseAt(log'[q], i)
  BY <1>1
<1>2. CASE blocked_ips[q] # None
  <2>1. PICK i \in DOMAIN log[q] : CauseAt(log[q], i)
    BY <1>2 DEF LimitsInv, BlockedForCause, CauseAt
  <2>2. i \in DOMAIN log'[q] /\ (q = ip => i # Len(log[ip]) + 1)
    <3>1. i \in 1 .. Len(log[q]) /\ Len(log[q]) \in Nat
      BY <2>1, LogGrows DEF LimitsInv
    <3>2. 1 .. Len(log[q]) \subseteq DOMAIN log'[q]
      BY <2>1, LogGrows DEF LimitsInv
    <3>. QED
      BY <3>1, <3>2
  <2>3. \A kinds, window : Within(log'[q], i, kinds, window) = Within(log[q], i, kinds, window)
    BY <2>2, OldEvents DEF LimitsInv
  <2>. QED
    BY <2>1, <2>2, <2>3 DEF CauseAt
<1>. QED
  BY <1>1, <1>2

\* An address to which nothing happens.
LEMMA Elsewhere ==
  ASSUME LimitsInv, NEW q \in IPs, log'[q] = log[q], now' = now,
         request_history'[q] = request_history[q], failed_attempts'[q] = failed_attempts[q],
         rate_bucket'[q] = rate_bucket[q], blocked_ips'[q] = blocked_ips[q]
  PROVE  AddressInv(q)'
<1>1. AddressInv(q)
  BY DEF LimitsInv
<1>. QED
  BY <1>1 DEF AddressInv, BucketOK, BlockHolds, Stuck

\* A request that passes the burst check.
LEMMA TrackStep ==
  ASSUME LimitsInv, NEW ip \in IPs, NEW what \in Passing, log' = Logged(ip, what), Track(ip),
         NEW n, n = Len(log[ip]) + 1
  PROVE  /\ BurstAt(log'[ip], n) /\ ServedAt(log'[ip], n) /\ ForeverAt(log'[ip], n)
         /\ BlockedForCause'
         /\ Ordered(log'[ip]) /\ Before(log'[ip], now')
         /\ Lists(log'[ip], request_history'[ip], Passing, BurstWindow)
         /\ Lists(log'[ip], failed_attempts'[ip], Failing, FailureMemory)
         /\ BlockHolds(ip)' /\ Stuck(ip)'
         /\ Cardinality(request_history'[ip]) <= BurstThreshold + 1
<1>. DEFINE s == log[ip]
            e == [at |-> now, what |-> what]
            t == log'[ip]
            H == request_history[ip]
            F == failed_attempts[ip]
<1>1. what \in Kinds /\ what # "failed" /\ what # "burst" /\ what \notin Failing
  BY DEF Passing, Kinds, Failing
<1>2. /\ e \in Entry /\ s \in Seq(Entry) /\ t = Append(s, e) /\ DOMAIN t = 1 .. Len(t)
      /\ DOMAIN s = 1 .. Len(s) /\ Len(s) \in Nat /\ Len(t) = Len(s) + 1
      /\ n = Len(s) + 1
  BY <1>1, LogGrows DEF LimitsInv, Track, Arrives
<1>3. /\ AddressInv(ip) /\ TypeOK
      /\ Ordered(s) /\ Before(s, e.at) /\ e.at = now /\ e.what = what
      /\ Lists(s, H, Passing, BurstWindow) /\ Lists(s, F, Failing, FailureMemory)
  BY DEF LimitsInv, AddressInv
<1>4. /\ now' = now /\ failed_attempts' = failed_attempts
      /\ request_history'[ip] = TrackRequest(ip)
      /\ blocked_ips'[ip] = None
      /\ \A q \in IPs : q # ip => blocked_ips'[q] = blocked_ips[q]
  BY <1>3 DEF Track, TypeOK
<1>5. Cardinality(H) <= BurstThreshold /\ Cardinality(H) \in Nat /\ IsFiniteSet(H)
  BY <1>3, ListsAreFinite, ConstantFacts DEF Track, DetectBurst
<1>6. TrackRequest(ip) = {i \in H : s[i].at > e.at - BurstWindow} \cup {n}
  BY DEF TrackRequest, Young, ThisEvent
<1>7. Cardinality(TrackRequest(ip)) <= BurstThreshold + 1
  <2>1. {i \in H : s[i].at > e.at - BurstWindow} \subseteq H
    OBVIOUS
  <2>. HIDE DEF s, e, H
  <2>. DEFINE C == {i \in H : s[i].at > e.at - BurstWindow}
  <2>2. C \subseteq H /\ TrackRequest(ip) = C \cup {n}
    BY <1>6, <2>1
  <2>. HIDE DEF C
  <2>3. /\ Cardinality(C \cup {n}) \in Nat /\ Cardinality(C) \in Nat
        /\ Cardinality(C) <= Cardinality(H) /\ Cardinality(C \cup {n}) <= Cardinality(C) + 1
    BY <1>5, <2>2, OneMore
  <2>. QED
    BY <1>5, <2>2, <2>3, ConstantFacts
<1>. HIDE DEF e, s, t, H, F
<1>8. /\ TrackRequest(ip) = Within(t, n, Passing, BurstWindow)
      /\ Lists(t, TrackRequest(ip), Passing, BurstWindow)
  <2>1. BurstWindow \in Nat \ {0} /\ e.what \in Passing
    BY <1>3, ConstantFacts
  <2>2. \A i : i \in TrackRequest(ip) <=>
                 (i \in H /\ s[i].at > e.at - BurstWindow) \/ i = Len(s) + 1
    BY <1>2, <1>6
  <2>3. /\ e \in Entry /\ s \in Seq(Entry) /\ t = Append(s, e) /\ n = Len(s) + 1
        /\ Before(s, e.at) /\ Lists(s, H, Passing, BurstWindow)
    BY <1>2, <1>3
  <2>. HIDE DEF TrackRequest
  <2>4. ASSUME NEW new, new = TrackRequest(ip)
        PROVE  /\ new = Within(Append(s, e), Len(s) + 1, Passing, BurstWindow)
               /\ Lists(Append(s, e), new, Passing, BurstWindow)
    <3>1. \A i : i \in new <=> (i \in H /\ s[i].at > e.at - BurstWindow) \/ i = Len(s) + 1
      BY <2>2, <2>4
    <3>. QED
      BY <2>1, <2>3, <3>1, ListGrows
  <2>. QED
    BY <2>3, <2>4
<1>9. Lists(t, F, Failing, FailureMemory)
  BY <1>1, <1>2, <1>3, ListKept
<1>10. Ordered(t) /\ Before(t, e.at)
  BY <1>2, <1>3, OrderKept
<1>11. OfKind(t, Failing) = OfKind(s, Failing) /\ OfKind(t, {"burst"}) = OfKind(s, {"burst"})
  BY <1>1, <1>2, <1>3, AppendFacts DEF OfKind, Failing
<1>12. OfKind(s, {"burst"}) = {}
  BY <1>3, <1>5, ConstantFacts DEF AddressInv, Stuck, H, s
<1>13. \A k \in OfKind(s, Failing) :
         t[k] = s[k] /\ s[k] \in Entry
  BY <1>2, AppendFacts DEF OfKind
<1>14. Cardinality(F) >= MaxFailed =>
         \A k \in OfKind(s, Failing) : t[k].at + BlockDuration <= now
  <2>. SUFFICES ASSUME Cardinality(F) >= MaxFailed, NEW k \in OfKind(s, Failing)
                PROVE  s[k].at + BlockDuration <= now
    BY <1>13
  <2>1. CASE blocked_ips[ip] # None /\ blocked_ips[ip] >= s[k].at
    <3>1. now - blocked_ips[ip] >= BlockDuration
      BY <2>1, <1>3, TimesAreIntegers, ConstantFacts DEF Track, Arrives, IsBlocked, TypeOK
    <3>2. blocked_ips[ip] \in Int /\ s[k].at \in Int /\ now \in Int
      BY <2>1, <1>3, <1>13, TimesAreIntegers DEF TypeOK
    <3>. QED
      BY <2>1, <3>1, <3>2, ConstantFacts
  <2>. QED
    BY <2>1, <1>3 DEF AddressInv, BlockHolds, F, s
<1>15. ServedAt(t, n)
  <2>. DEFINE W == Within(t, n, Failing, FailureMemory)
  <2>1. W = {i \in OfKind(s, Failing) : s[i].at > e.at - FailureMemory}
    <3>1. FailureMemory \in Nat \ {0} /\ e.what \notin Failing
      BY <1>1, <1>3, ConstantFacts
    <3>2. \A i : i \in Within(Append(s, e), Len(s) + 1, Failing, FailureMemory) <=>
                   \/ i \in OfKind(s, Failing) /\ s[i].at > e.at - FailureMemory
                   \/ i = Len(s) + 1 /\ e.what \in Failing
      BY <1>2, <3>1, NewEventSees
    <3>. QED
      BY <1>2, <3>1, <3>2
  <2>2. W \subseteq F /\ W \subseteq OfKind(s, Failing)
    BY <2>1, <1>2, <1>3, ListsMissNothing, ConstantFacts, TimesAreIntegers
  <2>3. IsFiniteSet(F) /\ Cardinality(F) \in Nat
    BY <1>3, ListsAreFinite DEF F
  <2>4. Cardinality(W) <= Cardinality(F) /\ Cardinality(W) \in Nat
    BY <2>2, <2>3, FS_Subset, FS_CardinalityType
  <2>5. t[n].at = now
    BY <1>2, <1>3, AppendFacts DEF s
  <2>. HIDE DEF W
  <2>6. Cardinality(W) >= MaxFailed => \A k \in W : t[k].at + BlockDuration <= t[n].at
    BY <2>2, <2>3, <2>4, <2>5, <1>14, ConstantFacts
  <2>. QED
    BY <2>6 DEF ServedAt, W
<1>16. BurstAt(t, n)
  BY <1>7, <1>8 DEF BurstAt
<1>17. ForeverAt(t, n)
  <2>1. \A i \in DOMAIN t : i < n => t[i].what # "burst"
    BY <1>2, <1>11, <1>12 DEF OfKind, s
  <2>. QED
    BY <2>1 DEF ForeverAt
<1>18. BlockedForCause'
  BY <1>1, <1>4, CauseStep DEF Track, Arrives
<1>19. BlockHolds(ip)'
  BY <1>4, <1>11, <1>14 DEF BlockHolds, F, t
<1>20. Stuck(ip)'
  BY <1>11, <1>12 DEF Stuck, t
<1>. QED
  BY <1>3, <1>4, <1>7, <1>8, <1>9, <1>10, <1>15, <1>16, <1>17, <1>18, <1>19, <1>20 DEF t, F

\* An event that is no request that passes: the lists of requests stay.
LEMMA OtherEvent ==
  ASSUME LimitsInv, NEW ip \in IPs, NEW what \in {"burst", "failed"}, log' = Logged(ip, what),
         Len(log[ip]) < MaxEvents, now' = now,
         request_history' = request_history, rate_bucket' = rate_bucket,
         NEW n, n = Len(log[ip]) + 1
  PROVE  /\ BurstAt(log'[ip], n) /\ LoginAt(log'[ip], n)
         /\ ServedAt(log'[ip], n) /\ ForeverAt(log'[ip], n)
         /\ Ordered(log'[ip]) /\ Before(log'[ip], now')
         /\ Lists(log'[ip], request_history'[ip], Passing, BurstWindow)
         /\ BucketOK(ip)'
<1>. DEFINE s == log[ip]
            e == [at |-> now, what |-> what]
            t == log'[ip]
            H == request_history[ip]
<1>1. what \in Kinds /\ what # "login" /\ what \notin Passing
  BY DEF Passing, Kinds
<1>2. /\ e \in Entry /\ s \in Seq(Entry) /\ t = Append(s, e) /\ DOMAIN t = 1 .. Len(t)
      /\ DOMAIN s = 1 .. Len(s) /\ Len(s) \in Nat /\ Len(t) = Len(s) + 1
      /\ n = Len(s) + 1
  BY <1>1, LogGrows DEF LimitsInv
<1>3. /\ AddressInv(ip) /\ TypeOK
      /\ Ordered(s) /\ Before(s, e.at) /\ e.at = now /\ e.what = what
      /\ Lists(s, H, Passing, BurstWindow)
  BY DEF LimitsInv, AddressInv
<1>4. IsFiniteSet(H) /\ Cardinality(H) \in Nat /\ Cardinality(H) <= BurstThreshold + 1
  BY <1>3, ListsAreFinite DEF TypeOK
<1>. HIDE DEF e, s, t, H
<1>5. t[n].what = what
  BY <1>2, <1>3, AppendFacts
<1>6. BurstAt(t, n)
  <2>. DEFINE W == Within(t, n, Passing, BurstWindow)
  <2>1. \A i : i \in Within(Append(s, e), Len(s) + 1, Passing, BurstWindow) <=>
               \/ i \in OfKind(s, Passing) /\ s[i].at > e.at - BurstWindow
               \/ i = Len(s) + 1 /\ e.what \in Passing
    BY <1>2, ConstantFacts, NewEventSees
  <2>2. {i \in OfKind(s, Passing) : s[i].at > e.at - BurstWindow} \subseteq H
    BY <1>2, <1>3, ListsMissNothing, ConstantFacts, TimesAreIntegers
  <2>3. W \subseteq H
    BY <1>1, <1>2, <1>3, <2>1, <2>2
  <2>. HIDE DEF W
  <2>4. Cardinality(W) <= Cardinality(H) /\ Cardinality(W) \in Nat
    BY <1>4, <2>3, FS_Subset, FS_CardinalityType
  <2>5. Cardinality(W) <= BurstThreshold + 1
    BY <1>4, <2>4, ConstantFacts
  <2>. QED
    BY <2>5 DEF BurstAt, W
<1>7. LoginAt(t, n) /\ ServedAt(t, n) /\ ForeverAt(t, n)
  BY <1>1, <1>5 DEF LoginAt, ServedAt, ForeverAt
<1>8. Ordered(t) /\ Before(t, e.at)
  BY <1>2, <1>3, OrderKept
<1>9. Lists(t, H, Passing, BurstWindow)
  BY <1>1, <1>2, <1>3, ListKept
<1>10. BucketOK(ip)'
  <2>1. /\ OfKind(t, LoggingIn) = OfKind(s, LoggingIn)
        /\ \A i \in OfKind(s, LoggingIn) : t[i] = s[i]
    BY <1>1, <1>2, <1>3, AppendFacts DEF OfKind, LoggingIn
  <2>. QED
    BY <1>3, <2>1 DEF AddressInv, BucketOK, s, t
<1>. QED
  BY <1>3, <1>6, <1>7, <1>8, <1>9, <1>10 DEF t, H

\* The window of the logins: what remains young in it, and no more.
LEMMA BucketStep ==
  ASSUME LimitsInv, NEW ip \in IPs, NEW what \in Passing, log' = Logged(ip, what),
         Len(log[ip]) < MaxEvents, now' = now,
         NEW n, n = Len(log[ip]) + 1,
         NEW new \in {rate_bucket[ip], Young(ip, rate_bucket[ip], AuthWindow)},
         rate_bucket'[ip] = IF what = "login" THEN new \cup {n} ELSE new
  PROVE  BucketOK(ip)'
<1>. DEFINE s == log[ip]
            e == [at |-> now, what |-> what]
            t == log'[ip]
<1>1. what \in Kinds
  BY DEF Passing, Kinds
<1>2. /\ e \in Entry /\ s \in Seq(Entry) /\ t = Append(s, e) /\ DOMAIN t = 1 .. Len(t)
      /\ DOMAIN s = 1 .. Len(s) /\ Len(s) \in Nat /\ Len(t) = Len(s) + 1
      /\ n = Len(s) + 1 /\ e.what = what
  BY <1>1, LogGrows DEF LimitsInv
<1>3. /\ rate_bucket[ip] \subseteq OfKind(s, LoggingIn)
      /\ \A i \in OfKind(s, LoggingIn) : s[i].at > now - AuthWindow => i \in rate_bucket[ip]
  BY DEF LimitsInv, AddressInv, BucketOK
<1>4. /\ new \subseteq OfKind(s, LoggingIn)
      /\ \A i \in OfKind(s, LoggingIn) : s[i].at > now - AuthWindow => i \in new
  BY <1>3 DEF Young
<1>. HIDE DEF e, s, t
<1>5. /\ OfKind(t, LoggingIn) = OfKind(s, LoggingIn) \cup (IF what = "login" THEN {n} ELSE {})
      /\ \A i \in OfKind(s, LoggingIn) : t[i] = s[i]
  BY <1>2, AppendFacts DEF OfKind, LoggingIn
<1>. QED
  BY <1>4, <1>5 DEF BucketOK, t

LEMMA InitLimits == Init => LimitsInv
<1>. SUFFICES ASSUME Init PROVE LimitsInv
  OBVIOUS
<1>1. Cardinality({}) = 0
  BY FS_EmptySet
<1>2. \A ip \in IPs : log[ip] = <<>> /\ request_history[ip] = {} /\ failed_attempts[ip] = {}
                      /\ rate_bucket[ip] = {} /\ blocked_ips[ip] = None
  BY DEF Init
<1>3. \A kinds : OfKind(<<>>, kinds) = {}
  BY DEF OfKind
<1>4. TypeOK
  BY <1>1, ConstantFacts DEF Init, TypeOK, Times
<1>5. \A ip \in IPs : AddressInv(ip)
  BY <1>1, <1>2, <1>3, ConstantFacts
  DEF AddressInv, Ordered, Before, Lists, BucketOK, BlockHolds, Stuck
<1>6. BurstBounded /\ LoginsWithinLimit /\ ServedAfterBlock /\ BlockedForCause /\ BurstIsForever
  BY <1>2 DEF BurstBounded, LoginsWithinLimit, ServedAfterBlock, BlockedForCause, BurstIsForever
<1>. QED
  BY <1>4, <1>5, <1>6 DEF LimitsInv

\* A login that passes stays within the limit.
LEMMA LoginPasses ==
  ASSUME LimitsInv, NEW ip \in IPs, log' = Logged(ip, "login"), Len(log[ip]) < MaxEvents,
         ~RateLimited(ip), NEW n, n = Len(log[ip]) + 1
  PROVE  /\ LoginAt(log'[ip], n)
         /\ Cardinality(Young(ip, rate_bucket[ip], AuthWindow) \cup {n}) <= CleanLimit
<1>. DEFINE s == log[ip]
            e == [at |-> now, what |-> "login"]
            t == log'[ip]
            Y == Young(ip, rate_bucket[ip], AuthWindow)
            F == failed_attempts[ip]
            V == Within(t, n, Failing, FailureMemory)
            W == Within(t, n, LoggingIn, AuthWindow)
<1>1. /\ e \in Entry /\ s \in Seq(Entry) /\ t = Append(s, e)
      /\ Len(s) \in Nat /\ n = Len(s) + 1 /\ e.what = "login" /\ e.at = now
  BY LogGrows DEF LimitsInv, Kinds
<1>2. /\ TypeOK /\ Before(s, e.at) /\ Lists(s, F, Failing, FailureMemory)
      /\ rate_bucket[ip] \subseteq OfKind(s, LoggingIn)
      /\ \A i \in OfKind(s, LoggingIn) : s[i].at > now - AuthWindow => i \in rate_bucket[ip]
  BY DEF LimitsInv, AddressInv, BucketOK
<1>3. /\ IsFiniteSet(F) /\ Cardinality(F) \in Nat
      /\ IsFiniteSet(rate_bucket[ip]) /\ Y \subseteq rate_bucket[ip]
  BY <1>2, ListsAreFinite DEF Young
<1>4. \A i : i \in Y <=> i \in rate_bucket[ip] /\ s[i].at > now - AuthWindow
  BY DEF Young
<1>5. AuthLimit(ip) = LimitAfter(Cardinality(F))
  BY <1>3, ConstantFacts DEF AuthLimit, LimitAfter
<1>6. Cardinality(Y) < LimitAfter(Cardinality(F))
  <2>1. Cardinality(Y) \in Nat
    BY <1>3, FS_Subset, FS_CardinalityType
  <2>2. LimitAfter(Cardinality(F)) \in Nat
    BY ConstantFacts DEF LimitAfter
  <2>. QED
    BY <1>5, <2>1, <2>2 DEF RateLimited
<1>. HIDE DEF e, s, t, Y, F, V, W
<1>7. W = Y \cup {n}
  <2>1. \A i : i \in Within(Append(s, e), Len(s) + 1, LoggingIn, AuthWindow) <=>
               \/ i \in OfKind(s, LoggingIn) /\ s[i].at > e.at - AuthWindow
               \/ i = Len(s) + 1 /\ e.what \in LoggingIn
    BY <1>1, ConstantFacts, NewEventSees
  <2>2. \A i : i \in W <=> i \in Y \/ i = n
    BY <1>1, <1>2, <1>4, <2>1 DEF W, LoggingIn
  <2>. QED
    BY <2>2
<1>8. V \subseteq F
  <2>1. \A i : i \in Within(Append(s, e), Len(s) + 1, Failing, FailureMemory) <=>
               \/ i \in OfKind(s, Failing) /\ s[i].at > e.at - FailureMemory
               \/ i = Len(s) + 1 /\ e.what \in Failing
    BY <1>1, ConstantFacts, NewEventSees
  <2>2. {i \in OfKind(s, Failing) : s[i].at > e.at - FailureMemory} \subseteq F
    BY <1>1, <1>2, ListsMissNothing, ConstantFacts, TimesAreIntegers
  <2>. QED
    BY <1>1, <2>1, <2>2 DEF V, Failing
<1>9. Cardinality(V) <= Cardinality(F) /\ Cardinality(V) \in Nat
  BY <1>3, <1>8, FS_Subset, FS_CardinalityType
<1>10. /\ Cardinality(Y \cup {n}) <= Cardinality(Y) + 1
       /\ Cardinality(Y \cup {n}) \in Nat /\ Cardinality(Y) \in Nat
  BY <1>3, OneMore
<1>11. /\ LimitAfter(Cardinality(F)) <= LimitAfter(Cardinality(V))
       /\ LimitAfter(Cardinality(F)) <= CleanLimit
       /\ LimitAfter(Cardinality(F)) \in Nat /\ LimitAfter(Cardinality(V)) \in Nat
  <2>1. LimitAfter(Cardinality(F)) <= LimitAfter(Cardinality(V))
    BY <1>3, <1>9, LimitAntitone
  <2>. QED
    BY <2>1, ConstantFacts DEF LimitAfter
<1>12. Cardinality(Y \cup {n}) <= LimitAfter(Cardinality(V)) /\ Cardinality(Y \cup {n}) <= CleanLimit
  BY <1>6, <1>10, <1>11, ConstantFacts
<1>. QED
  BY <1>7, <1>12 DEF LoginAt, V, W, Y, t

-----------------------------------------------------------------------------
(* One lemma per action.                                                   *)

\* The lists stay sets of events.
LEMMA ListsTyped ==
  ASSUME TypeOK, NEW ip \in IPs, NEW n, n = Len(log[ip]) + 1, Len(log[ip]) < MaxEvents
  PROVE  /\ n \in 1 .. MaxEvents
         /\ request_history[ip] \in SUBSET (1 .. MaxEvents)
         /\ failed_attempts[ip] \in SUBSET (1 .. MaxEvents)
         /\ rate_bucket[ip] \in SUBSET (1 .. MaxEvents)
         /\ TrackRequest(ip) \in SUBSET (1 .. MaxEvents)
         /\ Young(ip, rate_bucket[ip], AuthWindow) \in SUBSET (1 .. MaxEvents)
         /\ Young(ip, failed_attempts[ip], FailureMemory) \in SUBSET (1 .. MaxEvents)
         /\ TrackRequest(ip) \subseteq request_history[ip] \cup {n}
<1>1. log[ip] \in Seq([at : Times, what : Kinds])
  BY DEF TypeOK
<1>2. n \in 1 .. MaxEvents
  BY <1>1, ConstantFacts
<1>. QED
  BY <1>2 DEF TypeOK, TrackRequest, Young, ThisEvent

\* TypeOK after a step that logs an event of one address: each list has grown
\* by the event at most.
LEMMA TypeStep ==
  ASSUME TypeOK, NEW ip \in IPs, NEW what \in Kinds, log' = Logged(ip, what),
         Len(log[ip]) < MaxEvents, now' = now,
         request_history' \in [IPs -> SUBSET (1 .. MaxEvents)],
         failed_attempts' \in [IPs -> SUBSET (1 .. MaxEvents)],
         rate_bucket' \in [IPs -> SUBSET (1 .. MaxEvents)],
         \A q \in IPs :
           LET Newest == IF q = ip THEN {Len(log[ip]) + 1} ELSE {}
           IN  /\ request_history'[q] \subseteq request_history[q] \cup Newest
               /\ failed_attempts'[q] \subseteq failed_attempts[q] \cup Newest
               /\ rate_bucket'[q] \subseteq rate_bucket[q] \cup Newest
               /\ Cardinality(request_history'[q]) <= BurstThreshold + 1
               /\ Cardinality(rate_bucket'[q]) <= CleanLimit,
         blocked_ips' \in [IPs -> Times \cup {None}],
         waiting' \in [IPs -> Nat]
  PROVE  TypeOK'
<1>1. /\ log' \in [IPs -> Seq([at : Times, what : Kinds])]
      /\ \A q \in IPs : Len(log'[q]) <= MaxEvents
      /\ \A q \in IPs : DOMAIN log[q] \subseteq DOMAIN log'[q]
      /\ Len(log[ip]) + 1 \in DOMAIN log'[ip]
  <2>1. /\ log' \in [IPs -> Seq(Entry)]
        /\ \A q \in IPs : Len(log'[q]) <= MaxEvents
        /\ \A q \in IPs : DOMAIN log[q] \subseteq DOMAIN log'[q]
    BY LogGrows
  <2>2. /\ DOMAIN log'[ip] = 1 .. Len(log'[ip]) /\ Len(log[ip]) \in Nat
        /\ Len(log'[ip]) = Len(log[ip]) + 1
    BY LogGrows
  <2>3. Len(log[ip]) + 1 \in DOMAIN log'[ip]
    BY <2>2
  <2>. QED
    BY <2>1, <2>3 DEF Entry
<1>2. \A q \in IPs : request_history[q] \cup failed_attempts[q] \cup rate_bucket[q] \subseteq DOMAIN log[q]
  BY DEF TypeOK
<1>3. ASSUME NEW q \in IPs
      PROVE  request_history'[q] \cup failed_attempts'[q] \cup rate_bucket'[q] \subseteq DOMAIN log'[q]
  <2>1. CASE q = ip
    BY <2>1, <1>1, <1>2
  <2>2. CASE q # ip
    BY <2>2, <1>1, <1>2
  <2>. QED
    BY <2>1, <2>2
<1>4. now' \in Times
  BY DEF TypeOK
<1>. QED
  BY <1>1, <1>3, <1>4 DEF TypeOK, Times, Kinds

LEMMA NewEvent ==
  ASSUME TypeOK, NEW ip \in IPs, NEW what \in Kinds, log' = Logged(ip, what), Len(log[ip]) < MaxEvents
  PROVE  log'[ip][Len(log[ip]) + 1].what = what
<1>. DEFINE e == [at |-> now, what |-> what]
<1>1. e \in Entry /\ log'[ip] = Append(log[ip], e) /\ log[ip] \in Seq(Entry) /\ e.what = what
  BY LogGrows
<1>. HIDE DEF e
<1>. QED
  BY <1>1, AppendFacts

\* The three actions that let a request past the burst check.
LEMMA TrackedRequest ==
  ASSUME LimitsInv, NEW ip \in IPs, NEW what \in Passing, log' = Logged(ip, what), Track(ip),
         rate_bucket' \in [IPs -> SUBSET (1 .. MaxEvents)],
         \A q \in IPs : q # ip => rate_bucket'[q] = rate_bucket[q],
         rate_bucket'[ip] \subseteq rate_bucket[ip] \cup {Len(log[ip]) + 1},
         Cardinality(rate_bucket'[ip]) <= CleanLimit,
         BucketOK(ip)', LoginAt(log'[ip], Len(log[ip]) + 1), waiting' \in [IPs -> Nat]
  PROVE  LimitsInv'
<1>. DEFINE n == Len(log[ip]) + 1
<1>1. what \in Kinds /\ TypeOK /\ Len(log[ip]) < MaxEvents
  BY DEF Passing, Kinds, LimitsInv, Track, Arrives
<1>2. /\ BurstAt(log'[ip], n) /\ ServedAt(log'[ip], n) /\ ForeverAt(log'[ip], n)
      /\ BlockedForCause'
      /\ Ordered(log'[ip]) /\ Before(log'[ip], now')
      /\ Lists(log'[ip], request_history'[ip], Passing, BurstWindow)
      /\ Lists(log'[ip], failed_attempts'[ip], Failing, FailureMemory)
      /\ BlockHolds(ip)' /\ Stuck(ip)'
      /\ Cardinality(request_history'[ip]) <= BurstThreshold + 1
  BY TrackStep
<1>3. BurstBounded' /\ LoginsWithinLimit' /\ ServedAfterBlock' /\ BurstIsForever'
  BY <1>1, <1>2, PropertiesStep
<1>4. /\ now' = now /\ failed_attempts' = failed_attempts
      /\ request_history' = [request_history EXCEPT ![ip] = TrackRequest(ip)]
      /\ blocked_ips' = [blocked_ips EXCEPT ![ip] = None]
  BY DEF Track
<1>5. /\ TrackRequest(ip) \in SUBSET (1 .. MaxEvents)
      /\ TrackRequest(ip) \subseteq request_history[ip] \cup {n}
  BY <1>1, ListsTyped
<1>6. /\ request_history' \in [IPs -> SUBSET (1 .. MaxEvents)]
      /\ request_history'[ip] \subseteq request_history[ip] \cup {n}
      /\ \A q \in IPs : q # ip => request_history'[q] = request_history[q]
  BY <1>1, <1>4, <1>5 DEF TypeOK
<1>7. /\ blocked_ips' \in [IPs -> Times \cup {None}]
      /\ \A q \in IPs : q # ip => blocked_ips'[q] = blocked_ips[q]
      /\ failed_attempts' \in [IPs -> SUBSET (1 .. MaxEvents)]
      /\ \A q \in IPs : /\ Cardinality(request_history[q]) <= BurstThreshold + 1
                        /\ Cardinality(rate_bucket[q]) <= CleanLimit
  BY <1>1, <1>4 DEF TypeOK
<1>8. ASSUME NEW q \in IPs
      PROVE  /\ request_history'[q] \subseteq request_history[q] \cup IF q = ip THEN {n} ELSE {}
             /\ failed_attempts'[q] \subseteq failed_attempts[q] \cup IF q = ip THEN {n} ELSE {}
             /\ rate_bucket'[q] \subseteq rate_bucket[q] \cup IF q = ip THEN {n} ELSE {}
             /\ Cardinality(request_history'[q]) <= BurstThreshold + 1
             /\ Cardinality(rate_bucket'[q]) <= CleanLimit
  BY <1>2, <1>4, <1>6, <1>7
<1>9. TypeOK'
  BY <1>1, <1>4, <1>6, <1>7, <1>8, TypeStep
<1>10. AddressInv(ip)'
  BY <1>2 DEF AddressInv
<1>11. ASSUME NEW q \in IPs, q # ip PROVE AddressInv(q)'
  <2>1. log'[q] = log[q]
    BY <1>1, <1>11, LogGrows
  <2>. QED
    BY <1>4, <1>6, <1>7, <1>11, <2>1, Elsewhere
<1>. QED
  BY <1>2, <1>3, <1>9, <1>10, <1>11 DEF LimitsInv

LEMMA ForwardStep ==
  ASSUME LimitsInv, NEW ip \in IPs, Forward(ip)
  PROVE  LimitsInv'
<1>1. /\ TypeOK /\ Len(log[ip]) < MaxEvents /\ now' = now /\ "page" \in Passing /\ "page" \in Kinds
      /\ log' = Logged(ip, "page") /\ rate_bucket' = rate_bucket /\ waiting' = waiting /\ Track(ip)
  BY DEF LimitsInv, Forward, Track, Arrives, Passing, Kinds
<1>2. /\ rate_bucket' \in [IPs -> SUBSET (1 .. MaxEvents)]
      /\ Cardinality(rate_bucket'[ip]) <= CleanLimit
      /\ waiting' \in [IPs -> Nat]
  BY <1>1 DEF TypeOK
<1>3. BucketOK(ip)'
  BY <1>1, BucketStep
<1>4. LoginAt(log'[ip], Len(log[ip]) + 1)
  BY <1>1, NewEvent DEF LoginAt
<1>. QED
  BY <1>1, <1>2, <1>3, <1>4, TrackedRequest

LEMMA ForwardLoginStep ==
  ASSUME LimitsInv, NEW ip \in IPs, ForwardLogin(ip)
  PROVE  LimitsInv'
<1>. DEFINE n == Len(log[ip]) + 1
            Y == Young(ip, rate_bucket[ip], AuthWindow)
<1>1. /\ TypeOK /\ Len(log[ip]) < MaxEvents /\ now' = now /\ "login" \in Passing /\ "login" \in Kinds
      /\ log' = Logged(ip, "login") /\ Track(ip) /\ ~RateLimited(ip)
      /\ rate_bucket' = [rate_bucket EXCEPT ![ip] = Y \cup {n}]
  BY DEF LimitsInv, ForwardLogin, Track, Arrives, Passing, Kinds, ThisEvent
<1>2. Y \cup {n} \in SUBSET (1 .. MaxEvents)
  BY <1>1, ListsTyped
<1>3. LoginAt(log'[ip], n) /\ Cardinality(Y \cup {n}) <= CleanLimit
  BY <1>1, LoginPasses
<1>4. Y \subseteq rate_bucket[ip]
  BY DEF Young
<1>5. waiting' \in [IPs -> Nat]
  BY <1>1 DEF TypeOK, ForwardLogin
<1>6. /\ rate_bucket' \in [IPs -> SUBSET (1 .. MaxEvents)] /\ rate_bucket'[ip] = Y \cup {n}
      /\ \A q \in IPs : q # ip => rate_bucket'[q] = rate_bucket[q]
  BY <1>1, <1>2 DEF TypeOK
<1>7. BucketOK(ip)'
  BY <1>1, <1>6, BucketStep
<1>. HIDE DEF Y
<1>8. /\ rate_bucket'[ip] \subseteq rate_bucket[ip] \cup {n}
      /\ Cardinality(rate_bucket'[ip]) <= CleanLimit
  BY <1>3, <1>4, <1>6
<1>. QED
  BY <1>1, <1>3, <1>5, <1>6, <1>7, <1>8, TrackedRequest

LEMMA RefuseLoginStep ==
  ASSUME LimitsInv, NEW ip \in IPs, RefuseLogin(ip)
  PROVE  LimitsInv'
<1>. DEFINE n == Len(log[ip]) + 1
            Y == Young(ip, rate_bucket[ip], AuthWindow)
<1>1. /\ TypeOK /\ Len(log[ip]) < MaxEvents /\ now' = now /\ "limited" \in Passing
      /\ "limited" \in Kinds /\ log' = Logged(ip, "limited") /\ Track(ip) /\ waiting' = waiting
      /\ rate_bucket' = [rate_bucket EXCEPT ![ip] = Y]
  BY DEF LimitsInv, RefuseLogin, Track, Arrives, Passing, Kinds
<1>2. Y \in SUBSET (1 .. MaxEvents)
  BY <1>1, ListsTyped
<1>3. Y \subseteq rate_bucket[ip]
  BY DEF Young
<1>4. /\ rate_bucket' \in [IPs -> SUBSET (1 .. MaxEvents)] /\ rate_bucket'[ip] = Y
      /\ \A q \in IPs : q # ip => rate_bucket'[q] = rate_bucket[q]
  BY <1>1, <1>2 DEF TypeOK
<1>5. BucketOK(ip)'
  BY <1>1, <1>4, BucketStep
<1>. HIDE DEF Y
<1>6. Cardinality(Y) <= CleanLimit
  <2>1. IsFiniteSet(rate_bucket[ip]) /\ Cardinality(rate_bucket[ip]) \in Nat
    BY <1>1, ListsAreFinite
  <2>2. Cardinality(Y) <= Cardinality(rate_bucket[ip]) /\ Cardinality(Y) \in Nat
    BY <1>3, <2>1, FS_Subset, FS_CardinalityType
  <2>3. Cardinality(rate_bucket[ip]) <= CleanLimit
    BY <1>1 DEF TypeOK
  <2>. QED
    BY <2>1, <2>2, <2>3, ConstantFacts
<1>7. LoginAt(log'[ip], n)
  BY <1>1, NewEvent DEF LoginAt
<1>8. waiting' \in [IPs -> Nat]
  BY <1>1 DEF TypeOK
<1>9. /\ rate_bucket'[ip] \subseteq rate_bucket[ip] \cup {n}
      /\ Cardinality(rate_bucket'[ip]) <= CleanLimit
  BY <1>3, <1>4, <1>6
<1>. QED
  BY <1>1, <1>4, <1>5, <1>7, <1>8, <1>9, TrackedRequest

\* The two actions that log an event of another kind.
LEMMA BlockingEvent ==
  ASSUME LimitsInv, NEW ip \in IPs, NEW what \in {"burst", "failed"}, log' = Logged(ip, what),
         Len(log[ip]) < MaxEvents, now' = now,
         request_history' = request_history, rate_bucket' = rate_bucket,
         failed_attempts' \in [IPs -> SUBSET (1 .. MaxEvents)],
         failed_attempts'[ip] \subseteq failed_attempts[ip] \cup {Len(log[ip]) + 1},
         \A q \in IPs : q # ip => failed_attempts'[q] = failed_attempts[q],
         blocked_ips' \in [IPs -> Times \cup {None}],
         \A q \in IPs : q # ip => blocked_ips'[q] = blocked_ips[q],
         Lists(log'[ip], failed_attempts'[ip], Failing, FailureMemory),
         BlockHolds(ip)', Stuck(ip)', BlockedForCause', waiting' \in [IPs -> Nat]
  PROVE  LimitsInv'
<1>. DEFINE n == Len(log[ip]) + 1
<1>1. what \in Kinds /\ TypeOK
  BY DEF Kinds, LimitsInv
<1>2. /\ BurstAt(log'[ip], n) /\ LoginAt(log'[ip], n) /\ ServedAt(log'[ip], n) /\ ForeverAt(log'[ip], n)
      /\ Ordered(log'[ip]) /\ Before(log'[ip], now')
      /\ Lists(log'[ip], request_history'[ip], Passing, BurstWindow)
      /\ BucketOK(ip)'
  BY OtherEvent
<1>3. BurstBounded' /\ LoginsWithinLimit' /\ ServedAfterBlock' /\ BurstIsForever'
  BY <1>1, <1>2, PropertiesStep
<1>4. /\ request_history' \in [IPs -> SUBSET (1 .. MaxEvents)]
      /\ rate_bucket' \in [IPs -> SUBSET (1 .. MaxEvents)]
      /\ \A q \in IPs : /\ Cardinality(request_history'[q]) <= BurstThreshold + 1
                        /\ Cardinality(rate_bucket'[q]) <= CleanLimit
  BY <1>1 DEF TypeOK
<1>5. ASSUME NEW q \in IPs
      PROVE  /\ request_history'[q] \subseteq request_history[q] \cup IF q = ip THEN {n} ELSE {}
             /\ failed_attempts'[q] \subseteq failed_attempts[q] \cup IF q = ip THEN {n} ELSE {}
             /\ rate_bucket'[q] \subseteq rate_bucket[q] \cup IF q = ip THEN {n} ELSE {}
  OBVIOUS
<1>6. TypeOK'
  BY <1>1, <1>4, <1>5, TypeStep
<1>7. AddressInv(ip)'
  BY <1>2 DEF AddressInv
<1>8. ASSUME NEW q \in IPs, q # ip PROVE AddressInv(q)'
  <2>1. log'[q] = log[q]
    BY <1>1, <1>8, LogGrows
  <2>. QED
    BY <1>8, <2>1, Elsewhere
<1>. QED
  BY <1>2, <1>3, <1>6, <1>7, <1>8 DEF LimitsInv

LEMMA RefuseBurstStep ==
  ASSUME LimitsInv, NEW ip \in IPs, RefuseBurst(ip)
  PROVE  LimitsInv'
<1>. DEFINE s == log[ip]
            t == log'[ip]
            H == request_history[ip]
            F == failed_attempts[ip]
            e == [at |-> now, what |-> "burst"]
<1>1. /\ TypeOK /\ AddressInv(ip) /\ Len(log[ip]) < MaxEvents /\ now' = now /\ log' = Logged(ip, "burst")
      /\ request_history' = request_history /\ rate_bucket' = rate_bucket
      /\ failed_attempts' = failed_attempts /\ waiting' = waiting
      /\ blocked_ips' = [blocked_ips EXCEPT ![ip] = now]
      /\ Cardinality(H) > BurstThreshold
  BY DEF LimitsInv, RefuseBurst, Arrives, DetectBurst
<1>2. /\ failed_attempts' \in [IPs -> SUBSET (1 .. MaxEvents)] /\ waiting' \in [IPs -> Nat]
      /\ blocked_ips' \in [IPs -> Times \cup {None}] /\ blocked_ips'[ip] = now
      /\ \A q \in IPs : q # ip => blocked_ips'[q] = blocked_ips[q]
  BY <1>1 DEF TypeOK
<1>3. /\ e \in Entry /\ s \in Seq(Entry) /\ t = Append(s, e) /\ e.what = "burst" /\ e.at = now
      /\ DOMAIN s = 1 .. Len(s) /\ DOMAIN s \subseteq DOMAIN t
  BY <1>1, LogGrows DEF Kinds
<1>4. /\ Lists(s, F, Failing, FailureMemory) /\ Lists(s, H, Passing, BurstWindow)
      /\ Before(s, now)
  BY <1>1 DEF AddressInv
<1>. HIDE DEF s, t, H, F, e
<1>5. Lists(t, F, Failing, FailureMemory)
  BY <1>3, <1>4, ListKept DEF Failing
<1>6. BlockHolds(ip)'
  <2>1. \A k \in OfKind(t, Failing) : t[k].at <= now /\ t[k].at \in Int
    BY <1>3, <1>4, AppendFacts, TimesAreIntegers DEF OfKind, Failing, Before
  <2>2. now # None /\ now \in Int
    BY <1>1, TimesAreIntegers, ConstantFacts DEF TypeOK
  <2>. QED
    BY <1>2, <2>1, <2>2 DEF BlockHolds, t
<1>7. Stuck(ip)'
  BY <1>1 DEF Stuck, H
<1>8. \E i \in DOMAIN t : CauseAt(t, i)
  <2>1. H # {}
    <3>1. H = {} => Cardinality(H) = 0
      BY FS_EmptySet
    <3>2. Cardinality(H) > BurstThreshold /\ BurstThreshold \in Nat
      BY <1>1, ConstantFacts
    <3>. QED
      BY <3>1, <3>2
  <2>2. PICK i \in OfKind(s, Passing) : H = Within(s, i, Passing, BurstWindow)
    BY <1>4, <2>1 DEF Lists
  <2>3. i \in 1 .. Len(s) /\ i \in DOMAIN t
    BY <1>3 DEF OfKind
  <2>4. Within(t, i, Passing, BurstWindow) = H
    BY <1>3, <2>2, <2>3, WithinAppend
  <2>. QED
    BY <1>1, <2>3, <2>4 DEF CauseAt
<1>9. BlockedForCause'
  <2>1. ASSUME NEW q \in IPs, blocked_ips'[q] # None
        PROVE  blocked_ips[q] # None \/ \E i \in DOMAIN log'[q] : CauseAt(log'[q], i)
    BY <1>2, <1>8, <2>1 DEF t
  <2>. QED
    BY <1>1, <2>1, CauseStep DEF Kinds
<1>. QED
  BY <1>1, <1>2, <1>5, <1>6, <1>7, <1>9, BlockingEvent DEF t, F

LEMMA LoginFailsStep ==
  ASSUME LimitsInv, NEW ip \in IPs, LoginFails(ip)
  PROVE  LimitsInv'
<1>. DEFINE s == log[ip]
            t == log'[ip]
            n == Len(log[ip]) + 1
            F == failed_attempts[ip]
            e == [at |-> now, what |-> "failed"]
            G == Young(ip, failed_attempts[ip], FailureMemory) \cup {n}
<1>1. /\ TypeOK /\ AddressInv(ip) /\ Len(log[ip]) < MaxEvents /\ now' = now /\ log' = Logged(ip, "failed")
      /\ request_history' = request_history /\ rate_bucket' = rate_bucket
      /\ failed_attempts' = [failed_attempts EXCEPT ![ip] = G]
      /\ waiting' = [waiting EXCEPT ![ip] = @ - 1] /\ waiting[ip] > 0
      /\ blocked_ips' = [blocked_ips EXCEPT ![ip] = IF TooManyFailures(G) THEN now ELSE @]
  BY DEF LimitsInv, LoginFails, ThisEvent
<1>2. G \in SUBSET (1 .. MaxEvents) /\ G \subseteq F \cup {n}
  BY <1>1, ListsTyped DEF Young
<1>3. /\ failed_attempts' \in [IPs -> SUBSET (1 .. MaxEvents)] /\ failed_attempts'[ip] = G
      /\ \A q \in IPs : q # ip => failed_attempts'[q] = failed_attempts[q]
  BY <1>1, <1>2 DEF TypeOK
<1>4. waiting' \in [IPs -> Nat]
  <2>1. waiting[ip] \in Nat /\ waiting[ip] - 1 \in Nat
    BY <1>1 DEF TypeOK
  <2>. QED
    BY <1>1, <2>1 DEF TypeOK
<1>5. /\ blocked_ips' \in [IPs -> Times \cup {None}]
      /\ blocked_ips'[ip] = IF TooManyFailures(G) THEN now ELSE blocked_ips[ip]
      /\ \A q \in IPs : q # ip => blocked_ips'[q] = blocked_ips[q]
  BY <1>1 DEF TypeOK
<1>6. /\ e \in Entry /\ s \in Seq(Entry) /\ t = Append(s, e) /\ e.what = "failed" /\ e.at = now
      /\ n = Len(s) + 1 /\ DOMAIN t = 1 .. n /\ Len(s) \in Nat
  <2>1. Len(t) = n
    BY <1>1, LogGrows DEF Kinds
  <2>. QED
    BY <1>1, <2>1, LogGrows DEF Kinds
<1>7. Lists(s, F, Failing, FailureMemory) /\ Before(s, e.at)
  BY <1>1 DEF AddressInv
<1>8. \A i : i \in G <=> (i \in F /\ s[i].at > e.at - FailureMemory) \/ i = Len(s) + 1
  BY <1>6 DEF Young
<1>. HIDE DEF s, t, n, F, e, G
<1>9. /\ G = Within(Append(s, e), Len(s) + 1, Failing, FailureMemory)
      /\ Lists(Append(s, e), G, Failing, FailureMemory)
  <2>1. FailureMemory \in Nat \ {0} /\ e.what \in Failing
    BY <1>6, ConstantFacts DEF Failing
  <2>2. ASSUME NEW new, new = G
        PROVE  /\ new = Within(Append(s, e), Len(s) + 1, Failing, FailureMemory)
               /\ Lists(Append(s, e), new, Failing, FailureMemory)
    <3>1. \A i : i \in new <=> (i \in F /\ s[i].at > e.at - FailureMemory) \/ i = Len(s) + 1
      BY <1>8, <2>2
    <3>2. e \in Entry /\ s \in Seq(Entry)
      BY <1>6
    <3>. QED
      BY <1>7, <2>1, <3>1, <3>2, ListGrows
  <2>. QED
    BY <2>2
<1>10. BlockHolds(ip)'
  <2>1. \A k \in OfKind(t, Failing) : t[k].at <= now /\ t[k].at \in Int
    <3>1. \A k \in 1 .. Len(t) : t[k].at <= now
      <4>1. Ordered(s)
        BY <1>1 DEF AddressInv, s
      <4>2. Before(Append(s, e), e.at)
        BY <1>6, <1>7, <4>1, OrderKept
      <4>. QED
        BY <1>6, <4>2 DEF Before
    <3>2. \A k \in 1 .. Len(t) : t[k] \in Entry
      BY <1>6, AppendFacts
    <3>. QED
      BY <3>1, <3>2, TimesAreIntegers DEF OfKind
  <2>2. now # None /\ now \in Int
    BY <1>1, TimesAreIntegers, ConstantFacts DEF TypeOK
  <2>3. Cardinality(G) >= MaxFailed => blocked_ips'[ip] = now
    BY <1>5 DEF TooManyFailures
  <2>. QED
    BY <1>3, <2>1, <2>2, <2>3 DEF BlockHolds, t
<1>11. Stuck(ip)'
  <2>1. OfKind(t, {"burst"}) = OfKind(s, {"burst"})
    BY <1>6, AppendFacts DEF OfKind
  <2>. QED
    BY <1>1, <2>1 DEF AddressInv, Stuck, s, t
<1>12. BlockedForCause'
  <2>1. TooManyFailures(G) => CauseAt(t, n) /\ n \in DOMAIN t
    BY <1>6, <1>9 DEF CauseAt, TooManyFailures
  <2>2. ASSUME NEW q \in IPs, blocked_ips'[q] # None
        PROVE  blocked_ips[q] # None \/ \E i \in DOMAIN log'[q] : CauseAt(log'[q], i)
    BY <1>5, <2>1, <2>2 DEF t
  <2>. QED
    BY <1>1, <2>2, CauseStep DEF Kinds
<1>13. /\ failed_attempts'[ip] \subseteq failed_attempts[ip] \cup {Len(log[ip]) + 1}
       /\ Lists(log'[ip], failed_attempts'[ip], Failing, FailureMemory)
  BY <1>2, <1>3, <1>6, <1>9 DEF t, F, n
<1>. QED
  BY <1>1, <1>3, <1>4, <1>5, <1>10, <1>11, <1>12, <1>13, BlockingEvent

LEMMA TickStep ==
  ASSUME LimitsInv, Tick
  PROVE  LimitsInv'
<1>1. /\ log' = log /\ request_history' = request_history /\ failed_attempts' = failed_attempts
      /\ rate_bucket' = rate_bucket /\ blocked_ips' = blocked_ips /\ waiting' = waiting
      /\ now' = now + 1 /\ now < MaxTime /\ now \in Times /\ TypeOK
  BY DEF Tick, LimitsInv, TypeOK
<1>2. now \in Int /\ now' \in Int /\ now' > now /\ now' \in Times
  BY <1>1, ConstantFacts DEF Times
<1>3. TypeOK'
  BY <1>1, <1>2 DEF TypeOK, Times, Kinds
<1>4. ASSUME NEW ip \in IPs PROVE AddressInv(ip)'
  <2>1. AddressInv(ip)
    BY DEF LimitsInv
  <2>2. \A i \in 1 .. Len(log[ip]) : log[ip][i].at \in Int
    <3>1. log[ip] \in Seq(Entry)
      BY <1>1 DEF TypeOK, Entry
    <3>2. \A i \in 1 .. Len(log[ip]) : log[ip][i] \in Entry
      BY <3>1
    <3>. QED
      BY <3>2, TimesAreIntegers
  <2>3. Before(log[ip], now')
    BY <1>2, <2>1, <2>2 DEF AddressInv, Before
  <2>4. BucketOK(ip)'
    BY <1>1, <1>2, <2>1, <2>2, ConstantFacts DEF AddressInv, BucketOK, OfKind
  <2>5. BlockHolds(ip)'
    BY <1>1, <1>2, <2>1, <2>2, ConstantFacts DEF AddressInv, BlockHolds, OfKind
  <2>. QED
    BY <1>1, <2>1, <2>3, <2>4, <2>5 DEF AddressInv, Stuck
<1>5. BurstBounded' /\ LoginsWithinLimit' /\ ServedAfterBlock' /\ BlockedForCause' /\ BurstIsForever'
  BY <1>1 DEF LimitsInv, BurstBounded, LoginsWithinLimit, ServedAfterBlock, BlockedForCause, BurstIsForever
<1>. QED
  BY <1>3, <1>4, <1>5 DEF LimitsInv

LEMMA LoginAnsweredStep ==
  ASSUME LimitsInv, NEW ip \in IPs, LoginAnswered(ip)
  PROVE  LimitsInv'
<1>1. /\ log' = log /\ request_history' = request_history /\ failed_attempts' = failed_attempts
      /\ rate_bucket' = rate_bucket /\ blocked_ips' = blocked_ips /\ now' = now
      /\ waiting' = [waiting EXCEPT ![ip] = @ - 1] /\ waiting[ip] > 0
  BY DEF LoginAnswered
<1>2. TypeOK'
  <2>1. waiting[ip] \in Nat /\ waiting[ip] - 1 \in Nat
    BY <1>1 DEF LimitsInv, TypeOK
  <2>2. waiting' \in [IPs -> Nat]
    BY <1>1, <2>1 DEF LimitsInv, TypeOK
  <2>. QED
    BY <1>1, <2>2 DEF LimitsInv, TypeOK, Times, Kinds
<1>3. \A q \in IPs : AddressInv(q)'
  BY <1>1, Elsewhere
<1>4. BurstBounded' /\ LoginsWithinLimit' /\ ServedAfterBlock' /\ BlockedForCause' /\ BurstIsForever'
  BY <1>1 DEF LimitsInv, BurstBounded, LoginsWithinLimit, ServedAfterBlock, BlockedForCause, BurstIsForever
<1>. QED
  BY <1>2, <1>3, <1>4 DEF LimitsInv

LEMMA LimitsStep == LimitsInv /\ [Next]_vars => LimitsInv'
<1>. SUFFICES ASSUME LimitsInv, [Next]_vars PROVE LimitsInv'
  OBVIOUS
<1>1. CASE Tick
  BY <1>1, TickStep
<1>2. ASSUME NEW ip \in IPs, RefuseBurst(ip) PROVE LimitsInv'
  BY <1>2, RefuseBurstStep
<1>3. ASSUME NEW ip \in IPs, Forward(ip) PROVE LimitsInv'
  BY <1>3, ForwardStep
<1>4. ASSUME NEW ip \in IPs, ForwardLogin(ip) PROVE LimitsInv'
  BY <1>4, ForwardLoginStep
<1>5. ASSUME NEW ip \in IPs, RefuseLogin(ip) PROVE LimitsInv'
  BY <1>5, RefuseLoginStep
<1>6. ASSUME NEW ip \in IPs, LoginAnswered(ip) PROVE LimitsInv'
  BY <1>6, LoginAnsweredStep
<1>7. ASSUME NEW ip \in IPs, LoginFails(ip) PROVE LimitsInv'
  BY <1>7, LoginFailsStep
<1>8. CASE UNCHANGED vars
  <2>1. \A ip \in IPs : AddressInv(ip)'
    BY <1>8, Elsewhere DEF vars
  <2>. QED
    BY <1>8, <2>1 DEF vars, LimitsInv, TypeOK, Times, Kinds, BurstBounded, LoginsWithinLimit,
                      ServedAfterBlock, BlockedForCause, BurstIsForever
<1>. QED
  BY <1>1, <1>2, <1>3, <1>4, <1>5, <1>6, <1>7, <1>8 DEF Next

-----------------------------------------------------------------------------
(* The theorems.                                                           *)

\* The lists hold what their last event saw, blocks hold, and the properties
\* of RequestLimits are true in every state.
THEOREM LimitsStayConsistent == Spec => []LimitsInv
<1>1. Init => LimitsInv
  BY InitLimits
<1>2. LimitsInv /\ [Next]_vars => LimitsInv'
  BY LimitsStep
<1>. QED
  BY <1>1, <1>2, PTL DEF Spec

\* Types, and the bounds of the lists of requests (153-168, 202-228).
THEOREM TypeCorrect == Spec => []TypeOK
<1>1. LimitsInv => TypeOK
  BY DEF LimitsInv
<1>. QED
  BY <1>1, LimitsStayConsistent, PTL

\* No address gets more than one request above the threshold past the burst
\* check in any burst window (97-106).
THEOREM BurstsAreBounded == Spec => []BurstBounded
<1>1. LimitsInv => BurstBounded
  BY DEF LimitsInv
<1>. QED
  BY <1>1, LimitsStayConsistent, PTL

\* Logins stay within the limit for the failures of the last hour, in every
\* window, although both lists are cleaned late (109-116).
THEOREM LoginsAreLimited == Spec => []LoginsWithinLimit
<1>1. LimitsInv => LoginsWithinLimit
  BY DEF LimitsInv
<1>. QED
  BY <1>1, LimitsStayConsistent, PTL

\* After too many failures nothing is served before the block, counted from
\* the last of them, has run its time (172-187).
THEOREM BlockIsServed == Spec => []ServedAfterBlock
<1>1. LimitsInv => ServedAfterBlock
  BY DEF LimitsInv
<1>. QED
  BY <1>1, LimitsStayConsistent, PTL

\* Nobody is blocked who has never been too fast or failed too often.
THEOREM NobodyBlockedForNothing == Spec => []BlockedForCause
<1>1. LimitsInv => BlockedForCause
  BY DEF LimitsInv
<1>. QED
  BY <1>1, LimitsStayConsistent, PTL

\* The violation of BurstBlockIsTemporary is no accident of small constants: an
\* address once refused for a burst is never served again, however long the
\* block and the window are and however long it waits (97, 165-168).
THEOREM BurstEndsService == Spec => []BurstIsForever
<1>1. LimitsInv => BurstIsForever
  BY DEF LimitsInv
<1>. QED
  BY <1>1, LimitsStayConsistent, PTL
=============================================================================
