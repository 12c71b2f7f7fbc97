---------------------------- MODULE RequestLimits ----------------------------
(***************************************************************************)
(* The rate limiting middleware of the HTTP API                            *)
(* (src/backend/app/core/rate_limiter.py, RateLimitMiddleware).            *)
(*                                                                         *)
(* dispatch runs on the event loop and awaits only the answer of the       *)
(* application, so what it does before the await is one action and what it *)
(* does after it is another one.  Requests to the login routes overlap     *)
(* between the two.  A request of a blocked address is refused and changes *)
(* nothing; it is not an action.                                           *)
(***************************************************************************)
EXTENDS Integers, Sequences, FiniteSets

CONSTANTS
  IPs,              \* client addresses
  None,             \* "not blocked"
  BurstThreshold,   \* burst_threshold: requests in the burst window (10)
  BurstWindow,      \* burst_window (1 s)
  MaxFailed,        \* max_failed_attempts (5)
  FailureMemory,    \* how long failed logins are remembered (3600 s)
  BlockDuration,    \* block_duration (900 s)
  AuthWindow,       \* window of the limit of the login routes (60 s)
  SomeFailures,     \* from here on an address is suspicious (3)
  CleanLimit,       \* logins in a window for a clean address (10) ...
  WarnedLimit,      \* ... after some failures (5) ...
  SuspiciousLimit,  \* ... and for a suspicious address (2)
  MaxTime,          \* bound of the clock
  MaxEvents         \* bound of the events of an address

ASSUME LimitsAssumption ==
  /\ {BurstThreshold, BurstWindow, MaxFailed, FailureMemory, BlockDuration,
      AuthWindow, SomeFailures, CleanLimit, WarnedLimit, SuspiciousLimit}
       \subseteq Nat \ {0}
  /\ CleanLimit >= WarnedLimit /\ WarnedLimit >= SuspiciousLimit
  /\ MaxTime \in Nat /\ MaxEvents \in Nat
  /\ None \notin Int

VARIABLES
  now,              \* time.time()
  log,              \* log[ip]: what has happened to an address, with its time
  request_history,  \* request_history[ip]: the requests that were tracked
  failed_attempts,  \* failed_attempts[ip]: the logins that failed
  rate_bucket,      \* _rate_buckets["auth:" ip]: logins that were let through
  blocked_ips,      \* blocked_ips[ip]: when the block started, or None
  waiting           \* logins of an address the application works on

vars == <<now, log, request_history, failed_attempts, rate_bucket, blocked_ips, waiting>>

-----------------------------------------------------------------------------
(* The lists of times and what is read from them.  A list holds the times  *)
(* of events of the log; here it is the set of their positions.            *)

Logged(ip, what) == [log EXCEPT ![ip] = Append(@, [at |-> now, what |-> what])]

ThisEvent(ip) == Len(log[ip]) + 1

\* The entries of a list that are younger than a window.
Young(ip, events, window) == {i \in events : log[ip][i].at > now - window}

IsBlocked(ip) ==
  blocked_ips[ip] # None /\ now - blocked_ips[ip] < BlockDuration

DetectBurst(ip) == Cardinality(request_history[ip]) > BurstThreshold

TrackRequest_BugEdge(ip) ==
  Young(ip, request_history[ip], BurstWindow - 1) \cup {ThisEvent(ip)}
TrackRequest(ip) ==
  Young(ip, request_history[ip], BurstWindow) \cup {ThisEvent(ip)}

AuthLimit_Bug(ip) ==
  IF Cardinality(failed_attempts[ip]) <= SomeFailures THEN CleanLimit ELSE SuspiciousLimit
AuthLimit(ip) ==
  LET Failures == Cardinality(failed_attempts[ip])
  IN  CASE Failures = 0                     -> CleanLimit
        [] 0 < Failures /\ Failures < SomeFailures -> WarnedLimit
        [] OTHER                            -> SuspiciousLimit

-----------------------------------------------------------------------------
Init ==
  /\ now = 0
  /\ log = [ip \in IPs |-> <<>>]
  /\ request_history = [ip \in IPs |-> {}]
  /\ failed_attempts = [ip \in IPs |-> {}]
  /\ rate_bucket = [ip \in IPs |-> {}]
  /\ blocked_ips = [ip \in IPs |-> None]
  /\ waiting = [ip \in IPs |-> 0]

Tick ==
  /\ now < MaxTime
  /\ now' = now + 1
  /\ UNCHANGED <<log, request_history, failed_attempts, rate_bucket, blocked_ips, waiting>>

\* A request arrives from an address that is not, or no longer, blocked.
Arrives(ip) == Len(log[ip]) < MaxEvents /\ ~IsBlocked(ip)

RefuseBurst(ip) ==
  /\ Arrives(ip)
  /\ DetectBurst(ip)
  /\ blocked_ips' = [blocked_ips EXCEPT ![ip] = now]
  /\ log' = Logged(ip, "burst")
  /\ UNCHANGED <<now, request_history, failed_attempts, rate_bucket, waiting>>

\* A request that is not refused for a burst is tracked, on whatever route.
\* A block that has run its time is forgotten on the way.
Track(ip) ==
  /\ Arrives(ip)
  /\ ~DetectBurst(ip)
  /\ blocked_ips' = [blocked_ips EXCEPT ![ip] = None]
  /\ request_history' = [request_history EXCEPT ![ip] = TrackRequest(ip)]
  /\ UNCHANGED <<now, failed_attempts>>

\* A route without a limit of its own.
Forward(ip) ==
  /\ Track(ip)
  /\ log' = Logged(ip, "page")
  /\ UNCHANGED <<rate_bucket, waiting>>

\* The login and password routes share a sliding window.  Only the answers of
\* the login routes are looked at, so only they wait.
RateLimited(ip) ==
  Cardinality(Young(ip, rate_bucket[ip], AuthWindow)) >= AuthLimit(ip)

ForwardLogin(ip) ==
  /\ Track(ip)
  /\ ~RateLimited(ip)
  /\ rate_bucket' = [rate_bucket EXCEPT ![ip] =
       Young(ip, @, AuthWindow) \cup {ThisEvent(ip)}]
  /\ log' = Logged(ip, "login")
  /\ \/ waiting' = [waiting EXCEPT ![ip] = @ + 1]
     \/ UNCHANGED waiting

RefuseLogin(ip) ==
  /\ Track(ip)
  /\ RateLimited(ip)
  /\ rate_bucket' = [rate_bucket EXCEPT ![ip] = Young(ip, @, AuthWindow)]
  /\ log' = Logged(ip, "limited")
  /\ UNCHANGED waiting

\* The application answers a login with anything but 401, or raises.
LoginAnswered(ip) ==
  /\ waiting[ip] > 0
  /\ waiting' = [waiting EXCEPT ![ip] = @ - 1]
  /\ UNCHANGED <<now, log, request_history, failed_attempts, rate_bucket, blocked_ips>>

\* The application answers 401.  The address may be blocked by now.
TooManyFailures_Bug(failures) == Cardinality(failures) > MaxFailed
TooManyFailures(failures) == Cardinality(failures) >= MaxFailed

LoginFails(ip) ==
  LET Failures == Young(ip, failed_attempts[ip], FailureMemory) \cup {ThisEvent(ip)}
  IN  /\ waiting[ip] > 0
      /\ Len(log[ip]) < MaxEvents
      /\ waiting' = [waiting EXCEPT ![ip] = @ - 1]
      /\ failed_attempts' = [failed_attempts EXCEPT ![ip] = Failures]
      /\ blocked_ips' =
           [blocked_ips EXCEPT ![ip] = IF TooManyFailures(Failures) THEN now ELSE @]
      /\ log' = Logged(ip, "failed")
      /\ UNCHANGED <<now, request_history, rate_bucket>>

Next ==
  \/ Tick
  \/ \E ip \in IPs :
       \/ RefuseBurst(ip) \/ Forward(ip)
       \/ ForwardLogin(ip) \/ RefuseLogin(ip)
       \/ LoginAnswered(ip) \/ LoginFails(ip)

Spec == Init /\ [][Next]_vars

-----------------------------------------------------------------------------
(* Properties.                                                             *)

Times == 0 .. MaxTime
Kinds == {"page", "login", "limited", "failed", "burst"}

\* Every list names events of the log, and no list of requests outgrows what its
\* check lets in: one above the threshold, the limit of a clean address.
TypeOK ==
  /\ now \in Times
  /\ log \in [IPs -> Seq([at : Times, what : Kinds])]
  /\ request_history \in [IPs -> SUBSET (1 .. MaxEvents)]
  /\ failed_attempts \in [IPs -> SUBSET (1 .. MaxEvents)]
  /\ rate_bucket \in [IPs -> SUBSET (1 .. MaxEvents)]
  /\ \A ip \in IPs :
       /\ Len(log[ip]) <= MaxEvents
       /\ request_history[ip] \cup failed_attempts[ip] \cup rate_bucket[ip]
            \subseteq DOMAIN log[ip]
       /\ Cardinality(request_history[ip]) <= BurstThreshold + 1
       /\ Cardinality(rate_bucket[ip]) <= CleanLimit
  /\ blocked_ips \in [IPs -> Times \cup {None}]
  /\ waiting \in [IPs -> Nat]

Passing == {"page", "login", "limited"}
LoggingIn == {"login"}
Failing == {"failed"}

\* The entries of a log before position i, i included, of some kinds, and
\* less than a window older than entry i.
Within(entries, i, kinds, window) ==
  {k \in 1 .. i : entries[k].what \in kinds /\ entries[k].at > entries[i].at - window}

\* However requests of all kinds are mixed, no more than one above the
\* threshold get past the burst check in any burst window (97-106).
BurstBounded ==
  \A ip \in IPs : \A i \in DOMAIN log[ip] :
    Cardinality(Within(log[ip], i, Passing, BurstWindow)) <= BurstThreshold + 1

\* The limit of an address that has failed n times.
LimitAfter(n) ==
  IF n = 0 THEN CleanLimit ELSE IF n < SomeFailures THEN WarnedLimit ELSE SuspiciousLimit

\* A login is let through only if those of the minute before it, itself
\* included, stay within the limit for the failures of the last hour: the
\* lists the code reads are cleaned on other occasions than they are read
\* (109-116, 190-228), and must never make it more generous than that.
LoginsWithinLimit ==
  \A ip \in IPs : \A i \in DOMAIN log[ip] :
    log[ip][i].what = "login" =>
      Cardinality(Within(log[ip], i, LoggingIn, AuthWindow))
        <= LimitAfter(Cardinality(Within(log[ip], i, Failing, FailureMemory)))

\* After too many failures in an hour nothing passes before the block has run
\* its time from the last failure, however many answers were still to come
\* when it started and whatever other blocks there were (132-146,
\* 172-187).
ServedAfterBlock ==
  \A ip \in IPs : \A i \in DOMAIN log[ip] :
    LET Failures == Within(log[ip], i, Failing, FailureMemory)
    IN  log[ip][i].what \in Passing /\ Cardinality(Failures) >= MaxFailed =>
          \A k \in Failures : log[ip][k].at + BlockDuration <= log[ip][i].at

\* An address is blocked only if it has once failed too often in an hour, or
\* sent more than the threshold in one burst window (97-99, 182-187).
BlockedForCause ==
  \A ip \in IPs :
    blocked_ips[ip] # None =>
      \E i \in DOMAIN log[ip] :
        \/ Cardinality(Within(log[ip], i, Passing, BurstWindow)) > BurstThreshold
        \/ Cardinality(Within(log[ip], i, Failing, FailureMemory)) >= MaxFailed

\* "Temporarily blocked IPs" (71): an address refused for a burst is served again
\* once its block is over.  The next request that gets through to the burst check
\* comes after the block, and with it after the burst window, so it is no burst.
BurstBlockIsTemporary ==
  \A ip \in IPs : \A i, k \in DOMAIN log[ip] :
    i < k /\ log[ip][i].what = "burst" /\ log[ip][k].what = "burst" =>
      \E j \in i .. k : log[ip][j].what \in Passing

\* What happens instead: the history that the burst check reads is cleaned only
\* by requests that pass it, so after one refusal for a burst nothing passes any
\* more, whatever the pace, until the server restarts (97-106, 132-141).
BurstIsForever ==
  \A ip \in IPs : \A i, k \in DOMAIN log[ip] :
    i < k /\ log[ip][i].what = "burst" => log[ip][k].what \notin Passing
=============================================================================
