------------------------------ MODULE JobCache ------------------------------
(***************************************************************************)
(* The browser's cache of jobs (features/scheduling/hooks/use-jobs.ts of   *)
(* the front end), seen from one job: the entry with the details of the    *)
(* job, the lists filtered by status in which it may appear, and the       *)
(* mutations of the hooks, which run in parallel: single and bulk updates  *)
(* of the status, and deletions.  A single update shows its status at once *)
(* and takes it back when it fails.                                        *)
(*                                                                         *)
(* An action is what the browser does between two answers of the server,   *)
(* or what the server does with one request.  The answers come in any      *)
(* order or not at all.                                                    *)
(*                                                                         *)
(* A row carries a version, the number of writes before it, by which the   *)
(* age of a cached row can be told; the rows of the code have no such      *)
(* column.  The lists stay on the screen, and the page of the details is   *)
(* there or not from the start and closes only with a deletion: what a     *)
(* fetch does whose page closes meanwhile is left out, and so are creating *)
(* a job, the counts and the lists by status that no page shows.           *)
(***************************************************************************)
EXTENDS Naturals, FiniteSets

CONSTANTS Mutations, \* the calls of mutate(): a bound
          Statuses,  \* the statuses of a job
          Lists,     \* the status filters of the lists shown, {} for no filter
          Detail,    \* the key of the details of the job
          Gone,      \* in place of the status: the job is deleted
          MaxOthers, \* the writes of other users: a bound
          Idle, Asked, None

Rows    == [status : Statuses \cup {Gone}, version : Nat]
Queries == Lists \cup {Detail}

ASSUME JobCacheAssumption ==
  /\ Gone \notin Statuses /\ Detail \notin Lists
  /\ \A filter \in Lists : filter \subseteq Statuses
  /\ MaxOthers \in Nat
  /\ Idle # Asked /\ {Idle, Asked, None} \cap Rows = {}

VARIABLES
  server,    \* the row of the job
  others,    \* the number of writes of other users
  open,      \* whether the page with the details shows the job
  cache,     \* the entry of each query; of a list only this job is looked at
  mutations  \* the mutations

vars == <<server, others, open, cache, mutations>>

\* The version of a row that the browser made up.
Guess == 0

Entries == [data : Rows \cup {None}, fetch : {Idle, Asked} \cup Rows, stale : BOOLEAN]
Calls   == [kind     : {"none", "update", "bulk", "delete"},
            phase    : {"new", "sent", "executed", "succeeded", "failed"},
            status   : Statuses \cup {None},
            previous : Rows \cup {None},
            row      : Rows \cup {None}]

Loaded(row) == [data |-> row, fetch |-> Idle, stale |-> FALSE]
NoEntry     == [data |-> None, fetch |-> Idle, stale |-> FALSE]
NewCall     == [kind |-> "none", phase |-> "new", status |-> None, previous |-> None, row |-> None]

Init ==
  /\ \E s \in Statuses : server = [status |-> s, version |-> 1]
  /\ others = 0
  /\ open \in BOOLEAN
  /\ cache = [q \in Queries |-> IF q # Detail \/ open THEN Loaded(server) ELSE NoEntry]
  /\ mutations = [m \in Mutations |-> NewCall]

-----------------------------------------------------------------------------
(* What the hooks ask of the query client.                                 *)

Shown(q) == q # Detail \/ open

\* setQueryData: the value is fresh, a fetch under way goes on.
SetData(e, row) == [e EXCEPT !.data = row, !.stale = FALSE]

\* cancelQueries: the answer of a fetch under way is ignored.
CancelFetch(e) == [e EXCEPT !.fetch = Idle]

\* invalidateQueries: the entry is stale, and is fetched anew if it is shown.
Invalidate(e, shown) ==
  IF e.data = None THEN e
  ELSE [e EXCEPT !.stale = TRUE, !.fetch = IF shown THEN Asked ELSE @]

Is(m, kind, phases) == mutations[m].kind = kind /\ mutations[m].phase \in phases
InFlight            == {"sent", "executed"}
UpdateInFlight      == \E m \in Mutations : Is(m, "update", InFlight)
Finish(m, phase)    == mutations' = [mutations EXCEPT ![m].phase = phase]

\* A request that the server has executed and answered with the row.
HasRow(m, kind) == Is(m, kind, {"executed"}) /\ mutations[m].row # None

Call(m, kind, s, previous) ==
  /\ mutations[m].phase = "new"
  /\ mutations' = [mutations EXCEPT ![m] =
       [kind |-> kind, phase |-> "sent", status |-> s, previous |-> previous, row |-> None]]

-----------------------------------------------------------------------------
(* useUpdateJobStatus.                                                     *)

\* onMutate, then the request.  An entry that holds the job shows the status.
UpdateStatus(m, s) ==
  /\ Call(m, "update", s, cache[Detail].data)
  /\ cache' = [cache EXCEPT ![Detail] =
       IF @.data = None THEN CancelFetch(@)
       ELSE SetData(CancelFetch(@), [status |-> s, version |-> Guess])]
  /\ UNCHANGED <<server, others, open>>

\* A slip: only lists without a filter are refreshed.
ListKeyMatches_Bug(filter, s) == filter = {}

ListKeyMatches(filter, s) == filter = {} \/ s \in filter

\* The lists refreshed with a row, and the entry of the details.
Refreshed(row, e) ==
  [q \in Queries |-> IF q = Detail THEN e
                     ELSE IF ListKeyMatches(q, row.status) THEN Invalidate(cache[q], TRUE)
                     ELSE cache[q]]

\* A slip: the details are not fetched again after an update.
UpdateSucceeds_Bug(m) ==
  /\ HasRow(m, "update")
  /\ cache' = Refreshed(mutations[m].row, SetData(cache[Detail], mutations[m].row))
  /\ Finish(m, "succeeded")
  /\ UNCHANGED <<server, others, open>>

\* onSuccess, then onSettled.
UpdateSucceeds(m) ==
  /\ HasRow(m, "update")
  /\ cache' = Refreshed(mutations[m].row,
                        Invalidate(SetData(cache[Detail], mutations[m].row), open))
  /\ Finish(m, "succeeded")
  /\ UNCHANGED <<server, others, open>>

RolledBack(m) ==
  IF mutations[m].previous = None THEN cache[Detail]
  ELSE SetData(cache[Detail], mutations[m].previous)

\* A slip: an update that did not reach the server is taken back without a fetch.
UpdateFails_Bug(m) ==
  /\ Is(m, "update", InFlight)
  /\ cache' = [cache EXCEPT ![Detail] =
       IF mutations[m].phase = "sent" THEN RolledBack(m) ELSE Invalidate(RolledBack(m), open)]
  /\ Finish(m, "failed")
  /\ UNCHANGED <<server, others, open>>

\* onError, then onSettled: the job is not found, or the request or its answer
\* is lost.
UpdateFails(m) ==
  /\ Is(m, "update", InFlight)
  /\ cache' = [cache EXCEPT ![Detail] = Invalidate(RolledBack(m), open)]
  /\ Finish(m, "failed")
  /\ UNCHANGED <<server, others, open>>

-----------------------------------------------------------------------------
(* useBulkUpdateJobStatus and useDeleteJob.                                *)

BulkUpdate(m, s) ==
  /\ Call(m, "bulk", s, None)
  /\ UNCHANGED <<server, others, open, cache>>

ListsRefreshed(e) == [q \in Queries |-> IF q = Detail THEN e ELSE Invalidate(cache[q], TRUE)]

\* Every request has been answered or has failed; either is a success.
BulkSettles(m) ==
  /\ Is(m, "bulk", InFlight)
  /\ cache' = ListsRefreshed(cache[Detail])
  /\ Finish(m, "succeeded")
  /\ UNCHANGED <<server, others, open>>

DeleteJob(m) ==
  /\ Call(m, "delete", None, None)
  /\ UNCHANGED <<server, others, open, cache>>

\* A slip: the entry of the deleted job is kept.
DeleteSucceeds_BugKeeps(m) ==
  /\ HasRow(m, "delete")
  /\ cache' = ListsRefreshed(cache[Detail])
  /\ open' = FALSE
  /\ Finish(m, "succeeded")
  /\ UNCHANGED <<server, others>>

\* The entry of the job is removed and its page is closed.
DeleteSucceeds(m) ==
  /\ HasRow(m, "delete")
  /\ cache' = ListsRefreshed(NoEntry)
  /\ open' = FALSE
  /\ Finish(m, "succeeded")
  /\ UNCHANGED <<server, others>>

DeleteFails(m) ==
  /\ Is(m, "delete", InFlight)
  /\ Finish(m, "failed")
  /\ UNCHANGED <<server, others, open, cache>>

-----------------------------------------------------------------------------
(* The server.                                                             *)

Written(s) == [status |-> s, version |-> server.version + 1]

\* updateJob and deleteJob: a job that is gone is not found.
Execute(m) ==
  /\ mutations[m].phase = "sent"
  /\ IF server.status = Gone THEN UNCHANGED server
     ELSE server' = Written(IF mutations[m].kind = "delete" THEN Gone ELSE mutations[m].status)
  /\ mutations' = [mutations EXCEPT ![m].phase = "executed",
                                    ![m].row = IF server.status = Gone THEN None ELSE server']
  /\ UNCHANGED <<others, open, cache>>

\* Another user, or a request of this browser that was taken for lost.
OtherWrites(s) ==
  /\ others < MaxOthers
  /\ server.status # Gone
  /\ server' = Written(s)
  /\ others' = others + 1
  /\ UNCHANGED <<open, cache, mutations>>

-----------------------------------------------------------------------------
(* The fetches of useJob and useJobs.                                      *)

FetchStep(q, e) ==
  /\ cache' = [cache EXCEPT ![q] = e]
  /\ UNCHANGED <<server, others, open, mutations>>

\* The interval has passed, or the window comes to the front.
Refetch(q) ==
  /\ Shown(q) /\ cache[q].fetch = Idle
  /\ FetchStep(q, [cache[q] EXCEPT !.fetch = Asked])

\* getJob and getJobs.
ServerReads(q) ==
  /\ cache[q].fetch = Asked
  /\ FetchStep(q, [cache[q] EXCEPT !.fetch = server])

\* A deleted job has no details to arrive.
FetchArrives(q) ==
  /\ cache[q].fetch \in Rows
  /\ q = Detail => cache[q].fetch.status # Gone
  /\ FetchStep(q, Loaded(cache[q].fetch))

\* The retries are used up: the entry stays as it was.
FetchFails(q) ==
  /\ cache[q].fetch # Idle
  /\ FetchStep(q, CancelFetch(cache[q]))

-----------------------------------------------------------------------------
MutationStep(m) ==
  \/ \E s \in Statuses : UpdateStatus(m, s) \/ BulkUpdate(m, s)
  \/ DeleteJob(m)
  \/ Execute(m)
  \/ UpdateSucceeds(m) \/ UpdateFails(m)
  \/ BulkSettles(m)
  \/ DeleteSucceeds(m) \/ DeleteFails(m)

QueryStep(q) == Refetch(q) \/ ServerReads(q) \/ FetchArrives(q) \/ FetchFails(q)

Next ==
  \/ \E m \in Mutations : MutationStep(m)
  \/ \E q \in Queries : QueryStep(q)
  \/ \E s \in Statuses : OtherWrites(s)

Spec == Init /\ [][Next]_vars

-----------------------------------------------------------------------------
(* Properties.                                                             *)

\* Types; lists are always loaded, and what no page shows is not fetched.
TypeOK ==
  /\ server \in Rows
  /\ others \in 0..MaxOthers
  /\ open \in BOOLEAN
  /\ cache \in [Queries -> Entries]
  /\ mutations \in [Mutations -> Calls]
  /\ \A q \in Lists : cache[q].data # None
  /\ open \/ cache[Detail].fetch = Idle

\* The details as the browser trusts them: nothing under way will change them.
Trusted == ~UpdateInFlight /\ cache[Detail].data # None /\ ~cache[Detail].stale

\* A made-up status, taken back by one mutation and put back by the rollback of
\* another, is never left in the cache as if the server had sent it.
GuessesAreTemporary == Trusted => cache[Detail].data.version # Guess

\* However the answers of overlapping updates and of fetches are ordered, the
\* details that are trusted in the end show every write of this browser's
\* updates, also of those that were reported as failed.  This is for a page that
\* stays: a fetch goes on when its page closes, and nothing asks anew then when
\* the entry is invalidated.
DetailReadsOwnWrites ==
  Trusted => \A m \in Mutations :
    mutations[m].kind = "update" /\ mutations[m].row # None
      => cache[Detail].data.version >= mutations[m].row.version

\* A list that is not marked stale has been read after every write it would show
\* of an update, a bulk update or a deletion that ended in success, although an
\* update refreshes the lists of its new status only.  A write whose answer was
\* lost is not among them: its update ends in onError and onSettled, which
\* refresh the details and no list, so a list may miss the job until it is
\* fetched again.
ListsReadOwnWrites ==
  \A filter \in Lists, m \in Mutations :
    /\ ~cache[filter].stale
    /\ mutations[m].phase = "succeeded" /\ mutations[m].row # None
    /\ mutations[m].kind = "update" => filter = {} \/ mutations[m].row.status \in filter
    => cache[filter].data.version >= mutations[m].row.version

\* Updates that overlap with the deletion of the job put nothing into the cache
\* that would be shown without asking the server.
DeletedJobNotServed ==
  \A m \in Mutations : mutations[m].kind = "delete" /\ mutations[m].phase = "succeeded"
                        => ~Trusted
=============================================================================
