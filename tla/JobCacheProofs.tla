--------------------------- MODULE JobCacheProofs ---------------------------
(***************************************************************************)
(* Proofs about JobCache, for any number of mutations, lists, statuses and *)
(* writes of other users.                                                  *)
(*                                                                         *)
(* The invariant says of a fetch under way what the properties say of the  *)
(* entry once it has arrived: if the server has read for it, it has read   *)
(* after every write that the browser has been told of, because being told *)
(* starts the fetch anew.                                                  *)
(***************************************************************************)
EXTENDS JobCache, TLAPS

Settled(m) == mutations[m].phase \in {"succeeded", "failed"}

\* A row is on record for a request that was executed, and for no other; an
\* update that is sent has a status.
PhasesOK ==
  \A m \in Mutations :
    /\ mutations[m].phase = "new" => mutations[m].kind = "none"
    /\ mutations[m].phase = "sent" /\ mutations[m].kind # "delete" => mutations[m].status \in Statuses
    /\ mutations[m].phase \in {"new", "sent"} => mutations[m].row = None

\* Rows come from the server, whose version only grows.
VersionsOK ==
  /\ server.version >= 1
  /\ \A m \in Mutations : mutations[m].row # None => mutations[m].row.version <= server.version
  /\ \A q \in Queries : cache[q].fetch \in Rows => cache[q].fetch.version >= 1

\* A fetch of the details has read every write of the updates that have ended.
DetailFetchLate ==
  \A m \in Mutations :
    /\ mutations[m].kind = "update" /\ Settled(m) /\ mutations[m].row # None
    /\ cache[Detail].fetch \in Rows
    => cache[Detail].fetch.version >= mutations[m].row.version

PageOK ==
  /\ open => cache[Detail].data # None
  /\ \A m \in Mutations : mutations[m].kind = "delete" /\ mutations[m].phase = "succeeded" => ~open

\* The mutations after which a list is refreshed.
ToldOf(filter, m) ==
  /\ mutations[m].phase = "succeeded" /\ mutations[m].row # None
  /\ mutations[m].kind = "update" => filter = {} \/ mutations[m].row.status \in filter

ListFetchLate ==
  \A filter \in Lists, m \in Mutations :
    ToldOf(filter, m) /\ cache[filter].fetch \in Rows
      => cache[filter].fetch.version >= mutations[m].row.version

DetailInv == DetailFetchLate /\ PageOK /\ GuessesAreTemporary /\ DetailReadsOwnWrites /\ DeletedJobNotServed

ListInv == ListFetchLate /\ ListsReadOwnWrites

JobInv == TypeOK /\ PhasesOK /\ VersionsOK /\ DetailInv /\ ListInv

-----------------------------------------------------------------------------
(* Entries stay entries, whatever the hooks ask of the query client.       *)

LEMMA EntryTypes ==
  ASSUME NEW e \in Entries
  PROVE  /\ CancelFetch(e) \in Entries
         /\ \A row \in Rows : SetData(e, row) \in Entries
         /\ \A shown \in BOOLEAN : Invalidate(e, shown) \in Entries
BY DEF CancelFetch, SetData, Invalidate, Entries

LEMMA EntryFields ==
  ASSUME NEW e \in Entries
  PROVE  /\ CancelFetch(e).data = e.data /\ CancelFetch(e).stale = e.stale
         /\ CancelFetch(e).fetch = Idle
         /\ \A row \in Rows : /\ SetData(e, row).data = row /\ SetData(e, row).stale = FALSE
                             /\ SetData(e, row).fetch = e.fetch
         /\ \A shown \in BOOLEAN :
              /\ Invalidate(e, shown).data = e.data
              /\ e.data # None => /\ Invalidate(e, shown).stale
                                  /\ Invalidate(e, shown).fetch = IF shown THEN Asked ELSE e.fetch
BY DEF CancelFetch, SetData, Invalidate, Entries

LEMMA RollbackType ==
  ASSUME TypeOK, NEW m \in Mutations
  PROVE  /\ RolledBack(m) \in Entries
         /\ RolledBack(m).fetch = cache[Detail].fetch
         /\ cache[Detail].data # None => RolledBack(m).data # None
<1>1. mutations[m].previous \in Rows \cup {None} /\ cache[Detail] \in Entries
  BY DEF TypeOK, Calls, Queries
<1>2. CASE mutations[m].previous = None
  BY <1>1, <1>2 DEF RolledBack
<1>3. CASE mutations[m].previous # None
  <2>1. mutations[m].previous \in Rows /\ cache[Detail] \in Entries
    BY <1>1, <1>3
  <2>2. RolledBack(m) = SetData(cache[Detail], mutations[m].previous)
    BY <1>3 DEF RolledBack
  <2> DEFINE e == SetData(cache[Detail], mutations[m].previous)
  <2>3. e \in Entries
    BY <2>1, EntryTypes
  <2>4. e.data = mutations[m].previous /\ e.fetch = cache[Detail].fetch
    BY <2>1 DEF SetData, Entries
  <2> HIDE DEF e
  <2> QED BY <2>2, <2>3, <2>4, <1>3 DEF e
<1> QED BY <1>2, <1>3

LEMMA TypeInit == Init => TypeOK
<1> SUFFICES ASSUME Init PROVE TypeOK OBVIOUS
<1>1. server \in Rows BY DEF Init, Rows
<1>2. Loaded(server) \in Entries /\ NoEntry \in Entries
  BY <1>1 DEF Loaded, NoEntry, Entries
<1>3. cache \in [Queries -> Entries]
  BY <1>2 DEF Init
<1>4. mutations \in [Mutations -> Calls]
  BY DEF Init, NewCall, Calls
<1>5. \A q \in Lists : cache[q].data # None
  BY <1>1, JobCacheAssumption DEF Init, Loaded, Queries
<1>6. open \/ cache[Detail].fetch = Idle
  BY JobCacheAssumption DEF Init, NoEntry, Queries
<1> QED BY <1>1, <1>3, <1>4, <1>5, <1>6, JobCacheAssumption DEF TypeOK, Init

LEMMA InitInvariant == Init => JobInv
<1> SUFFICES ASSUME Init PROVE JobInv OBVIOUS
<1>1. TypeOK BY TypeInit
<1>2. \A m \in Mutations : mutations[m] = NewCall
  BY DEF Init
<1>3. PhasesOK
  BY <1>2 DEF PhasesOK, NewCall
<1>4. server.version = 1
  BY DEF Init
<1>5. \A q \in Queries : cache[q] = IF q # Detail \/ open THEN Loaded(server) ELSE NoEntry
  BY DEF Init
<1>6. \A q \in Queries : cache[q].fetch \notin Rows
  BY <1>5, JobCacheAssumption DEF Loaded, NoEntry
<1>7. VersionsOK
  BY <1>2, <1>4, <1>6 DEF VersionsOK, NewCall
<1>8. \A m \in Mutations : mutations[m].row = None /\ mutations[m].kind = "none"
  BY <1>2 DEF NewCall
<1>9. cache[Detail].data \in {server, None} /\ (open => cache[Detail].data # None)
  BY <1>1, <1>5, JobCacheAssumption DEF Loaded, NoEntry, Queries, TypeOK
<1>10. DetailInv
  BY <1>4, <1>6, <1>8, <1>9
     DEF DetailInv, DetailFetchLate, PageOK, GuessesAreTemporary, DetailReadsOwnWrites,
         DeletedJobNotServed, Trusted, Guess
<1>11. ListInv
  BY <1>8 DEF ListInv, ListFetchLate, ListsReadOwnWrites, ToldOf
<1> QED BY <1>1, <1>3, <1>7, <1>10, <1>11 DEF JobInv

-----------------------------------------------------------------------------
(* Steps that leave the cache alone.                                       *)

\* A call that is new is no update in flight and has no row yet.
LEMMA CallFacts ==
  ASSUME TypeOK, PhasesOK, NEW m \in Mutations, NEW kind \in {"update", "bulk", "delete"},
         NEW s \in Statuses \cup {None}, NEW previous \in Rows \cup {None},
         kind # "delete" => s \in Statuses,
         Call(m, kind, s, previous)
  PROVE  /\ mutations' \in [Mutations -> Calls]
         /\ PhasesOK'
         /\ \A n \in Mutations \ {m} : mutations'[n] = mutations[n]
         /\ mutations'[m].kind = kind /\ mutations'[m].phase = "sent" /\ mutations'[m].row = None
         /\ mutations[m].kind = "none" /\ mutations[m].row = None /\ mutations[m].phase = "new"
<1> DEFINE c == [kind |-> kind, phase |-> "sent", status |-> s, previous |-> previous, row |-> None]
<1>1. c \in Calls
  BY DEF Calls
<1>2. mutations' = [mutations EXCEPT ![m] = c]
  BY DEF Call
<1>3. mutations' \in [Mutations -> Calls] /\ mutations'[m] = c
      /\ \A n \in Mutations \ {m} : mutations'[n] = mutations[n]
  BY <1>1, <1>2 DEF TypeOK
<1>4. PhasesOK'
  BY <1>3 DEF PhasesOK
<1> QED BY <1>3, <1>4 DEF PhasesOK, Call

\* A request that ends keeps its row.
LEMMA FinishFacts ==
  ASSUME TypeOK, PhasesOK, NEW m \in Mutations, NEW phase \in {"succeeded", "failed"},
         mutations[m].phase \in InFlight, Finish(m, phase)
  PROVE  /\ mutations' \in [Mutations -> Calls]
         /\ PhasesOK'
         /\ \A n \in Mutations \ {m} : mutations'[n] = mutations[n]
         /\ mutations'[m].kind = mutations[m].kind /\ mutations'[m].row = mutations[m].row
         /\ mutations'[m].phase = phase
<1>1. mutations' = [mutations EXCEPT ![m] = [mutations[m] EXCEPT !.phase = phase]]
  BY DEF Finish
<1>2. mutations[m] \in Calls
  BY DEF TypeOK
<1> DEFINE c == [mutations[m] EXCEPT !.phase = phase]
<1>3. /\ c \in Calls /\ c.kind = mutations[m].kind /\ c.row = mutations[m].row
      /\ c.phase = phase
  BY <1>2 DEF Calls
<1>4. mutations' \in [Mutations -> Calls] /\ mutations'[m] = c
      /\ \A n \in Mutations \ {m} : mutations'[n] = mutations[n]
  BY <1>1, <1>3 DEF TypeOK
<1>5. PhasesOK'
  BY <1>3, <1>4, ZenonT(40) DEF PhasesOK
<1> QED BY <1>3, <1>4, <1>5

LEMMA BulkUpdateStep ==
  ASSUME JobInv, NEW m \in Mutations, NEW s \in Statuses, BulkUpdate(m, s)
  PROVE  JobInv'
<1>1. Call(m, "bulk", s, None) /\ UNCHANGED <<server, others, open, cache>>
  BY DEF BulkUpdate
<1>2. TypeOK /\ PhasesOK BY DEF JobInv
<1>3. /\ mutations' \in [Mutations -> Calls] /\ PhasesOK'
      /\ \A n \in Mutations \ {m} : mutations'[n] = mutations[n]
      /\ mutations'[m].kind = "bulk" /\ mutations'[m].phase = "sent" /\ mutations'[m].row = None
      /\ mutations[m].kind = "none" /\ mutations[m].row = None /\ mutations[m].phase = "new"
  BY <1>1, <1>2, CallFacts
<1>4. TypeOK' BY <1>1, <1>2, <1>3 DEF TypeOK
<1>5. VersionsOK' BY <1>1, <1>3 DEF JobInv, VersionsOK
<1>6. UpdateInFlight' = UpdateInFlight
  BY <1>3 DEF UpdateInFlight, Is, InFlight
<1>7. DetailInv'
  BY <1>1, <1>3, <1>6
     DEF JobInv, DetailInv, DetailFetchLate, Settled, PageOK, GuessesAreTemporary,
         DetailReadsOwnWrites, DeletedJobNotServed, Trusted
<1>8. ListInv'
  BY <1>1, <1>3 DEF JobInv, ListInv, ListFetchLate, ListsReadOwnWrites, ToldOf
<1> QED BY <1>3, <1>4, <1>5, <1>7, <1>8 DEF JobInv

LEMMA DeleteJobStep ==
  ASSUME JobInv, NEW m \in Mutations, DeleteJob(m)
  PROVE  JobInv'
<1>1. Call(m, "delete", None, None) /\ UNCHANGED <<server, others, open, cache>>
  BY DEF DeleteJob
<1>2. TypeOK /\ PhasesOK BY DEF JobInv
<1>3. /\ mutations' \in [Mutations -> Calls] /\ PhasesOK'
      /\ \A n \in Mutations \ {m} : mutations'[n] = mutations[n]
      /\ mutations'[m].kind = "delete" /\ mutations'[m].phase = "sent" /\ mutations'[m].row = None
      /\ mutations[m].kind = "none" /\ mutations[m].row = None /\ mutations[m].phase = "new"
  BY <1>1, <1>2, CallFacts
<1>4. TypeOK' BY <1>1, <1>2, <1>3 DEF TypeOK
<1>5. VersionsOK' BY <1>1, <1>3 DEF JobInv, VersionsOK
<1>6. UpdateInFlight' = UpdateInFlight
  BY <1>3 DEF UpdateInFlight, Is, InFlight
<1>7. DetailInv'
  BY <1>1, <1>3, <1>6
     DEF JobInv, DetailInv, DetailFetchLate, Settled, PageOK, GuessesAreTemporary,
         DetailReadsOwnWrites, DeletedJobNotServed, Trusted
<1>8. ListInv'
  BY <1>1, <1>3 DEF JobInv, ListInv, ListFetchLate, ListsReadOwnWrites, ToldOf
<1> QED BY <1>3, <1>4, <1>5, <1>7, <1>8 DEF JobInv

LEMMA DeleteFailsStep ==
  ASSUME JobInv, NEW m \in Mutations, DeleteFails(m)
  PROVE  JobInv'
<1>1. /\ mutations[m].kind = "delete" /\ mutations[m].phase \in InFlight
      /\ Finish(m, "failed") /\ UNCHANGED <<server, others, open, cache>>
  BY DEF DeleteFails, Is
<1>2. TypeOK /\ PhasesOK BY DEF JobInv
<1>3. /\ mutations' \in [Mutations -> Calls] /\ PhasesOK'
      /\ \A n \in Mutations \ {m} : mutations'[n] = mutations[n]
      /\ mutations'[m].kind = "delete" /\ mutations'[m].row = mutations[m].row
      /\ mutations'[m].phase = "failed"
  BY <1>1, <1>2, FinishFacts
<1>4. TypeOK' BY <1>1, <1>2, <1>3 DEF TypeOK
<1>5. VersionsOK' BY <1>1, <1>3 DEF JobInv, VersionsOK
<1>6. UpdateInFlight' = UpdateInFlight
  BY <1>1, <1>3 DEF UpdateInFlight, Is, InFlight
<1>7. DetailInv'
  BY <1>1, <1>3, <1>6
     DEF JobInv, DetailInv, DetailFetchLate, Settled, PageOK, GuessesAreTemporary,
         DetailReadsOwnWrites, DeletedJobNotServed, Trusted
<1>8. ListInv'
  BY <1>1, <1>3 DEF JobInv, ListInv, ListFetchLate, ListsReadOwnWrites, ToldOf
<1> QED BY <1>3, <1>4, <1>5, <1>7, <1>8 DEF JobInv

-----------------------------------------------------------------------------
(* Steps of updates.                                                       *)

\* Nothing is claimed of details that are not trusted and have not been read.
LEMMA DetailUntrusted ==
  ASSUME PageOK', ~Trusted', (cache[Detail].fetch \notin Rows)'
  PROVE  DetailInv'
BY DEF DetailInv, DetailFetchLate, GuessesAreTemporary, DetailReadsOwnWrites, DeletedJobNotServed

LEMMA UpdateStatusStep ==
  ASSUME JobInv, NEW m \in Mutations, NEW s \in Statuses, UpdateStatus(m, s)
  PROVE  JobInv'
<1> DEFINE e   == cache[Detail]
           row == [status |-> s, version |-> Guess]
           new == IF e.data = None THEN CancelFetch(e) ELSE SetData(CancelFetch(e), row)
<1>1. TypeOK /\ PhasesOK BY DEF JobInv
<1>2. e \in Entries /\ e.data \in Rows \cup {None}
  BY <1>1 DEF TypeOK, Queries, Entries
<1>3. /\ Call(m, "update", s, e.data) /\ UNCHANGED <<server, others, open>>
      /\ cache' = [cache EXCEPT ![Detail] = new]
  BY DEF UpdateStatus
<1>4. /\ mutations' \in [Mutations -> Calls] /\ PhasesOK'
      /\ \A n \in Mutations \ {m} : mutations'[n] = mutations[n]
      /\ mutations'[m].kind = "update" /\ mutations'[m].phase = "sent" /\ mutations'[m].row = None
      /\ mutations[m].kind = "none" /\ mutations[m].row = None /\ mutations[m].phase = "new"
  BY <1>1, <1>2, <1>3, CallFacts
<1>5. new \in Entries /\ new.fetch = Idle /\ (e.data # None => new.data # None)
  <2>1. row \in Rows BY DEF Rows, Guess
  <2>2. CASE e.data = None
    BY <1>2, <2>2 DEF CancelFetch, Entries
  <2>3. CASE e.data # None
    BY <1>2, <2>1, <2>3, JobCacheAssumption DEF CancelFetch, SetData, Entries
  <2> QED BY <2>2, <2>3
<1> HIDE DEF new
<1>6. cache' \in [Queries -> Entries] /\ cache'[Detail] = new
      /\ \A q \in Lists : cache'[q] = cache[q]
  BY <1>1, <1>3, <1>5, JobCacheAssumption DEF TypeOK, Queries
<1>7. TypeOK' BY <1>1, <1>3, <1>4, <1>5, <1>6 DEF TypeOK
<1>8. VersionsOK'
  BY <1>3, <1>4, <1>5, <1>6, JobCacheAssumption DEF JobInv, VersionsOK, Queries
<1>9. UpdateInFlight'
  BY <1>4 DEF UpdateInFlight, Is, InFlight
<1>10. PageOK'
  BY <1>3, <1>4, <1>5, <1>6 DEF JobInv, DetailInv, PageOK
<1>11. DetailInv'
  BY <1>5, <1>6, <1>9, <1>10, DetailUntrusted, JobCacheAssumption DEF Trusted
<1>12. ListInv'
  BY <1>3, <1>4, <1>6 DEF JobInv, ListInv, ListFetchLate, ListsReadOwnWrites, ToldOf
<1> QED BY <1>4, <1>7, <1>8, <1>11, <1>12 DEF JobInv

\* What an invalidated entry is, whether it is shown or not.
LEMMA InvalidatedEntry ==
  ASSUME NEW e \in Entries, NEW shown \in BOOLEAN, shown => e.data # None, shown \/ e.fetch = Idle
  PROVE  /\ Invalidate(e, shown) \in Entries
         /\ Invalidate(e, shown).data = e.data
         /\ Invalidate(e, shown).fetch \notin Rows
         /\ ~shown => Invalidate(e, shown).fetch = Idle
         /\ e.data # None => Invalidate(e, shown).stale
<1>1. e.fetch = Idle \/ shown OBVIOUS
<1>2. CASE e.data = None
  BY <1>1, <1>2, JobCacheAssumption DEF Invalidate
<1>3. CASE e.data # None
  BY <1>1, <1>3, JobCacheAssumption DEF Invalidate, Entries
<1> QED BY <1>2, <1>3

\* After the end of a request that leaves an invalidated entry behind.
LEMMA SettledDetail ==
  ASSUME JobInv, PageOK', NEW e \in Entries, cache'[Detail] = Invalidate(e, open),
         open => e.data # None, open \/ e.fetch = Idle
  PROVE  DetailInv'
<1>1. open \in BOOLEAN BY DEF JobInv, TypeOK
<1>2. Invalidate(e, open).fetch \notin Rows
  BY <1>1, InvalidatedEntry
<1>3. Invalidate(e, open).data # None => Invalidate(e, open).stale
  BY <1>1, InvalidatedEntry
<1>4. ~Trusted' /\ (cache[Detail].fetch \notin Rows)'
  BY <1>2, <1>3 DEF Trusted
<1> QED BY <1>4, DetailUntrusted

LEMMA UpdateFailsStep ==
  ASSUME JobInv, NEW m \in Mutations, UpdateFails(m)
  PROVE  JobInv'
<1> DEFINE e   == RolledBack(m)
           new == Invalidate(e, open)
<1>1. TypeOK /\ PhasesOK /\ open \in BOOLEAN BY DEF JobInv, TypeOK
<1>2. /\ mutations[m].kind = "update" /\ mutations[m].phase \in InFlight
      /\ Finish(m, "failed") /\ UNCHANGED <<server, others, open>>
      /\ cache' = [cache EXCEPT ![Detail] = new]
  BY DEF UpdateFails, Is
<1>3. /\ mutations' \in [Mutations -> Calls] /\ PhasesOK'
      /\ \A n \in Mutations \ {m} : mutations'[n] = mutations[n]
      /\ mutations'[m].kind = "update" /\ mutations'[m].row = mutations[m].row
      /\ mutations'[m].phase = "failed"
  BY <1>1, <1>2, FinishFacts
<1>4. e \in Entries /\ (open => e.data # None) /\ (open \/ e.fetch = Idle)
  BY <1>1, RollbackType DEF JobInv, DetailInv, PageOK, TypeOK
<1> HIDE DEF e
<1>5. /\ new \in Entries /\ new.data = e.data /\ new.fetch \notin Rows
      /\ ~open => new.fetch = Idle
  BY <1>1, <1>4, InvalidatedEntry
<1>6. cache' \in [Queries -> Entries] /\ cache'[Detail] = new
      /\ \A q \in Lists : cache'[q] = cache[q]
  BY <1>1, <1>2, <1>5, JobCacheAssumption DEF TypeOK, Queries
<1>7. PageOK'
  BY <1>2, <1>3, <1>4, <1>5, <1>6 DEF JobInv, DetailInv, PageOK
<1>8. DetailInv'
  BY <1>4, <1>6, <1>7, SettledDetail
<1> HIDE DEF new
<1>9. TypeOK' BY <1>1, <1>2, <1>3, <1>5, <1>6 DEF TypeOK
<1>10. VersionsOK'
  BY <1>2, <1>3, <1>5, <1>6 DEF JobInv, VersionsOK, Queries
<1>11. ListInv'
  BY <1>2, <1>3, <1>6 DEF JobInv, ListInv, ListFetchLate, ListsReadOwnWrites, ToldOf
<1> QED BY <1>3, <1>8, <1>9, <1>10, <1>11 DEF JobInv

\* Lists that are refreshed for the mutation, or need not be.
LEMMA RefreshedLists ==
  ASSUME JobInv, NEW m \in Mutations, PhasesOK',
         mutations'[m].row = mutations[m].row, mutations'[m].kind = mutations[m].kind,
         \A n \in Mutations \ {m} : mutations'[n] = mutations[n],
         \A q \in Lists : \/ cache'[q] = Invalidate(cache[q], TRUE)
                          \/ cache'[q] = cache[q] /\ ~ToldOf(q, m)'
  PROVE  /\ ListInv'
         /\ \A q \in Lists : /\ cache'[q] \in Entries
                             /\ cache'[q].data # None
                             /\ cache'[q].fetch \in Rows => cache'[q].fetch = cache[q].fetch
<1>1. TypeOK BY DEF JobInv
<1>2. \A q \in Lists : cache[q] \in Entries /\ cache[q].data # None
  BY <1>1 DEF TypeOK, Queries
<1>3. \A q \in Lists : cache'[q] = Invalidate(cache[q], TRUE)
        => /\ cache'[q] \in Entries /\ cache'[q].data # None
           /\ cache'[q].fetch \notin Rows /\ cache'[q].stale
  <2> SUFFICES ASSUME NEW q \in Lists, cache'[q] = Invalidate(cache[q], TRUE)
               PROVE  /\ cache'[q] \in Entries /\ cache'[q].data # None
                      /\ cache'[q].fetch \notin Rows /\ cache'[q].stale
    OBVIOUS
  <2>1. cache[q] \in Entries /\ cache[q].data # None BY <1>2
  <2> QED BY <2>1, InvalidatedEntry
<1>4. \A q \in Lists, n \in Mutations :
        ToldOf(q, n)' /\ cache'[q] = cache[q] /\ cache'[q] # Invalidate(cache[q], TRUE)
        => ToldOf(q, n) /\ mutations'[n].row = mutations[n].row
  BY DEF ToldOf
<1>5. ListFetchLate'
  BY <1>3, <1>4 DEF JobInv, ListInv, ListFetchLate
<1>6. \A q \in Lists, n \in Mutations :
        ToldOf(q, n)' /\ ~cache'[q].stale => cache'[q].data.version >= mutations'[n].row.version
  BY <1>3, <1>4, ZenonT(40) DEF JobInv, ListInv, ListsReadOwnWrites, ToldOf
<1>7. ListsReadOwnWrites'
  BY <1>6 DEF ListsReadOwnWrites, ToldOf
<1> QED BY <1>2, <1>3, <1>5, <1>7 DEF ListInv

LEMMA UpdateSucceedsStep ==
  ASSUME JobInv, NEW m \in Mutations, UpdateSucceeds(m)
  PROVE  JobInv'
<1> DEFINE row == mutations[m].row
           e   == SetData(cache[Detail], row)
           new == Invalidate(e, open)
<1>1. TypeOK /\ PhasesOK /\ open \in BOOLEAN BY DEF JobInv, TypeOK
<1>2. /\ mutations[m].kind = "update" /\ mutations[m].phase \in InFlight /\ row # None
      /\ Finish(m, "succeeded") /\ UNCHANGED <<server, others, open>>
      /\ cache' = Refreshed(row, new)
  BY DEF UpdateSucceeds, HasRow, Is, InFlight
<1>3. /\ mutations' \in [Mutations -> Calls] /\ PhasesOK'
      /\ \A n \in Mutations \ {m} : mutations'[n] = mutations[n]
      /\ mutations'[m].kind = "update" /\ mutations'[m].row = row
      /\ mutations'[m].phase = "succeeded"
  BY <1>1, <1>2, FinishFacts
<1>4. row \in Rows /\ cache[Detail] \in Entries
  BY <1>1, <1>2 DEF TypeOK, Calls, Queries
<1>5. e \in Entries /\ e.data = row /\ e.fetch = cache[Detail].fetch
  BY <1>4 DEF SetData, Entries
<1>6. open => e.data # None
  BY <1>2, <1>5
<1>7. open \/ e.fetch = Idle
  BY <1>1, <1>5 DEF TypeOK
<1> HIDE DEF e
<1>8. /\ new \in Entries /\ new.data = row /\ new.fetch \notin Rows
      /\ ~open => new.fetch = Idle
  BY <1>1, <1>5, <1>6, <1>7, InvalidatedEntry
<1>9. cache'[Detail] = new
  BY <1>2 DEF Refreshed, Queries
<1>10. PageOK'
  BY <1>2, <1>3, <1>8, <1>9 DEF JobInv, DetailInv, PageOK
<1>11. DetailInv'
  BY <1>5, <1>6, <1>7, <1>9, <1>10, SettledDetail
<1> HIDE DEF new
<1>12. \A q \in Lists : cache'[q] = IF ListKeyMatches(q, row.status) THEN Invalidate(cache[q], TRUE)
                                     ELSE cache[q]
  BY <1>2, JobCacheAssumption DEF Refreshed, Queries
<1>13. \A q \in Lists : \/ cache'[q] = Invalidate(cache[q], TRUE)
                        \/ cache'[q] = cache[q] /\ ~ToldOf(q, m)'
  BY <1>3, <1>12 DEF ToldOf, ListKeyMatches
<1>14. /\ ListInv'
       /\ \A q \in Lists : /\ cache'[q] \in Entries /\ cache'[q].data # None
                           /\ cache'[q].fetch \in Rows => cache'[q].fetch = cache[q].fetch
  BY <1>2, <1>3, <1>13, RefreshedLists
<1>15. cache' \in [Queries -> Entries]
  <2>1. cache' = [q \in Queries |-> cache'[q]]
    BY <1>2 DEF Refreshed
  <2>2. \A q \in Queries : cache'[q] \in Entries
    BY <1>8, <1>9, <1>14 DEF Queries
  <2> QED BY <2>1, <2>2
<1>16. TypeOK' BY <1>1, <1>2, <1>3, <1>8, <1>9, <1>14, <1>15 DEF TypeOK
<1>17. VersionsOK'
  BY <1>2, <1>3, <1>8, <1>9, <1>14 DEF JobInv, VersionsOK, Queries
<1> QED BY <1>3, <1>11, <1>14, <1>16, <1>17 DEF JobInv

-----------------------------------------------------------------------------
(* Steps of bulk updates and deletions that end.                           *)

LEMMA BulkSettlesStep ==
  ASSUME JobInv, NEW m \in Mutations, BulkSettles(m)
  PROVE  JobInv'
<1>1. TypeOK /\ PhasesOK BY DEF JobInv
<1>2. /\ mutations[m].kind = "bulk" /\ mutations[m].phase \in InFlight
      /\ Finish(m, "succeeded") /\ UNCHANGED <<server, others, open>>
      /\ cache' = ListsRefreshed(cache[Detail])
  BY DEF BulkSettles, Is
<1>3. /\ mutations' \in [Mutations -> Calls] /\ PhasesOK'
      /\ \A n \in Mutations \ {m} : mutations'[n] = mutations[n]
      /\ mutations'[m].kind = "bulk" /\ mutations'[m].row = mutations[m].row
      /\ mutations'[m].phase = "succeeded"
  BY <1>1, <1>2, FinishFacts
<1>4. /\ cache'[Detail] = cache[Detail] /\ cache[Detail] \in Entries
      /\ \A q \in Lists : cache'[q] = Invalidate(cache[q], TRUE)
  BY <1>1, <1>2, JobCacheAssumption DEF ListsRefreshed, Queries, TypeOK
<1>5. /\ ListInv'
      /\ \A q \in Lists : /\ cache'[q] \in Entries /\ cache'[q].data # None
                          /\ cache'[q].fetch \in Rows => cache'[q].fetch = cache[q].fetch
  BY <1>2, <1>3, <1>4, RefreshedLists
<1>6. cache' \in [Queries -> Entries]
  <2>1. cache' = [q \in Queries |-> cache'[q]]
    BY <1>2 DEF ListsRefreshed
  <2>2. \A q \in Queries : cache'[q] \in Entries
    BY <1>4, <1>5 DEF Queries
  <2> QED BY <2>1, <2>2
<1>7. TypeOK' BY <1>1, <1>2, <1>3, <1>4, <1>5, <1>6 DEF TypeOK
<1>8. VersionsOK' BY <1>2, <1>3, <1>4, <1>5 DEF JobInv, VersionsOK, Queries
<1>9. UpdateInFlight' = UpdateInFlight
  BY <1>2, <1>3 DEF UpdateInFlight, Is, InFlight
<1>10. DetailInv'
  BY <1>2, <1>3, <1>4, <1>9
     DEF JobInv, DetailInv, DetailFetchLate, Settled, PageOK, GuessesAreTemporary,
         DetailReadsOwnWrites, DeletedJobNotServed, Trusted
<1> QED BY <1>3, <1>5, <1>7, <1>8, <1>10 DEF JobInv

LEMMA DeleteSucceedsStep ==
  ASSUME JobInv, NEW m \in Mutations, DeleteSucceeds(m)
  PROVE  JobInv'
<1>1. TypeOK /\ PhasesOK BY DEF JobInv
<1>2. /\ mutations[m].kind = "delete" /\ mutations[m].phase \in InFlight
      /\ Finish(m, "succeeded") /\ UNCHANGED <<server, others>> /\ open' = FALSE
      /\ cache' = ListsRefreshed(NoEntry)
  BY DEF DeleteSucceeds, HasRow, Is, InFlight
<1>3. /\ mutations' \in [Mutations -> Calls] /\ PhasesOK'
      /\ \A n \in Mutations \ {m} : mutations'[n] = mutations[n]
      /\ mutations'[m].kind = "delete" /\ mutations'[m].row = mutations[m].row
      /\ mutations'[m].phase = "succeeded"
  BY <1>1, <1>2, FinishFacts
<1>4. /\ cache'[Detail] = NoEntry
      /\ \A q \in Lists : cache'[q] = Invalidate(cache[q], TRUE)
  BY <1>2, JobCacheAssumption DEF ListsRefreshed, Queries
<1>5. NoEntry \in Entries /\ NoEntry.data = None /\ NoEntry.fetch = Idle /\ NoEntry.fetch \notin Rows
  BY JobCacheAssumption DEF NoEntry, Entries
<1>6. /\ ListInv'
      /\ \A q \in Lists : /\ cache'[q] \in Entries /\ cache'[q].data # None
                          /\ cache'[q].fetch \in Rows => cache'[q].fetch = cache[q].fetch
  BY <1>2, <1>3, <1>4, RefreshedLists
<1>7. cache' \in [Queries -> Entries]
  <2>1. cache' = [q \in Queries |-> cache'[q]]
    BY <1>2 DEF ListsRefreshed
  <2>2. \A q \in Queries : cache'[q] \in Entries
    BY <1>4, <1>5, <1>6 DEF Queries
  <2> QED BY <2>1, <2>2
<1>8. TypeOK' BY <1>1, <1>2, <1>3, <1>4, <1>5, <1>6, <1>7 DEF TypeOK
<1>9. VersionsOK' BY <1>2, <1>3, <1>4, <1>5, <1>6 DEF JobInv, VersionsOK, Queries
<1>10. PageOK' BY <1>2 DEF PageOK
<1>11. DetailInv'
  BY <1>4, <1>5, <1>10, DetailUntrusted DEF Trusted
<1> QED BY <1>3, <1>6, <1>8, <1>9, <1>11 DEF JobInv

-----------------------------------------------------------------------------
(* Steps of the server.                                                    *)

LEMMA OtherWritesStep ==
  ASSUME JobInv, NEW s \in Statuses, OtherWrites(s)
  PROVE  JobInv'
<1>1. /\ others < MaxOthers /\ others' = others + 1 /\ server' = Written(s)
      /\ UNCHANGED <<open, cache, mutations>>
  BY DEF OtherWrites
<1>2. server \in Rows /\ server' \in Rows /\ server'.version = server.version + 1
  BY <1>1 DEF JobInv, TypeOK, Written, Rows
<1>3. TypeOK'
  BY <1>1, <1>2, JobCacheAssumption DEF JobInv, TypeOK
<1>4. \A m \in Mutations : mutations[m].row \in Rows \cup {None}
  BY DEF JobInv, TypeOK, Calls
<1>5. server.version \in Nat /\ \A m \in Mutations : mutations[m].row # None => mutations[m].row.version \in Nat
  BY <1>2, <1>4 DEF Rows
<1>6. VersionsOK' BY <1>1, <1>2, <1>5 DEF JobInv, VersionsOK
<1>7. PhasesOK' BY <1>1 DEF JobInv, PhasesOK
<1>8. DetailInv'
  BY <1>1 DEF JobInv, DetailInv, DetailFetchLate, Settled, PageOK, GuessesAreTemporary,
              DetailReadsOwnWrites, DeletedJobNotServed, Trusted, UpdateInFlight, Is
<1>9. ListInv'
  BY <1>1 DEF JobInv, ListInv, ListFetchLate, ListsReadOwnWrites, ToldOf
<1> QED BY <1>3, <1>6, <1>7, <1>8, <1>9 DEF JobInv

LEMMA ExecuteStep ==
  ASSUME JobInv, NEW m \in Mutations, Execute(m)
  PROVE  JobInv'
<1> DEFINE s   == IF mutations[m].kind = "delete" THEN Gone ELSE mutations[m].status
           row == IF server.status = Gone THEN None ELSE server'
           c   == [mutations[m] EXCEPT !.phase = "executed", !.row = row]
<1>1. TypeOK /\ PhasesOK BY DEF JobInv
<1>2. /\ mutations[m].phase = "sent" /\ UNCHANGED <<others, open, cache>>
      /\ mutations' = [mutations EXCEPT ![m] = c]
  BY <1>1 DEF Execute, TypeOK
<1>3. server \in Rows /\ server.version \in Nat /\ mutations[m] \in Calls
  BY <1>1 DEF TypeOK, Rows
<1>4. server.status # Gone => server' = Written(s)
  BY DEF Execute
<1>5. server.status # Gone => s \in Statuses \cup {Gone}
  BY <1>1, <1>2 DEF PhasesOK
<1>6. /\ server' \in Rows /\ server'.version >= server.version
      /\ server.status # Gone => server'.version = server.version + 1
  <2>1. CASE server.status = Gone
    BY <1>3, <2>1 DEF Execute
  <2>2. CASE server.status # Gone
    BY <1>3, <1>4, <1>5, <2>2 DEF Written, Rows
  <2> QED BY <2>1, <2>2
<1>7. row \in Rows \cup {None} /\ (row # None => row = server')
  BY <1>6
<1> HIDE DEF row
<1>8. /\ c \in Calls /\ c.kind = mutations[m].kind /\ c.status = mutations[m].status
      /\ c.phase = "executed" /\ c.row = row
  BY <1>3, <1>7 DEF Calls
<1> HIDE DEF c
<1>9. /\ mutations' \in [Mutations -> Calls] /\ mutations'[m] = c
      /\ \A n \in Mutations \ {m} : mutations'[n] = mutations[n]
  BY <1>1, <1>2, <1>8 DEF TypeOK
<1>10. PhasesOK'
  BY <1>1, <1>8, <1>9 DEF PhasesOK
<1>11. TypeOK'
  BY <1>1, <1>2, <1>6, <1>9 DEF TypeOK
<1>12. VersionsOK'
  <2>1. \A n \in Mutations : mutations[n].row # None => mutations[n].row.version \in Nat
    BY <1>1 DEF TypeOK, Calls, Rows
  <2>2. server'.version \in Nat /\ server.version \in Nat
    BY <1>3, <1>6 DEF Rows
  <2>3. server'.version >= 1
    BY <1>6, <2>2 DEF JobInv, VersionsOK
  <2>4. \A n \in Mutations : mutations'[n].row # None => mutations'[n].row.version <= server'.version
    BY <1>6, <1>7, <1>8, <1>9, <2>1, <2>2 DEF JobInv, VersionsOK
  <2>5. \A q \in Queries : cache'[q].fetch \in Rows => cache'[q].fetch.version >= 1
    BY <1>2 DEF JobInv, VersionsOK
  <2> QED BY <2>3, <2>4, <2>5 DEF VersionsOK
<1>13. UpdateInFlight' = UpdateInFlight /\ (mutations[m].kind = "update" => UpdateInFlight)
  BY <1>2, <1>8, <1>9 DEF UpdateInFlight, Is, InFlight
<1>14. DetailInv'
  BY <1>2, <1>8, <1>9, <1>13
     DEF JobInv, DetailInv, DetailFetchLate, Settled, PageOK, GuessesAreTemporary,
         DetailReadsOwnWrites, DeletedJobNotServed, Trusted
<1>15. ListInv'
  BY <1>2, <1>8, <1>9 DEF JobInv, ListInv, ListFetchLate, ListsReadOwnWrites, ToldOf
<1> QED BY <1>10, <1>11, <1>12, <1>14, <1>15 DEF JobInv

-----------------------------------------------------------------------------
(* Steps of fetches.                                                       *)

\* The entry of one query changes.
LEMMA FetchFacts ==
  ASSUME JobInv, NEW q \in Queries, NEW e \in Entries, FetchStep(q, e)
  PROVE  /\ cache' \in [Queries -> Entries] /\ cache'[q] = e
         /\ \A r \in Queries \ {q} : cache'[r] = cache[r]
         /\ UNCHANGED <<server, others, open, mutations>>
         /\ PhasesOK'
         /\ UpdateInFlight' = UpdateInFlight
BY DEF JobInv, TypeOK, FetchStep, PhasesOK, UpdateInFlight, Is

\* A fetch that carries no row, or one read after all writes so far, and leaves
\* the data alone.
LEMMA FetchMovesOn ==
  ASSUME JobInv, NEW q \in Queries, NEW e \in Entries, FetchStep(q, e),
         e.data = cache[q].data, e.stale = cache[q].stale,
         e.fetch \in Rows => e.fetch = server,
         q = Detail => open \/ e.fetch = Idle
  PROVE  JobInv'
<1>1. /\ cache' \in [Queries -> Entries] /\ cache'[q] = e
      /\ \A r \in Queries \ {q} : cache'[r] = cache[r]
      /\ UNCHANGED <<server, others, open, mutations>>
      /\ PhasesOK' /\ UpdateInFlight' = UpdateInFlight
  BY FetchFacts
<1>2. \A r \in Queries : /\ cache'[r].data = cache[r].data /\ cache'[r].stale = cache[r].stale
                         /\ cache'[r].fetch \in Rows => cache'[r].fetch \in {cache[r].fetch, server}
                         /\ cache'[r].fetch # cache[r].fetch => r = q
  BY <1>1
<1>3. Detail \in Queries /\ Lists \subseteq Queries
  BY DEF Queries
<1>4. TypeOK'
  BY <1>1, <1>2, <1>3 DEF JobInv, TypeOK
<1>5. VersionsOK'
  BY <1>1, <1>2 DEF JobInv, VersionsOK
<1>6. \A m \in Mutations : mutations[m].row # None => server.version >= mutations[m].row.version
  <2>1. server.version \in Nat /\ \A m \in Mutations : mutations[m].row # None => mutations[m].row.version \in Nat
    BY DEF JobInv, TypeOK, Calls, Rows
  <2> QED BY <2>1 DEF JobInv, VersionsOK
<1>7. DetailFetchLate'
  BY <1>1, <1>2, <1>3, <1>6 DEF JobInv, DetailInv, DetailFetchLate, Settled
<1>8. DetailInv'
  BY <1>1, <1>2, <1>3, <1>7
     DEF JobInv, DetailInv, PageOK, GuessesAreTemporary, DetailReadsOwnWrites,
         DeletedJobNotServed, Trusted
<1>9. ListInv'
  BY <1>1, <1>2, <1>3, <1>6 DEF JobInv, ListInv, ListFetchLate, ListsReadOwnWrites, ToldOf
<1> QED BY <1>1, <1>4, <1>5, <1>8, <1>9 DEF JobInv

LEMMA RefetchStep ==
  ASSUME JobInv, NEW q \in Queries, Refetch(q)
  PROVE  JobInv'
<1> DEFINE e == [cache[q] EXCEPT !.fetch = Asked]
<1>1. cache[q] \in Entries BY DEF JobInv, TypeOK
<1>2. e \in Entries /\ e.data = cache[q].data /\ e.stale = cache[q].stale /\ e.fetch = Asked
  BY <1>1 DEF Entries
<1>3. FetchStep(q, e) /\ (q = Detail => open)
  BY DEF Refetch, Shown
<1> HIDE DEF e
<1> QED BY <1>2, <1>3, FetchMovesOn, JobCacheAssumption

LEMMA ServerReadsStep ==
  ASSUME JobInv, NEW q \in Queries, ServerReads(q)
  PROVE  JobInv'
<1> DEFINE e == [cache[q] EXCEPT !.fetch = server]
<1>1. cache[q] \in Entries /\ server \in Rows BY DEF JobInv, TypeOK
<1>2. e \in Entries /\ e.data = cache[q].data /\ e.stale = cache[q].stale /\ e.fetch = server
  BY <1>1 DEF Entries
<1>3. FetchStep(q, e) /\ (q = Detail => open)
  BY JobCacheAssumption DEF ServerReads, JobInv, TypeOK
<1> HIDE DEF e
<1> QED BY <1>2, <1>3, FetchMovesOn

LEMMA FetchFailsStep ==
  ASSUME JobInv, NEW q \in Queries, FetchFails(q)
  PROVE  JobInv'
<1> DEFINE e == CancelFetch(cache[q])
<1>1. cache[q] \in Entries BY DEF JobInv, TypeOK
<1>2. e \in Entries /\ e.data = cache[q].data /\ e.stale = cache[q].stale /\ e.fetch = Idle
  BY <1>1, EntryTypes, EntryFields
<1>3. FetchStep(q, e) BY DEF FetchFails
<1> HIDE DEF e
<1> QED BY <1>2, <1>3, FetchMovesOn, JobCacheAssumption

\* What arrives was read after all writes that the browser knows of.
LEMMA FetchArrivesStep ==
  ASSUME JobInv, NEW q \in Queries, FetchArrives(q)
  PROVE  JobInv'
<1> DEFINE row == cache[q].fetch
           e   == Loaded(row)
<1>1. row \in Rows /\ FetchStep(q, e)
  BY DEF FetchArrives
<1>2. e \in Entries /\ e.data = row /\ e.fetch = Idle /\ ~e.stale /\ row # None /\ Idle \notin Rows
  BY <1>1, JobCacheAssumption DEF Loaded, Entries
<1> HIDE DEF e
<1>3. /\ cache' \in [Queries -> Entries] /\ cache'[q] = e
      /\ \A r \in Queries \ {q} : cache'[r] = cache[r]
      /\ UNCHANGED <<server, others, open, mutations>>
      /\ PhasesOK' /\ UpdateInFlight' = UpdateInFlight
  BY <1>1, <1>2, FetchFacts
<1>4. Detail \in Queries /\ Lists \subseteq Queries /\ Detail \notin Lists
  BY JobCacheAssumption DEF Queries
<1>5. TypeOK'
  BY <1>2, <1>3, <1>4 DEF JobInv, TypeOK
<1>6. VersionsOK'
  BY <1>2, <1>3 DEF JobInv, VersionsOK
<1>7. row.version >= 1 /\ row.version \in Nat
  BY <1>1 DEF JobInv, VersionsOK, Rows
<1>8. DetailInv'
  <2>1. CASE q = Detail
    <3>1. open
      BY <1>1, <1>2, <2>1 DEF JobInv, TypeOK
    <3>2. DetailFetchLate'
      BY <1>2, <1>3, <2>1 DEF DetailFetchLate
    <3>3. PageOK'
      BY <1>2, <1>3, <2>1 DEF JobInv, DetailInv, PageOK
    <3>4. GuessesAreTemporary'
      BY <1>2, <1>3, <1>7, <2>1 DEF GuessesAreTemporary, Guess
    <3>5. ASSUME ~UpdateInFlight, NEW m \in Mutations,
                 mutations[m].kind = "update", mutations[m].row # None
          PROVE  row.version >= mutations[m].row.version
      <4>1. mutations[m].phase \in {"new", "sent", "executed", "succeeded", "failed"}
        BY DEF JobInv, TypeOK, Calls
      <4>2. Settled(m)
        BY <3>5, <4>1 DEF UpdateInFlight, Is, InFlight, Settled, JobInv, PhasesOK
      <4> QED BY <1>1, <2>1, <3>5, <4>2 DEF JobInv, DetailInv, DetailFetchLate
    <3>6. DetailReadsOwnWrites'
      BY <1>2, <1>3, <2>1, <3>5 DEF DetailReadsOwnWrites, Trusted
    <3>7. DeletedJobNotServed'
      BY <1>3, <3>1 DEF JobInv, DetailInv, PageOK, DeletedJobNotServed
    <3> QED BY <3>2, <3>3, <3>4, <3>6, <3>7 DEF DetailInv
  <2>2. CASE q # Detail
    BY <1>3, <1>4, <2>2
       DEF JobInv, DetailInv, DetailFetchLate, Settled, PageOK, GuessesAreTemporary,
           DetailReadsOwnWrites, DeletedJobNotServed, Trusted
  <2> QED BY <2>1, <2>2
<1>9. ListInv'
  <2>1. ListFetchLate'
    BY <1>2, <1>3, <1>4 DEF JobInv, ListInv, ListFetchLate, ToldOf
  <2>2. \A filter \in Lists, m \in Mutations :
          ToldOf(filter, m) /\ ~cache'[filter].stale
            => cache'[filter].data.version >= mutations[m].row.version
    BY <1>1, <1>2, <1>3, <1>4 DEF JobInv, ListInv, ListFetchLate, ListsReadOwnWrites, ToldOf
  <2>3. ListsReadOwnWrites'
    BY <1>3, <2>2 DEF ListsReadOwnWrites, ToldOf
  <2> QED BY <2>1, <2>3 DEF ListInv
<1> QED BY <1>3, <1>5, <1>6, <1>8, <1>9 DEF JobInv

-----------------------------------------------------------------------------
LEMMA StepInvariant == JobInv /\ [Next]_vars => JobInv'
<1> SUFFICES ASSUME JobInv, [Next]_vars PROVE JobInv' OBVIOUS
<1>1. ASSUME NEW m \in Mutations, MutationStep(m) PROVE JobInv'
  BY <1>1, UpdateStatusStep, BulkUpdateStep, DeleteJobStep, ExecuteStep, UpdateSucceedsStep,
     UpdateFailsStep, BulkSettlesStep, DeleteSucceedsStep, DeleteFailsStep DEF MutationStep
<1>2. ASSUME NEW q \in Queries, QueryStep(q) PROVE JobInv'
  BY <1>2, RefetchStep, ServerReadsStep, FetchArrivesStep, FetchFailsStep DEF QueryStep
<1>3. ASSUME NEW s \in Statuses, OtherWrites(s) PROVE JobInv'
  BY <1>3, OtherWritesStep
<1>4. ASSUME UNCHANGED vars PROVE JobInv'
  BY <1>4 DEF vars, JobInv, TypeOK, PhasesOK, VersionsOK, DetailInv, DetailFetchLate, Settled,
              PageOK, GuessesAreTemporary, DetailReadsOwnWrites, DeletedJobNotServed, Trusted,
              UpdateInFlight, Is, ListInv, ListFetchLate, ListsReadOwnWrites, ToldOf
<1> QED BY <1>1, <1>2, <1>3, <1>4 DEF Next

\* The inductive invariant holds however requests, answers and fetches overlap.
THEOREM Invariant == Spec => []JobInv
<1>1. Init => JobInv BY InitInvariant
<1>2. JobInv /\ [Next]_vars => JobInv' BY StepInvariant
<1> QED BY <1>1, <1>2, PTL DEF Spec

\* The cache and the calls stay well-formed, lists stay loaded, and a page that
\* is closed fetches nothing.
THEOREM TypeCorrect == Spec => []TypeOK
<1>1. JobInv => TypeOK BY DEF JobInv
<1> QED BY <1>1, Invariant, PTL

\* The details are never left with a status that the browser made up in
\* useUpdateJobStatus, once no update is under way and they are not stale.
THEOREM NoGuessIsKept == Spec => []GuessesAreTemporary
<1>1. JobInv => GuessesAreTemporary BY DEF JobInv, DetailInv
<1> QED BY <1>1, Invariant, PTL

\* Details that are trusted include what each update of this browser wrote, in
\* whatever order the server and the answers came, as long as the page stays.
THEOREM DetailsAreOwnWrites == Spec => []DetailReadsOwnWrites
<1>1. JobInv => DetailReadsOwnWrites BY DEF JobInv, DetailInv
<1> QED BY <1>1, Invariant, PTL

\* The narrowed invalidation of the lists (listKeyMatchesStatus) misses no list
\* into which a job was moved by an update that the browser was told succeeded.
THEOREM ListsAreOwnWrites == Spec => []ListsReadOwnWrites
<1>1. JobInv => ListsReadOwnWrites BY DEF JobInv, ListInv
<1> QED BY <1>1, Invariant, PTL

\* A job whose deletion has succeeded is not shown from the cache, whatever
\* updates of it were under way.
THEOREM DeletedIsNotServed == Spec => []DeletedJobNotServed
<1>1. JobInv => DeletedJobNotServed BY DEF JobInv, DetailInv
<1> QED BY <1>1, Invariant, PTL
=============================================================================
