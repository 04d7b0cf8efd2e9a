---------------------------- MODULE ResultService ----------------------------
(***************************************************************************)
(* result_service: one goroutine consumes the result topic and spawns, for *)
(* every event, a goroutine that updates the row of the submission in      *)
(* PostgreSQL and then deletes the user's history from the Redis cache;    *)
(* gRPC handlers read the history through that cache.                      *)
(*   internal/handler/kafka_consumer.go  the consumer loop                 *)
(*   internal/service/service.go         the update goroutines             *)
(*   internal/store/store.go             the database and the cache        *)
(* A row is its status, a history the statuses of the user's rows.         *)
(* Offsets are 0-based: the record at offset o is results[o + 1].          *)
(***************************************************************************)
EXTENDS Faults, Integers, Sequences, FiniteSets

CONSTANTS
    Ids,         \* submission ids
    Users,       \* user ids
    UserOf,      \* the user_id column: who made a submission
    Verdicts,    \* statuses of a result event
    Malformed,   \* a result event that does not decode
    Goroutines,  \* bound: update goroutines that may run at the same time
    Readers,     \* concurrent GetUserSubmissions calls
    MaxResults   \* bound: length of the result topic (when it is the input)

ASSUME ResultConstants ==
    /\ UserOf \in [Ids -> Users]
    /\ Ids # {} /\ Verdicts # {}
    /\ MaxResults \in Nat
    /\ {"none", "Pending"} \cap Verdicts = {}

VARIABLES
    results,     \* the result topic (one partition), append only
    rows,        \* the submissions table: status of each row, "none" if absent
    rcommitted,  \* the offset the broker holds for the consumer group
    rposition,   \* the offset FetchMessage reads next
    rloop,       \* "down" | "fetch" | "process" | "commit": the consumer loop
    rmsg,        \* the offset of the event the loop handles
    gstate,      \* "free" | "update" | "invalidate": an update goroutine
    gevent,      \* the event it applies (meaningful unless it is free)
    cache,       \* Redis: the history of each user, or Miss
    rdstate,     \* "idle" | "query" | "fill": a GetUserSubmissions call
    rduser,      \* the user it reads the history of
    rdhistory    \* what it read from the database (rdstate = "fill")

consumerVars == <<rcommitted, rposition, rloop, rmsg>>
updateVars   == <<gstate, gevent>>
readerVars   == <<rdstate, rduser, rdhistory>>
resultVars   == <<consumerVars, updateVars, cache, readerVars>>
vars         == <<results, rows, resultVars, faults>>

Status    == {"none", "Pending"} \cup Verdicts
Event     == [id : Ids, status : Verdicts]
Histories == [Ids -> Status]
Miss      == <<>>
AnyUser   == CHOOSE u \in Users : TRUE

\* The rows of a user as the SELECT sees them; a row that is not there, or is
\* another user's, is "none".
History(u) == [id \in Ids |-> IF UserOf[id] = u THEN rows[id] ELSE "none"]

NoHistory == [id \in Ids |-> "none"]
AnyEvent  == CHOOSE e \in Event : TRUE
-----------------------------------------------------------------------------
ResultInit ==
    /\ rcommitted = 0
    /\ rposition = 0
    /\ rloop = "down"
    /\ rmsg = 0
    /\ gstate = [g \in Goroutines |-> "free"]
    /\ gevent = [g \in Goroutines |-> AnyEvent]
    /\ cache = [u \in Users |-> Miss]
    /\ rdstate = [r \in Readers |-> "idle"]
    /\ rduser = [r \in Readers |-> AnyUser]
    /\ rdhistory = [r \in Readers |-> NoHistory]

Init ==
    /\ results = <<>>
    /\ rows = [id \in Ids |-> "none"]
    /\ ResultInit
    /\ FaultsInit

(* Environment *)

\* submission_service inserts a row.
InsertRow(id) ==
    /\ rows[id] = "none"
    /\ rows' = [rows EXCEPT ![id] = "Pending"]
    /\ UNCHANGED <<results, resultVars, faults>>

\* judge_service appends a result, of a submission whose row exists.  There
\* may be several for one submission, with different verdicts, because a
\* submission that is delivered again is judged again.
PublishResult(e) ==
    /\ Len(results) < MaxResults
    /\ e # Malformed => rows[e.id] # "none"
    /\ results' = Append(results, e)
    /\ UNCHANGED <<rows, resultVars, faults>>
-----------------------------------------------------------------------------
(* The process *)

\* New and Run: the consumer resumes from the broker's offset.
Start ==
    /\ rloop = "down"
    /\ rloop' = "fetch"
    /\ rposition' = rcommitted
    /\ UNCHANGED <<results, rows, rcommitted, rmsg, updateVars, cache,
                   readerVars, faults>>

\* The process is killed, with its goroutines and the calls it was serving.
\* The rows, the cache and the broker's offset outlive it.
Crash ==
    /\ rloop # "down"
    /\ Fails("result_crash")
    /\ rloop' = "down"
    /\ rposition' = 0
    /\ rmsg' = 0
    /\ gstate' = [g \in Goroutines |-> "free"]
    /\ gevent' = [g \in Goroutines |-> AnyEvent]
    /\ rdstate' = [r \in Readers |-> "idle"]
    /\ rduser' = [r \in Readers |-> AnyUser]
    /\ rdhistory' = [r \in Readers |-> NoHistory]
    /\ UNCHANGED <<results, rows, rcommitted, cache>>
-----------------------------------------------------------------------------
(* KafkaConsumer.Start; a FetchMessage error is logged and changes nothing *)

\* Mutant of Fetch: the bound of the topic is off by one.
FetchPastEnd ==
    /\ rloop = "fetch"
    /\ rposition <= Len(results)
    /\ rmsg' = rposition
    /\ rposition' = rposition + 1
    /\ rloop' = IF rposition < Len(results) THEN "process" ELSE "commit"
    /\ UNCHANGED <<results, rows, rcommitted, updateVars, cache, readerVars, faults>>

\* An event that does not decode is not processed but committed.
Fetch ==
    /\ rloop = "fetch"
    /\ rposition < Len(results)
    /\ rmsg' = rposition
    /\ rposition' = rposition + 1
    /\ rloop' = IF results[rposition + 1] = Malformed THEN "commit" ELSE "process"
    /\ UNCHANGED <<results, rows, rcommitted, updateVars, cache, readerVars, faults>>

\* Mutant of ProcessResult: a fixed set of goroutines, and an event that finds
\* its goroutine busy is dropped.
ProcessOrDrop(g) ==
    /\ rloop = "process"
    /\ IF gstate[g] = "free"
       THEN /\ gstate' = [gstate EXCEPT ![g] = "update"]
            /\ gevent' = [gevent EXCEPT ![g] = results[rmsg + 1]]
       ELSE UNCHANGED updateVars
    /\ rloop' = "commit"
    /\ UNCHANGED <<results, rows, rcommitted, rposition, rmsg, cache,
                   readerVars, faults>>

\* ProcessResult only spawns the goroutine: the loop goes on to the commit.
ProcessResult(g) ==
    /\ rloop = "process"
    /\ gstate[g] = "free"
    /\ gstate' = [gstate EXCEPT ![g] = "update"]
    /\ gevent' = [gevent EXCEPT ![g] = results[rmsg + 1]]
    /\ rloop' = "commit"
    /\ UNCHANGED <<results, rows, rcommitted, rposition, rmsg, cache,
                   readerVars, faults>>

\* Without a CommitInterval CommitMessages waits for the broker.
CommitMessages ==
    /\ rloop = "commit"
    /\ rcommitted' = rmsg + 1
    /\ rmsg' = 0
    /\ rloop' = "fetch"
    /\ UNCHANGED <<results, rows, rposition, updateVars, cache, readerVars, faults>>

\* An error of CommitMessages is at most logged.
CommitFailed ==
    /\ rloop = "commit"
    /\ Fails("commit_error")
    /\ rmsg' = 0
    /\ rloop' = "fetch"
    /\ UNCHANGED <<results, rows, rcommitted, rposition, updateVars, cache, readerVars>>

\* A new generation of the group resumes from the broker's offset.
Rebalance ==
    /\ rloop # "down"
    /\ Fails("result_rebalance")
    /\ rposition' = rcommitted
    /\ UNCHANGED <<results, rows, rcommitted, rloop, rmsg, updateVars, cache, readerVars>>
-----------------------------------------------------------------------------
(* UpdateSubmissionStatus in its own goroutine *)

Finish(g) ==
    /\ gstate' = [gstate EXCEPT ![g] = "free"]
    /\ gevent' = [gevent EXCEPT ![g] = AnyEvent]

\* Mutant of UpdateRow: the UPDATE has no WHERE clause.
UpdateEveryRow(g) ==
    /\ gstate[g] = "update"
    /\ rows' = [id \in Ids |-> IF rows[id] = "none" THEN "none" ELSE gevent[g].status]
    /\ gstate' = [gstate EXCEPT ![g] = "invalidate"]
    /\ UNCHANGED <<results, consumerVars, gevent, cache, readerVars, faults>>

\* UPDATE submissions SET status = $1 WHERE id = $3 RETURNING user_id.  If no
\* row has the id, Scan fails and the goroutine logs the error and ends.
UpdateRow(g) ==
    LET id == gevent[g].id IN
    /\ gstate[g] = "update"
    /\ rows' = [rows EXCEPT ![id] = IF @ = "none" THEN @ ELSE gevent[g].status]
    /\ gstate' = [gstate EXCEPT ![g] =
                     IF rows[id] = "none" THEN "free" ELSE "invalidate"]
    /\ UNCHANGED <<results, consumerVars, gevent, cache, readerVars, faults>>

\* Mutant of UpdateFailed: a failed update puts the row back to "Pending".
UpdateFailedResets(g) ==
    /\ gstate[g] = "update"
    /\ Fails("db_error")
    /\ rows' = [rows EXCEPT ![gevent[g].id] = "Pending"]
    /\ Finish(g)
    /\ UNCHANGED <<results, consumerVars, cache, readerVars>>

\* The database fails, before or after it applied the UPDATE.
UpdateFailed(g) ==
    /\ gstate[g] = "update"
    /\ Fails("db_error")
    /\ rows[gevent[g].id] # "none"
    /\ \/ rows' = rows
       \/ rows' = [rows EXCEPT ![gevent[g].id] = gevent[g].status]
    /\ Finish(g)
    /\ UNCHANGED <<results, consumerVars, cache, readerVars>>

\* s.cache.Del(ctx, "submissions:<user>")
Invalidate(g) ==
    /\ gstate[g] = "invalidate"
    /\ cache' = [cache EXCEPT ![UserOf[gevent[g].id]] = Miss]
    /\ Finish(g)
    /\ UNCHANGED <<results, rows, consumerVars, readerVars, faults>>

\* An error of DEL is logged and the goroutine ends as if it had succeeded.
InvalidateFailed(g) ==
    /\ gstate[g] = "invalidate"
    /\ Fails("cache_error")
    /\ Finish(g)
    /\ UNCHANGED <<results, rows, consumerVars, cache, readerVars>>
-----------------------------------------------------------------------------
(* GetUserSubmissions *)

Return(r) ==
    /\ rdstate' = [rdstate EXCEPT ![r] = "idle"]
    /\ rduser' = [rduser EXCEPT ![r] = AnyUser]
    /\ rdhistory' = [rdhistory EXCEPT ![r] = NoHistory]

\* The key is in the cache: a hit returns what is there and changes nothing.
ReadHit(r, u) ==
    /\ rloop # "down"
    /\ rdstate[r] = "idle"
    /\ cache[u] # Miss
    /\ UNCHANGED vars

\* GET misses: the call goes to the database.
ReadMiss(r, u) ==
    /\ rloop # "down"
    /\ rdstate[r] = "idle"
    /\ cache[u] = Miss
    /\ rdstate' = [rdstate EXCEPT ![r] = "query"]
    /\ rduser' = [rduser EXCEPT ![r] = u]
    /\ UNCHANGED <<results, rows, consumerVars, updateVars, cache, rdhistory, faults>>

\* GET fails: as a miss, although the key may be there.
ReadCacheError(r, u) ==
    /\ rloop # "down"
    /\ rdstate[r] = "idle"
    /\ Fails("cache_error")
    /\ rdstate' = [rdstate EXCEPT ![r] = "query"]
    /\ rduser' = [rduser EXCEPT ![r] = u]
    /\ UNCHANGED <<results, rows, consumerVars, updateVars, cache, rdhistory>>

\* SELECT ... WHERE user_id = $1, and all its rows arrive.
Query(r) ==
    /\ rdstate[r] = "query"
    /\ rdstate' = [rdstate EXCEPT ![r] = "fill"]
    /\ rdhistory' = [rdhistory EXCEPT ![r] = History(rduser[r])]
    /\ UNCHANGED <<results, rows, consumerVars, updateVars, cache, rduser, faults>>

\* QueryContext or Scan fails: the error is returned, the cache left alone.
QueryFailed(r) ==
    /\ rdstate[r] = "query"
    /\ Fails("read_error")
    /\ Return(r)
    /\ UNCHANGED <<results, rows, consumerVars, updateVars, cache>>

\* The connection breaks between two rows: Next() returns false and nobody asks
\* rows.Err(), so the rows that arrived are taken for the history.
QueryCut(r) ==
    /\ rdstate[r] = "query"
    /\ Fails("read_error")
    /\ rdstate' = [rdstate EXCEPT ![r] = "fill"]
    /\ \E arrived \in SUBSET Ids :
          rdhistory' = [rdhistory EXCEPT ![r] =
             [id \in Ids |-> IF id \in arrived THEN History(rduser[r])[id] ELSE "none"]]
    /\ UNCHANGED <<results, rows, consumerVars, updateVars, cache, rduser>>

\* SET with a TTL of 5 minutes, then the call returns.
Fill(r) ==
    /\ rdstate[r] = "fill"
    /\ cache' = [cache EXCEPT ![rduser[r]] = rdhistory[r]]
    /\ Return(r)
    /\ UNCHANGED <<results, rows, consumerVars, updateVars, faults>>

\* The result of SET is not looked at.
FillFailed(r) ==
    /\ rdstate[r] = "fill"
    /\ Fails("cache_error")
    /\ Return(r)
    /\ UNCHANGED <<results, rows, consumerVars, updateVars, cache>>

\* Mutant of Expire: SET without a TTL.
NeverExpire(u) ==
    /\ cache[u] # Miss
    /\ UNCHANGED vars

\* Redis drops a key whose TTL has passed.
Expire(u) ==
    /\ cache[u] # Miss
    /\ cache' = [cache EXCEPT ![u] = Miss]
    /\ UNCHANGED <<results, rows, consumerVars, updateVars, readerVars, faults>>
-----------------------------------------------------------------------------
ConsumerStep ==
    \/ Start \/ Fetch \/ CommitMessages
    \/ \E g \in Goroutines : ProcessResult(g)

UpdateStep(g) == UpdateRow(g) \/ Invalidate(g)

ReadStep(r) == Query(r) \/ Fill(r)

ResultNext ==
    \/ ConsumerStep \/ CommitFailed \/ Rebalance \/ Crash
    \/ \E g \in Goroutines :
          UpdateStep(g) \/ UpdateFailed(g) \/ InvalidateFailed(g)
    \/ \E r \in Readers :
          \/ ReadStep(r) \/ QueryFailed(r) \/ QueryCut(r) \/ FillFailed(r)
          \/ \E u \in Users : ReadHit(r, u) \/ ReadMiss(r, u) \/ ReadCacheError(r, u)
    \/ \E u \in Users : Expire(u)

\* The topic is read, no goroutine and no call is running: FetchMessage blocks.
Waiting ==
    /\ rloop = "fetch"
    /\ rposition = Len(results)
    /\ Len(results) = MaxResults
    /\ \A g \in Goroutines : gstate[g] = "free"
    /\ UNCHANGED vars

Next ==
    \/ \E id \in Ids : InsertRow(id)
    \/ \E e \in Event \cup {Malformed} : PublishResult(e)
    \/ ResultNext
    \/ Waiting

\* Runnable goroutines run, calls that were started end, and a TTL passes.
ResultFairness ==
    /\ WF_vars(ConsumerStep)
    /\ \A g \in Goroutines : WF_vars(UpdateStep(g))
    /\ \A r \in Readers : WF_vars(ReadStep(r))
    /\ \A u \in Users : WF_vars(Expire(u))

Spec == Init /\ [][Next]_vars /\ ResultFairness
-----------------------------------------------------------------------------
(* Properties *)

\* Every variable has its type, and offsets lie inside the topic.
TypeOK ==
    /\ results \in Seq(Event \cup {Malformed})
    /\ rows \in [Ids -> Status]
    /\ rcommitted \in 0 .. Len(results)
    /\ rposition \in 0 .. Len(results)
    /\ rloop \in {"down", "fetch", "process", "commit"}
    /\ rmsg \in Nat
    /\ rloop \in {"process", "commit"} => rmsg < Len(results)
    /\ rloop = "process" => results[rmsg + 1] # Malformed
    /\ gstate \in [Goroutines -> {"free", "update", "invalidate"}]
    /\ gevent \in [Goroutines -> Event]
    /\ cache \in [Users -> Histories \cup {Miss}]
    /\ rdstate \in [Readers -> {"idle", "query", "fill"}]
    /\ rduser \in [Readers -> Users]
    /\ rdhistory \in [Readers -> Histories]
    /\ FaultsType

\* Some result event gives the submission this verdict.
Announced(id, v) == \E i \in DOMAIN results : results[i] = [id |-> id, status |-> v]

(* A verdict that the table, the cache or a running call holds was         *)
(* announced by a result event of that very submission: no interleaving of *)
(* updates, fills and expiries gives a submission another one's verdict.   *)
VerdictAnnounced ==
    \A id \in Ids, v \in Verdicts :
       (\/ rows[id] = v
        \/ \E u \in Users : cache[u] # Miss /\ cache[u][id] = v
        \/ \E r \in Readers : rdhistory[r][id] = v) => Announced(id, v)

(* The cache and the running calls may lag behind the table, but are never *)
(* ahead of it: a history lists only rows that exist, and shows a verdict  *)
(* only for a row that has one (store.go: fill after the query).           *)
Behind(history) ==
    \A id \in Ids :
       /\ history[id] # "none" => rows[id] # "none"
       /\ history[id] \in Verdicts => rows[id] \in Verdicts

CacheNeverAhead ==
    /\ \A u \in Users : cache[u] # Miss => Behind(cache[u])
    /\ \A r \in Readers : Behind(rdhistory[r])

\* The event at offset o is still going to be applied.
Applying(o) ==
    \/ rloop = "process" /\ rmsg = o
    \/ \E g \in Goroutines : gstate[g] = "update" /\ gevent[g] = results[o + 1]

(* As long as the process is not killed and no UPDATE fails, every result  *)
(* event that was read has reached its row or is on its way there: commits *)
(* that fail, rebalances and Redis errors lose nothing.                    *)
NoResultDropped ==
    Failed("result_crash") = 0 /\ Failed("db_error") = 0 =>
       \A o \in 0 .. (rposition - 1) :
          results[o + 1] # Malformed =>
             \/ rows[results[o + 1].id] \in Verdicts
             \/ Applying(o)

\* What a hit shows of the rows it lists is what the table holds.
Fresh(u) ==
    cache[u] # Miss =>
       \A id \in Ids : cache[u][id] # "none" => cache[u][id] = rows[id]

(* Whatever went wrong with the cache or with a read, staleness ends: once *)
(* no more submissions, results and faults come, a history that is served  *)
(* from the cache, an old one or one that was cut short, is eventually the *)
(* one of the table, at the latest by its TTL.                             *)
CacheEventuallyFresh == <>[](\A u \in Users : cache[u] \in {Miss, History(u)})

(* After an update the cache holds no older status of the row: store.go    *)
(* logs that the history was invalidated.                                  *)
CacheFreshWhenQuiet ==
    (\A g \in Goroutines : gstate[g] = "free") => \A u \in Users : Fresh(u)

=============================================================================
