------------------------ MODULE ResultService_proofs ------------------------
(***************************************************************************)
(* Safety of result_service for any number of users, submissions, update   *)
(* goroutines and running calls, any topic and any faults.  Two facts      *)
(* carry the proofs: a row never goes back (from a verdict to none, from   *)
(* there to not there), and an event once read is, at every later moment,  *)
(* applied or in the hands of the loop or of a goroutine, wherever the     *)
(* consumer's two offsets are moved by commits and rebalances.             *)
(***************************************************************************)
EXTENDS ResultService, TLAPS, SequenceTheorems

\* What the loop, the goroutines and the callers hold comes from the topic.
FromTopic ==
    /\ \A g \in Goroutines : gstate[g] # "free" =>
          \E i \in DOMAIN results : results[i] = gevent[g]
    /\ \A i \in DOMAIN results : results[i] # Malformed =>
          rows[results[i].id] # "none"

Applied(o) == results[o + 1] # Malformed => rows[results[o + 1].id] \in Verdicts
Handled(o) == Applied(o) \/ Applying(o)

\* Every event before offset n was read and is not lost.
HandledBelow(n) == \A o \in 0 .. (n - 1) : Handled(o)

\* Wherever the consumer may resume from, it skips nothing.
NothingSkipped ==
    Failed("result_crash") = 0 /\ Failed("db_error") = 0 =>
        /\ HandledBelow(rposition)
        /\ HandledBelow(rcommitted)
        /\ rloop = "process" => HandledBelow(rmsg)
        /\ rloop = "commit" => HandledBelow(rmsg + 1)

Inv == TypeOK /\ FromTopic /\ VerdictAnnounced /\ CacheNeverAhead /\ NothingSkipped
-----------------------------------------------------------------------------
(* Constants, faults and the topic *)

LEMMA Chosen ==
    AnyEvent \in Event /\ AnyUser \in Users /\ NoHistory \in Histories
  <1>1. Event # {}
    <2>1. PICK id \in Ids, v \in Verdicts : TRUE
      BY ResultConstants
    <2>2. [id |-> id, status |-> v] \in Event
      BY <2>1 DEF Event
    <2> QED BY <2>2
  <1>2. Users # {}
    BY ResultConstants
  <1>3. AnyEvent \in Event
    BY <1>1 DEF AnyEvent
  <1>4. AnyUser \in Users
    BY <1>2 DEF AnyUser
  <1> QED BY <1>3, <1>4 DEF NoHistory, Histories, Status

LEMMA FaultStep ==
  ASSUME FaultsType, NEW kind, Fails(kind)
  PROVE  /\ FaultsType'
         /\ Failed(kind)' > 0
         /\ \A k \in {"result_crash", "db_error"} : Failed(k)' = 0 => Failed(k) = 0
  BY FaultBudget DEF FaultsType, Fails, Failed

LEMMA NoFault ==
  ASSUME FaultsType, UNCHANGED faults
  PROVE  /\ FaultsType'
         /\ \A k \in {"result_crash", "db_error"} : Failed(k)' = Failed(k)
  BY DEF FaultsType, Failed

\* The topic only grows.
LEMMA TopicGrows ==
  ASSUME TypeOK, [Next]_vars
  PROVE  /\ results' \in Seq(Event \cup {Malformed})
         /\ Len(results) \in Nat /\ Len(results') \in Nat /\ Len(results) <= Len(results')
         /\ \A i \in DOMAIN results : i \in DOMAIN results' /\ results'[i] = results[i]
  <1>1. results \in Seq(Event \cup {Malformed})
    BY DEF TypeOK
  <1>2. CASE \E e \in Event \cup {Malformed} : PublishResult(e)
    BY <1>1, <1>2 DEF PublishResult
  <1>3. CASE UNCHANGED results
    BY <1>1, <1>3
  <1> QED BY <1>2, <1>3
     DEF Next, ResultNext, ConsumerStep, UpdateStep, ReadStep, vars,
         resultVars, consumerVars, updateVars, readerVars, Start, Fetch,
         CommitMessages, ProcessResult, CommitFailed, Rebalance, Crash,
         UpdateRow, Invalidate, UpdateFailed, InvalidateFailed, Query, Fill,
         QueryFailed, QueryCut, FillFailed, ReadHit, ReadMiss, ReadCacheError, Expire,
         InsertRow, Waiting

\* A row never goes back.
LEMMA RowsAdvance ==
  ASSUME TypeOK, [Next]_vars
  PROVE  /\ rows' \in [Ids -> Status]
         /\ \A id \in Ids : /\ rows[id] # "none" => rows'[id] # "none"
                            /\ rows[id] \in Verdicts => rows'[id] \in Verdicts
  <1>1. rows \in [Ids -> Status] /\ "none" \notin Verdicts /\ "Pending" \notin Verdicts
    BY ResultConstants DEF TypeOK
  <1>2. CASE \E id \in Ids : InsertRow(id)
    BY <1>1, <1>2 DEF InsertRow, Status
  <1>3. CASE \E g \in Goroutines : UpdateRow(g) \/ UpdateFailed(g)
    <2>1. PICK g \in Goroutines : UpdateRow(g) \/ UpdateFailed(g)
      BY <1>3
    <2>2. gevent[g] \in Event
      BY DEF TypeOK
    <2>3. gevent[g].id \in Ids /\ gevent[g].status \in Verdicts
      BY <2>2 DEF Event
    <2>4. rows' \in {rows, [rows EXCEPT ![gevent[g].id] = gevent[g].status]}
      BY <1>1, <2>1, <2>3 DEF UpdateRow, UpdateFailed
    <2> QED BY <1>1, <2>3, <2>4 DEF Status
  <1>4. CASE UNCHANGED rows
    BY <1>1, <1>4
  <1> QED BY <1>2, <1>3, <1>4
     DEF Next, ResultNext, ConsumerStep, UpdateStep, ReadStep, vars,
         resultVars, consumerVars, updateVars, readerVars, Start, Fetch,
         CommitMessages, ProcessResult, CommitFailed, Rebalance, Crash,
         Invalidate, InvalidateFailed, Query, Fill, QueryFailed, QueryCut, FillFailed,
         ReadHit, ReadMiss, ReadCacheError, Expire, PublishResult, Waiting

\* A row, and what a SELECT shows of it.
LEMMA HistoryType ==
  ASSUME TypeOK, NEW u
  PROVE  /\ History(u) \in Histories
         /\ \A id \in Ids : History(u)[id] \in {"none", rows[id]}
  BY DEF History, Histories, Status, TypeOK

\* A cut read shows of each row what the SELECT shows, or nothing.
LEMMA CutRead ==
  ASSUME TypeOK, NEW r \in Readers, QueryCut(r)
  PROVE  /\ UNCHANGED <<cache, rduser, rows>>
         /\ rdstate' \in [Readers -> {"idle", "query", "fill"}]
         /\ \E h \in Histories :
               /\ rdhistory' = [rdhistory EXCEPT ![r] = h]
               /\ \A id \in Ids : h[id] \in {"none", rows[id]}
  <1>1. PICK arrived \in SUBSET Ids :
           rdhistory' = [rdhistory EXCEPT ![r] =
              [id \in Ids |-> IF id \in arrived THEN History(rduser[r])[id] ELSE "none"]]
    BY DEF QueryCut
  <1> DEFINE Cut == [id \in Ids |-> IF id \in arrived THEN History(rduser[r])[id] ELSE "none"]
  <1>2. Cut \in Histories
    BY HistoryType DEF Histories, Status
  <1>3. \A id \in Ids : Cut[id] \in {"none", rows[id]}
    BY HistoryType
  <1> HIDE DEF Cut
  <1> QED BY <1>1, <1>2, <1>3 DEF Cut, QueryCut, TypeOK
-----------------------------------------------------------------------------
LEMMA Initially == Init => Inv
  <1> SUFFICES ASSUME Init PROVE Inv
    OBVIOUS
  <1> USE DEF Init, ResultInit
  <1>1. FaultsType
    BY FaultBudget DEF FaultsInit, FaultsType
  <1>2. results = <<>> /\ results \in Seq(Event \cup {Malformed}) /\ Len(results) = 0
    OBVIOUS
  <1>3. TypeOK
    BY <1>1, <1>2, Chosen DEF TypeOK, Status
  <1>4. FromTopic
    BY <1>2 DEF FromTopic
  <1>5. VerdictAnnounced /\ CacheNeverAhead
    BY ResultConstants DEF VerdictAnnounced, CacheNeverAhead, Behind, NoHistory, Miss
  <1>6. NothingSkipped
    BY DEF NothingSkipped, HandledBelow
  <1> QED BY <1>3, <1>4, <1>5, <1>6 DEF Inv

LEMMA TypeStep == TypeOK /\ [Next]_vars => TypeOK'
  <1> SUFFICES ASSUME TypeOK, [Next]_vars PROVE TypeOK'
    OBVIOUS
  <1>1. FaultsType'
    BY FaultStep, NoFault
       DEF Next, ResultNext, ConsumerStep, UpdateStep, ReadStep, vars,
           resultVars, consumerVars, updateVars, readerVars, TypeOK, Start,
           Fetch, CommitMessages, ProcessResult, CommitFailed, Rebalance,
           Crash, UpdateRow, Invalidate, UpdateFailed, InvalidateFailed,
           Query, Fill, QueryFailed, QueryCut, FillFailed, ReadHit, ReadMiss,
           ReadCacheError, Expire, InsertRow, PublishResult, Waiting
  <1>2. results' \in Seq(Event \cup {Malformed}) /\ rows' \in [Ids -> Status]
    BY TopicGrows, RowsAdvance
  <1>3. /\ rcommitted' \in 0 .. Len(results')
        /\ rposition' \in 0 .. Len(results')
        /\ rloop' \in {"down", "fetch", "process", "commit"}
        /\ rmsg' \in Nat
        /\ rloop' \in {"process", "commit"} => rmsg' < Len(results')
        /\ rloop' = "process" => results'[rmsg' + 1] # Malformed
    <2>1. /\ Len(results) \in Nat /\ Len(results') \in Nat /\ Len(results) <= Len(results')
          /\ \A i \in 1 .. Len(results) : results'[i] = results[i]
      <3>1. DOMAIN results = 1 .. Len(results)
        BY DEF TypeOK
      <3> QED BY <3>1, TopicGrows
    <2>2. CASE UNCHANGED consumerVars
      BY <2>1, <2>2 DEF consumerVars, TypeOK
    <2>3. CASE Start \/ Crash \/ Rebalance
      BY <2>1, <2>3 DEF Start, Crash, Rebalance, TypeOK
    <2>4. CASE Fetch
      BY <2>1, <2>4 DEF Fetch, TypeOK
    <2>5. CASE \E g \in Goroutines : ProcessResult(g)
      BY <2>1, <2>5 DEF ProcessResult, TypeOK
    <2>6. CASE CommitMessages \/ CommitFailed
      BY <2>1, <2>6 DEF CommitMessages, CommitFailed, TypeOK
    <2> QED BY <2>2, <2>3, <2>4, <2>5, <2>6
           DEF Next, ResultNext, ConsumerStep, UpdateStep, ReadStep, vars,
               resultVars, UpdateRow, Invalidate, UpdateFailed,
               InvalidateFailed, Query, Fill, QueryFailed, QueryCut, FillFailed,
               ReadHit, ReadMiss, ReadCacheError, Expire, InsertRow,
               PublishResult, Waiting
  <1>4. gstate' \in [Goroutines -> {"free", "update", "invalidate"}] /\ gevent' \in [Goroutines -> Event]
    <2> USE Chosen DEF TypeOK
    <2>1. CASE UNCHANGED updateVars \/ Crash
      BY <2>1 DEF updateVars, Crash
    <2>2. CASE \E g \in Goroutines : ProcessResult(g)
      <3>1. PICK g \in Goroutines : ProcessResult(g)
        BY <2>2
      <3>2. rmsg + 1 \in 1 .. Len(results)
        BY <3>1 DEF ProcessResult
      <3>3. results[rmsg + 1] \in Event
        BY <3>1, <3>2, ElementOfSeq DEF ProcessResult
      <3> QED BY <3>1, <3>3 DEF ProcessResult
    <2>3. CASE \E g \in Goroutines : UpdateRow(g) \/ Invalidate(g) \/ UpdateFailed(g) \/ InvalidateFailed(g)
      BY <2>3 DEF UpdateRow, Invalidate, UpdateFailed, InvalidateFailed, Finish
    <2> QED BY <2>1, <2>2, <2>3
           DEF Next, ResultNext, ConsumerStep, UpdateStep, ReadStep, vars,
               resultVars, Start, Fetch, CommitMessages, CommitFailed,
               Rebalance, Query, Fill, QueryFailed, QueryCut, FillFailed, ReadHit,
               ReadMiss, ReadCacheError, Expire, InsertRow, PublishResult,
               Waiting
  <1>5. /\ cache' \in [Users -> Histories \cup {Miss}]
        /\ rdstate' \in [Readers -> {"idle", "query", "fill"}]
        /\ rduser' \in [Readers -> Users]
        /\ rdhistory' \in [Readers -> Histories]
    <2> USE Chosen, HistoryType DEF TypeOK
    <2>1. CASE UNCHANGED <<cache, readerVars>> \/ Crash
      BY <2>1 DEF readerVars, Crash
    <2>2. CASE \E g \in Goroutines : Invalidate(g)
      BY <2>2 DEF Invalidate, readerVars
    <2>3. CASE \E r \in Readers : Query(r)
      BY <2>3 DEF Query
    <2>4. CASE \E r \in Readers : QueryFailed(r) \/ FillFailed(r)
      BY <2>4 DEF QueryFailed, FillFailed, Return
    <2>5. CASE \E r \in Readers : Fill(r)
      BY <2>5 DEF Fill, Return
    <2>6. CASE \E r \in Readers, u \in Users : ReadMiss(r, u) \/ ReadCacheError(r, u)
      BY <2>6 DEF ReadMiss, ReadCacheError
    <2>7. CASE \E u \in Users : Expire(u)
      BY <2>7 DEF Expire, readerVars
    <2>8. CASE \E r \in Readers : QueryCut(r)
      BY <2>8, CutRead
    <2> QED BY <2>1, <2>2, <2>3, <2>4, <2>5, <2>6, <2>7, <2>8
           DEF Next, ResultNext, ConsumerStep, UpdateStep, ReadStep, vars,
               resultVars, Start, Fetch, CommitMessages, ProcessResult,
               CommitFailed, Rebalance, UpdateRow, UpdateFailed,
               InvalidateFailed, ReadHit, InsertRow, PublishResult, Waiting
  <1> QED BY <1>1, <1>2, <1>3, <1>4, <1>5 DEF TypeOK
-----------------------------------------------------------------------------
LEMMA FromTopicStep == TypeOK /\ FromTopic /\ [Next]_vars => FromTopic'
  <1> SUFFICES ASSUME TypeOK, FromTopic, [Next]_vars PROVE FromTopic'
    OBVIOUS
  <1>1. \A g \in Goroutines : gstate'[g] # "free" =>
            \E i \in DOMAIN results : results[i] = gevent'[g]
    <2>1. CASE UNCHANGED updateVars \/ Crash
      BY <2>1 DEF updateVars, Crash, FromTopic
    <2>2. CASE \E g \in Goroutines : ProcessResult(g)
      <3>1. PICK g \in Goroutines : ProcessResult(g)
        BY <2>2
      <3>2. rmsg + 1 \in DOMAIN results
        BY <3>1 DEF ProcessResult, TypeOK
      <3>3. \A h \in Goroutines : /\ gstate'[h] = IF h = g THEN "update" ELSE gstate[h]
                                  /\ gevent'[h] = IF h = g THEN results[rmsg + 1] ELSE gevent[h]
        BY <3>1 DEF ProcessResult, TypeOK
      <3> QED BY <3>2, <3>3 DEF FromTopic
    <2>3. CASE \E g \in Goroutines : UpdateRow(g) \/ Invalidate(g) \/ UpdateFailed(g) \/ InvalidateFailed(g)
      BY <2>3 DEF UpdateRow, Invalidate, UpdateFailed, InvalidateFailed, Finish, FromTopic, TypeOK
    <2> QED BY <2>1, <2>2, <2>3
           DEF Next, ResultNext, ConsumerStep, UpdateStep, ReadStep, vars,
               resultVars, Start, Fetch, CommitMessages, CommitFailed,
               Rebalance, Query, Fill, QueryFailed, QueryCut, FillFailed, ReadHit,
               ReadMiss, ReadCacheError, Expire, InsertRow, PublishResult,
               Waiting
  <1>2. \A i \in DOMAIN results' : results'[i] # Malformed => rows'[results'[i].id] # "none"
    <2>1. ASSUME NEW i \in DOMAIN results, results[i] # Malformed
          PROVE  rows'[results[i].id] # "none"
      <3>1. results[i] \in Event
        BY <2>1, ElementOfSeq DEF TypeOK
      <3>2. results[i].id \in Ids
        BY <3>1 DEF Event
      <3> QED BY <2>1, <3>2, RowsAdvance DEF FromTopic
    <2>2. CASE \E e \in Event \cup {Malformed} : PublishResult(e)
      <3>1. PICK e \in Event \cup {Malformed} : PublishResult(e)
        BY <2>2
      <3>2. /\ results' = Append(results, e) /\ rows' = rows
            /\ e # Malformed => rows[e.id] # "none"
        BY <3>1 DEF PublishResult
      <3>3. ASSUME NEW i \in DOMAIN results' PROVE results'[i] = e \/ (i \in DOMAIN results /\ results'[i] = results[i])
        BY <3>2 DEF TypeOK
      <3> QED BY <2>1, <3>2, <3>3
    <2>3. CASE UNCHANGED results
      BY <2>1, <2>3
    <2> QED BY <2>2, <2>3
           DEF Next, ResultNext, ConsumerStep, UpdateStep, ReadStep, vars,
               resultVars, consumerVars, updateVars, readerVars, Start, Fetch,
               CommitMessages, ProcessResult, CommitFailed, Rebalance, Crash,
               UpdateRow, Invalidate, UpdateFailed, InvalidateFailed, Query,
               Fill, QueryFailed, QueryCut, FillFailed, ReadHit, ReadMiss,
               ReadCacheError, Expire, InsertRow, Waiting
  <1> QED BY <1>1, <1>2, TopicGrows DEF FromTopic
-----------------------------------------------------------------------------
LEMMA AnnouncedStep ==
    TypeOK /\ FromTopic /\ VerdictAnnounced /\ [Next]_vars => VerdictAnnounced'
  <1> SUFFICES ASSUME TypeOK, FromTopic, VerdictAnnounced, [Next]_vars
               PROVE  VerdictAnnounced'
    OBVIOUS
  <1>4. ASSUME NEW id, NEW v, Announced(id, v)
        PROVE  Announced(id, v)'
    BY <1>4, TopicGrows DEF Announced
  <1> SUFFICES ASSUME NEW id \in Ids, NEW v \in Verdicts
               PROVE  /\ rows'[id] = v => Announced(id, v)
                      /\ \A u \in Users : cache'[u] # Miss /\ cache'[u][id] = v => Announced(id, v)
                      /\ \A r \in Readers : rdhistory'[r][id] = v => Announced(id, v)
    BY <1>4 DEF VerdictAnnounced
  <1>1. "none" # v /\ "Pending" # v
    BY ResultConstants
  <1>2. rows'[id] = v => Announced(id, v)
    <2>1. CASE \E i \in Ids : InsertRow(i)
      BY <1>1, <2>1 DEF InsertRow, TypeOK, VerdictAnnounced
    <2>2. CASE \E g \in Goroutines : UpdateRow(g) \/ UpdateFailed(g)
      <3>1. PICK g \in Goroutines : UpdateRow(g) \/ UpdateFailed(g)
        BY <2>2
      <3>2. gevent[g] \in Event
        BY DEF TypeOK
      <3>3. gevent[g].id \in Ids /\ gevent[g] = [id |-> gevent[g].id, status |-> gevent[g].status]
        BY <3>2 DEF Event
      <3>4. rows' \in {rows, [rows EXCEPT ![gevent[g].id] = gevent[g].status]}
        BY <3>1, <3>3 DEF UpdateRow, UpdateFailed, TypeOK
      <3>5. rows'[id] = rows[id] \/ (id = gevent[g].id /\ rows'[id] = gevent[g].status)
        BY <3>3, <3>4 DEF TypeOK
      <3>6. gstate[g] # "free"
        BY <3>1 DEF UpdateRow, UpdateFailed
      <3> QED BY <3>3, <3>5, <3>6 DEF VerdictAnnounced, FromTopic, Announced
    <2>3. CASE UNCHANGED rows
      BY <2>3 DEF VerdictAnnounced
    <2> QED BY <2>1, <2>2, <2>3
           DEF Next, ResultNext, ConsumerStep, UpdateStep, ReadStep, vars,
               resultVars, consumerVars, updateVars, readerVars, Start, Fetch,
               CommitMessages, ProcessResult, CommitFailed, Rebalance, Crash,
               Invalidate, InvalidateFailed, Query, Fill, QueryFailed, QueryCut,
               FillFailed, ReadHit, ReadMiss, ReadCacheError, Expire,
               PublishResult, Waiting
  <1>3. /\ \A u \in Users : cache'[u] # Miss /\ cache'[u][id] = v => Announced(id, v)
        /\ \A r \in Readers : rdhistory'[r][id] = v => Announced(id, v)
    <2> USE DEF TypeOK, VerdictAnnounced
    <2>1. CASE UNCHANGED <<cache, readerVars>>
      BY <2>1 DEF readerVars
    <2>2. CASE \E g \in Goroutines : Invalidate(g)
      BY <2>2 DEF Invalidate, readerVars
    <2>3. CASE \E r \in Readers : Query(r)
      BY <1>1, <2>3, HistoryType DEF Query
    <2>4. CASE \E r \in Readers : QueryFailed(r) \/ FillFailed(r)
      BY <1>1, <2>4 DEF QueryFailed, FillFailed, Return, NoHistory
    <2>5. CASE \E r \in Readers : Fill(r)
      BY <1>1, <2>5 DEF Fill, Return, NoHistory
    <2>6. CASE \E r \in Readers, u \in Users : ReadMiss(r, u) \/ ReadCacheError(r, u)
      BY <2>6 DEF ReadMiss, ReadCacheError
    <2>7. CASE \E u \in Users : Expire(u)
      BY <2>7 DEF Expire, readerVars
    <2>8. CASE Crash
      BY <1>1, <2>8 DEF Crash, NoHistory
    <2>9. CASE \E r \in Readers : QueryCut(r)
      <3>1. PICK r \in Readers : QueryCut(r)
        BY <2>9
      <3>2. PICK h \in Histories : /\ rdhistory' = [rdhistory EXCEPT ![r] = h]
                                  /\ \A i \in Ids : h[i] \in {"none", rows[i]}
        BY <3>1, CutRead
      <3>3. h[id] = v => Announced(id, v)
        BY <1>1, <3>2
      <3> QED BY <3>1, <3>2, <3>3, CutRead
    <2> QED BY <2>1, <2>2, <2>3, <2>4, <2>5, <2>6, <2>7, <2>8, <2>9
           DEF Next, ResultNext, ConsumerStep, UpdateStep, ReadStep, vars,
               resultVars, Start, Fetch, CommitMessages, ProcessResult,
               CommitFailed, Rebalance, UpdateRow, UpdateFailed,
               InvalidateFailed, ReadHit, InsertRow, PublishResult, Waiting
  <1> QED BY <1>2, <1>3

LEMMA NeverAheadStep == TypeOK /\ CacheNeverAhead /\ [Next]_vars => CacheNeverAhead'
  <1> SUFFICES ASSUME TypeOK, CacheNeverAhead, [Next]_vars PROVE CacheNeverAhead'
    OBVIOUS
  <1>2. Behind(NoHistory)
    BY ResultConstants DEF Behind, NoHistory
  <1>3. \A u : Behind(History(u))
    BY HistoryType, ResultConstants DEF Behind
  <1>4. /\ \A u \in Users : cache'[u] # Miss => Behind(cache'[u])
        /\ \A r \in Readers : Behind(rdhistory'[r])
    <2> USE DEF TypeOK, CacheNeverAhead
    <2>1. CASE UNCHANGED <<cache, readerVars>>
      BY <2>1 DEF readerVars
    <2>2. CASE \E g \in Goroutines : Invalidate(g)
      BY <2>2 DEF Invalidate, readerVars
    <2>3. CASE \E r \in Readers : Query(r)
      BY <1>3, <2>3 DEF Query
    <2>4. CASE \E r \in Readers : QueryFailed(r) \/ FillFailed(r)
      BY <1>2, <2>4 DEF QueryFailed, FillFailed, Return
    <2>5. CASE \E r \in Readers : Fill(r)
      BY <1>2, <2>5 DEF Fill, Return
    <2>6. CASE \E r \in Readers, u \in Users : ReadMiss(r, u) \/ ReadCacheError(r, u)
      BY <2>6 DEF ReadMiss, ReadCacheError
    <2>7. CASE \E u \in Users : Expire(u)
      BY <2>7 DEF Expire, readerVars
    <2>8. CASE Crash
      BY <1>2, <2>8 DEF Crash
    <2>9. CASE \E r \in Readers : QueryCut(r)
      <3>1. PICK r \in Readers : QueryCut(r)
        BY <2>9
      <3>2. PICK h \in Histories : /\ rdhistory' = [rdhistory EXCEPT ![r] = h]
                                  /\ \A i \in Ids : h[i] \in {"none", rows[i]}
        BY <3>1, CutRead
      <3>3. Behind(h)
        BY <3>2, ResultConstants DEF Behind
      <3> QED BY <3>1, <3>2, <3>3, CutRead
    <2> QED BY <2>1, <2>2, <2>3, <2>4, <2>5, <2>6, <2>7, <2>8, <2>9
           DEF Next, ResultNext, ConsumerStep, UpdateStep, ReadStep, vars,
               resultVars, Start, Fetch, CommitMessages, ProcessResult,
               CommitFailed, Rebalance, UpdateRow, UpdateFailed,
               InvalidateFailed, ReadHit, InsertRow, PublishResult, Waiting
  <1>5. ASSUME NEW h, Behind(h), NEW id \in Ids
        PROVE  /\ h[id] # "none" => rows'[id] # "none"
               /\ h[id] \in Verdicts => rows'[id] \in Verdicts
    BY <1>5, RowsAdvance DEF Behind
  <1> QED BY <1>4, <1>5 DEF CacheNeverAhead, Behind
-----------------------------------------------------------------------------
\* What was handled stays handled while no process is killed and no UPDATE fails.
LEMMA HandledStays ==
  ASSUME TypeOK, FromTopic, [Next]_vars, ~ Crash, \A g \in Goroutines : ~ UpdateFailed(g),
         NEW o \in 0 .. (Len(results) - 1), Handled(o)
  PROVE  Handled(o)'
  <1>1. o + 1 \in DOMAIN results /\ results'[o + 1] = results[o + 1]
    BY TopicGrows DEF TypeOK
  <1>2. CASE results[o + 1] = Malformed
    BY <1>1, <1>2 DEF Handled, Applied
  <1>3. CASE results[o + 1] # Malformed /\ rows[results[o + 1].id] \in Verdicts
    <2>1. results[o + 1] \in Event
      BY <1>1, <1>3, ElementOfSeq DEF TypeOK
    <2>2. results[o + 1].id \in Ids
      BY <2>1 DEF Event
    <2>3. rows'[results[o + 1].id] \in Verdicts
      BY <1>3, <2>2, RowsAdvance
    <2> QED BY <1>1, <2>3 DEF Handled, Applied
  <1>4. CASE rloop = "process" /\ rmsg = o
    <2>1. CASE \E g \in Goroutines : ProcessResult(g)
      BY <1>1, <1>4, <2>1 DEF ProcessResult, TypeOK, Handled, Applying
    <2>2. CASE ~ \E g \in Goroutines : ProcessResult(g)
      <3>1. rloop' = "process" /\ rmsg' = o
        BY <1>4, <2>2
           DEF Next, ResultNext, ConsumerStep, UpdateStep, ReadStep, vars,
               resultVars, consumerVars, updateVars, readerVars, Start, Fetch,
               CommitMessages, CommitFailed, Rebalance, UpdateRow, Invalidate,
               InvalidateFailed, Query, Fill, QueryFailed, QueryCut, FillFailed,
               ReadHit, ReadMiss, ReadCacheError, Expire, InsertRow,
               PublishResult, Waiting
      <3> QED BY <3>1 DEF Handled, Applying
    <2> QED BY <2>1, <2>2
  <1>5. ASSUME NEW g \in Goroutines, gstate[g] = "update", gevent[g] = results[o + 1],
               results[o + 1] # Malformed
        PROVE  Handled(o)'
    <2>1. CASE UpdateRow(g)
      <3>1. gevent[g] \in Event
        BY DEF TypeOK
      <3>2. gevent[g].id \in Ids /\ gevent[g].status \in Verdicts
        BY <3>1 DEF Event
      <3>3. rows[gevent[g].id] # "none"
        BY <1>1, <1>5 DEF FromTopic
      <3>4. rows'[gevent[g].id] = gevent[g].status
        BY <2>1, <3>2, <3>3 DEF UpdateRow, TypeOK
      <3> QED BY <1>1, <1>5, <3>2, <3>4 DEF Handled, Applied
    <2>2. CASE ~ UpdateRow(g)
      <3>1. gstate'[g] = "update" /\ gevent'[g] = gevent[g]
        <4>1. CASE UNCHANGED updateVars
          BY <1>5, <4>1 DEF updateVars
        <4>2. CASE \E h \in Goroutines : ProcessResult(h)
          BY <1>5, <4>2 DEF ProcessResult, TypeOK
        <4>3. CASE \E h \in Goroutines : UpdateRow(h) \/ Invalidate(h) \/ InvalidateFailed(h)
          BY <1>5, <2>2, <4>3 DEF UpdateRow, Invalidate, InvalidateFailed, Finish, TypeOK
        <4> QED BY <4>1, <4>2, <4>3
               DEF Next, ResultNext, ConsumerStep, UpdateStep, ReadStep, vars,
                   resultVars, Start, Fetch, CommitMessages, CommitFailed,
                   Rebalance, Query, Fill, QueryFailed, QueryCut, FillFailed, ReadHit,
                   ReadMiss, ReadCacheError, Expire, InsertRow, PublishResult,
                   Waiting
      <3> QED BY <1>1, <1>5, <3>1 DEF Handled, Applying
    <2> QED BY <2>1, <2>2
  <1> QED BY <1>2, <1>3, <1>4, <1>5 DEF Handled, Applied, Applying

LEMMA NothingSkippedStep == Inv /\ [Next]_vars => NothingSkipped'
  <1> SUFFICES ASSUME Inv, [Next]_vars, Failed("result_crash")' = 0, Failed("db_error")' = 0
               PROVE  /\ HandledBelow(rposition)'
                      /\ HandledBelow(rcommitted)'
                      /\ rloop' = "process" => HandledBelow(rmsg)'
                      /\ rloop' = "commit" => HandledBelow(rmsg + 1)'
    BY DEF NothingSkipped
  <1>1. TypeOK /\ FromTopic
    BY DEF Inv
  <1>2. Failed("result_crash") = 0 /\ Failed("db_error") = 0
    BY <1>1, FaultStep, NoFault
       DEF Next, ResultNext, ConsumerStep, UpdateStep, ReadStep, vars,
           resultVars, consumerVars, updateVars, readerVars, TypeOK, Start,
           Fetch, CommitMessages, ProcessResult, CommitFailed, Rebalance,
           Crash, UpdateRow, Invalidate, UpdateFailed, InvalidateFailed,
           Query, Fill, QueryFailed, QueryCut, FillFailed, ReadHit, ReadMiss,
           ReadCacheError, Expire, InsertRow, PublishResult, Waiting
  <1>3. ~ Crash /\ \A g \in Goroutines : ~ UpdateFailed(g)
    BY <1>1, FaultStep DEF Crash, UpdateFailed, TypeOK
  <1>4. /\ HandledBelow(rposition) /\ HandledBelow(rcommitted)
        /\ rloop = "process" => HandledBelow(rmsg)
        /\ rloop = "commit" => HandledBelow(rmsg + 1)
    BY <1>2 DEF Inv, NothingSkipped
  <1>5. /\ Len(results) \in Nat
        /\ rposition \in 0 .. Len(results) /\ rcommitted \in 0 .. Len(results) /\ rmsg \in Nat
        /\ rloop \in {"process", "commit"} => rmsg < Len(results)
    BY <1>1 DEF TypeOK
  <1>6. ASSUME NEW n \in 0 .. Len(results), HandledBelow(n)
        PROVE  \A o \in 0 .. (n - 1) : Handled(o)'
    <2>1. \A o \in 0 .. (n - 1) : o \in 0 .. (Len(results) - 1) /\ Handled(o)
      BY <1>5, <1>6 DEF HandledBelow
    <2> QED BY <1>1, <1>3, <2>1, HandledStays
  <1>7. /\ \A o \in 0 .. (rposition - 1) : Handled(o)'
        /\ \A o \in 0 .. (rcommitted - 1) : Handled(o)'
        /\ rloop = "process" => \A o \in 0 .. (rmsg - 1) : Handled(o)'
        /\ rloop = "commit" => \A o \in 0 .. ((rmsg + 1) - 1) : Handled(o)'
    BY <1>4, <1>5, <1>6
  <1>8. CASE UNCHANGED consumerVars
    BY <1>7, <1>8 DEF consumerVars, HandledBelow
  <1>9. CASE Start \/ Rebalance
    BY <1>7, <1>9 DEF Start, Rebalance, HandledBelow
  <1>10. CASE Fetch
    <2>1. /\ rmsg' = rposition /\ rposition' = rposition + 1 /\ rcommitted' = rcommitted
          /\ rloop' \in {"process", "commit"}
      BY <1>10 DEF Fetch
    <2>2. ASSUME NEW o, o = rposition PROVE Handled(o)'
      <3>1. CASE results[o + 1] = Malformed
        BY <1>10, <2>2, <3>1 DEF Fetch, Handled, Applied
      <3>2. CASE results[o + 1] # Malformed
        BY <1>10, <2>2, <3>2 DEF Fetch, Handled, Applying
      <3> QED BY <3>1, <3>2
    <2>3. \A o \in 0 .. rposition : o \in 0 .. (rposition - 1) \/ o = rposition
      BY <1>5
    <2>4. \A o \in 0 .. ((rposition + 1) - 1) : Handled(o)'
      BY <1>5, <1>7, <2>2, <2>3
    <2> QED BY <1>7, <2>1, <2>4 DEF HandledBelow
  <1>11. CASE \E g \in Goroutines : ProcessResult(g)
    <2>1. /\ rloop = "process" /\ rloop' = "commit" /\ UNCHANGED <<rmsg, rposition, rcommitted, results>>
          /\ \E g \in Goroutines : gstate'[g] = "update" /\ gevent'[g] = results[rmsg + 1]
      BY <1>1, <1>11 DEF ProcessResult, TypeOK
    <2>2. ASSUME NEW o, o = rmsg PROVE Handled(o)'
      BY <2>1, <2>2 DEF Handled, Applying
    <2>3. \A o \in 0 .. ((rmsg + 1) - 1) : o \in 0 .. (rmsg - 1) \/ o = rmsg
      BY <1>5
    <2> QED BY <1>7, <2>1, <2>2, <2>3 DEF HandledBelow
  <1>12. CASE CommitMessages
    <2>1. rloop = "commit" /\ rloop' = "fetch" /\ rcommitted' = rmsg + 1 /\ rposition' = rposition
      BY <1>12 DEF CommitMessages
    <2> QED BY <1>7, <2>1 DEF HandledBelow
  <1>13. CASE CommitFailed
    BY <1>7, <1>13 DEF CommitFailed, HandledBelow
  <1> QED BY <1>3, <1>8, <1>9, <1>10, <1>11, <1>12, <1>13
         DEF Next, ResultNext, ConsumerStep, UpdateStep, ReadStep, vars,
             resultVars, UpdateRow, Invalidate, InvalidateFailed, Query, Fill,
             QueryFailed, QueryCut, FillFailed, ReadHit, ReadMiss, ReadCacheError,
             Expire, InsertRow, PublishResult, Waiting

THEOREM Invariance == Spec => []Inv
  <1>1. Inv /\ [Next]_vars => Inv'
    BY TypeStep, FromTopicStep, AnnouncedStep, NeverAheadStep, NothingSkippedStep DEF Inv
  <1> QED BY Initially, <1>1, PTL DEF Spec

(* Every variable has its type, and the consumer's offsets lie inside the  *)
(* topic, however often it starts over and whatever commits fail.          *)
THEOREM TypeCorrect == Spec => []TypeOK
  <1>1. Inv => TypeOK
    BY DEF Inv
  <1> QED BY Invariance, <1>1, PTL

(* For any number of goroutines and calls: no submission is ever shown a   *)
(* verdict that was not announced for it.                                  *)
THEOREM VerdictsAreAnnounced == Spec => []VerdictAnnounced
  <1>1. Inv => VerdictAnnounced
    BY DEF Inv
  <1> QED BY Invariance, <1>1, PTL

(* For any number of goroutines and calls: a history, in the cache or on   *)
(* its way there, is never ahead of the table.                             *)
THEOREM CacheLags == Spec => []CacheNeverAhead
  <1>1. Inv => CacheNeverAhead
    BY DEF Inv
  <1> QED BY Invariance, <1>1, PTL

(* For a topic of any length: without a kill or a failed UPDATE every      *)
(* event that was read is applied or being applied.                        *)
THEOREM ResultsAreKept == Spec => []NoResultDropped
  <1>1. Inv => NoResultDropped
    BY DEF Inv, NothingSkipped, HandledBelow, Handled, Applied, NoResultDropped
  <1> QED BY Invariance, <1>1, PTL
=============================================================================
