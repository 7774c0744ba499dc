--------------------------------- MODULE Query ---------------------------------
(***************************************************************************)
(* The query endpoint (aggregator/handler/query.go and the queries of      *)
(* aggregator/store/store.go) on the hot store.                            *)
(*                                                                         *)
(* A client reads page after page of /raw, or a range and then the archive *)
(* files, or asks again and again for the latest batch, while batches are  *)
(* inserted and archivers run.  A query is one statement, but a page is    *)
(* two: a COUNT and a SELECT with an OFFSET, and each may find another     *)
(* table.                                                                  *)
(***************************************************************************)
EXTENDS Integers, FiniteSets

CONSTANTS
  Agent,         \* agent ids
  Time,          \* captured_at, in seconds
  Row,           \* the batches that may be stored, as far as queries look
  Span,          \* the spans of time asked for, from and to
  MaxPage,       \* bound of the model: pages asked for go to this number
  PageLimit,     \* the limit of a page when none that is valid is asked for (50)
  MaxPageLimit,  \* the largest limit of a page (200)
  RangeLimit,    \* the limit of a range or archive query (500)
  MaxInt,        \* the largest int
  MaxEntries, MaxRows  \* see HotStore

ASSUME TimeAssumption ==
  /\ Time \subseteq Nat
  /\ Row \subseteq [agent : Agent, captured : Time]
  /\ Span \subseteq Time \X Time
ASSUME LimitAssumption ==
  /\ MaxPageLimit \in Nat \ {0} /\ PageLimit \in 1 .. MaxPageLimit
  /\ RangeLimit \in Nat \ {0}

\* A client may ask for any number of pages.
ASSUME PageAssumption == MaxPage \in Nat

\* As in HotStore.
ASSUME EntriesAssumption == MaxEntries \in Nat \ {0}

\* No table has more rows than an int can count.
ASSUME IntAssumption == MaxInt \in Nat /\ MaxRows \in Nat /\ MaxRows <= MaxInt

VARIABLES
  lastId, rows, hot, archives, archiver, raced,  \* see HotStore
  pc,      \* what the client is doing
  ask,     \* the agent and the span of time it looks at, the page it asked for
  total,   \* the COUNT of that page
  base,    \* history: the rows that matched when its first query was answered
  got,     \* history: the rows it has been shown; when polling, the last one
  todo,    \* the archive files it has not read yet
  events   \* history: what went on meanwhile

Store == INSTANCE HotStore WITH
  MaxEntries <- MaxEntries, MaxRows <- MaxRows, Row <- Row,
  lastId <- lastId, rows <- rows, hot <- hot, archives <- archives,
  archiver <- archiver, raced <- raced

storeVars == <<lastId, rows, hot, archives, archiver, raced>>
clientVars == <<pc, ask, total, base, got, todo, events>>
vars == <<storeVars, clientVars>>

Ask == [agent : Agent, span : Span, page : 0 .. MaxPage, limit : 1 .. MaxPageLimit]

\* "inserted", "cleared": a matching row came, all rows went, since the first
\* query was answered; "between": one came between the last page's COUNT and
\* its SELECT; "short": the last answer held less than its limit; "repeated":
\* a page showed a row again.
Event == {"inserted", "cleared", "between", "short", "repeated"}

Init ==
  /\ Store!Init
  /\ pc = "idle"
  /\ ask \in [agent : Agent, span : Span, page : {0}, limit : {1}]
  /\ total = 0
  /\ base = {} /\ got = {} /\ todo = {}
  /\ events = {}
------------------------------------------------------------------------------
(* Faulty variants, one plausible bug each.                                *)

\* The order of arrival.
NewerById(i, j) == i > j

\* Pages counted from one.
OffsetFromOne(page, limit) == IF page = 0 THEN 0 ELSE (page - 1) * limit

\* The offset counted in the largest pages.
OffsetInLargest(page, limit) == page * MaxPageLimit

\* A limit of zero is let through.
ClampLimitZero(limit) == IF limit \in 0 .. MaxPageLimit THEN limit ELSE PageLimit
------------------------------------------------------------------------------
(* The queries, over the ids S of a table.                                  *)

\* WHERE agent_id = ? AND captured_at BETWEEN ? AND ?
Matching(S) ==
  {id \in S : /\ rows[id].agent = ask.agent
              /\ ask.span[1] <= rows[id].captured /\ rows[id].captured <= ask.span[2]}

\* ORDER BY captured_at DESC reads idx_batches_agent_time from its end: equal
\* times come in the order of their ids, the largest first.
Newer(i, j) ==
  rows[i].captured > rows[j].captured \/ (rows[i].captured = rows[j].captured /\ i > j)

\* LIMIT limit OFFSET offset
Slice(S, offset, limit) ==
  {id \in S : LET rank == Cardinality({j \in S : Newer(j, id)})
              IN offset <= rank /\ rank < offset + limit}

\* page*limit in an int; SQLite takes a negative OFFSET for zero.
Offset(page, limit) ==
  LET n == (page * limit) % (2 * MaxInt + 2) IN IF n <= MaxInt THEN n ELSE 0

\* A limit that is no number or out of range is the default.
ClampLimit(limit) == IF limit \in 1 .. MaxPageLimit THEN limit ELSE PageLimit

\* Faulty: the total of the page instead of that of the range.
CountAtMostLimit(limit) ==
  LET found == Cardinality(Matching(hot))
  IN total' = IF found > limit THEN limit ELSE found

\* The COUNT of QueryBatchesPaginated.
Count(limit) == total' = Cardinality(Matching(hot))

\* Faulty: the newest row is passed over.
NewestButOne(S) == Slice(Matching(S), 1, RangeLimit)

\* QueryBatches and QueryArchive: the newest RangeLimit batches.
Newest(S) == Slice(Matching(S), 0, RangeLimit)
------------------------------------------------------------------------------

(* serveRaw, up to the COUNT, for page 0.                                   *)
RawCount(limit) ==
  /\ pc = "idle"
  /\ pc' = "page"
  /\ ask' = [ask EXCEPT !.limit = limit]
  /\ Count(limit)
  /\ UNCHANGED <<storeVars, base, got, todo, events>>

(* The client goes on to the next page, unless the last one was short.      *)
RawCountNext ==
  /\ pc = "walk" /\ "short" \notin events
  /\ ask.page < MaxPage
  /\ pc' = "page"
  /\ ask' = [ask EXCEPT !.page = @ + 1]
  /\ Count(ask.limit)
  /\ events' = events \ {"between"}
  /\ UNCHANGED <<storeVars, base, got, todo>>

(* The SELECT, and the answer.                                              *)
RawPage ==
  LET found == Matching(hot)
      items == Slice(found, Offset(ask.page, ask.limit), ask.limit)
      first == ask.page = 0
  IN /\ pc = "page"
     /\ pc' = "walk"
     /\ base' = IF first THEN found ELSE base
     /\ got' = got \cup items
     /\ events' = (IF first THEN events \cap {"between"} ELSE events)
                    \cup (IF Cardinality(items) < ask.limit THEN {"short"} ELSE {})
                    \cup (IF items \cap got # {} THEN {"repeated"} ELSE {})
     /\ UNCHANGED <<storeVars, ask, total, todo>>

(* serveRange.                                                              *)
serveRange ==
  LET items == Newest(hot) IN
  /\ pc = "idle"
  /\ pc' = "range"
  /\ base' = Matching(1 .. lastId)
  /\ got' = items
  /\ events' = IF Cardinality(items) < RangeLimit THEN {"short"} ELSE {}
  /\ UNCHANGED <<storeVars, ask, total, todo>>

(* Afterwards the client looks which archive files there are.  The endpoint *)
(* has no listing of them: it looks into DataDir.                           *)
NoteArchives ==
  /\ pc = "range"
  /\ pc' = "survey"
  /\ todo' = DOMAIN archives
  /\ UNCHANGED <<storeVars, ask, total, base, got, events>>

(* serveArchive.                                                            *)
serveArchive(g) ==
  LET items == Newest(archives[g]) IN
  /\ pc = "survey"
  /\ g \in todo
  /\ todo' = todo \ {g}
  /\ got' = got \cup items
  /\ events' = IF Cardinality(items) < RangeLimit THEN events ELSE events \ {"short"}
  /\ UNCHANGED <<storeVars, pc, ask, total, base>>

(* serveLatest.  404 when the agent has no batch in the table.              *)
serveLatest ==
  /\ pc \in {"idle", "poll"}
  /\ pc' = "poll"
  /\ got' = Slice({id \in hot : rows[id].agent = ask.agent}, 0, 1)
  /\ UNCHANGED <<storeVars, ask, total, base, todo, events>>

ForgetAll ==
  /\ pc' = "idle"
  /\ base' = {} /\ got' = {} /\ todo' = {} /\ events' = {}
  /\ ask' = [ask EXCEPT !.page = 0, !.limit = 1]
  /\ total' = 0

(* A statement fails: 500, and the client gives up.  Or it has had enough.  *)
GiveUp ==
  /\ pc # "idle"
  /\ ForgetAll
  /\ UNCHANGED storeVars

ServeHTTP ==
  \/ \E limit \in 0 .. MaxPageLimit : RawCount(ClampLimit(limit))
  \/ RawCountNext
  \/ RawPage
  \/ serveRange
  \/ NoteArchives
  \/ \E g \in todo : serveArchive(g)
  \/ serveLatest
  \/ GiveUp
------------------------------------------------------------------------------

(* A batch is stored, or the table cleared, under the client.               *)
Meanwhile(what) == events' = IF pc \in {"page", "walk"} THEN events \cup what ELSE events

Insert ==
  /\ lastId < MaxRows
  /\ \E row \in Row :
       /\ Store!InsertBatch(row)
       /\ Meanwhile(IF row.agent # ask.agent \/ row.captured \notin ask.span[1] .. ask.span[2]
                    THEN {}
                    ELSE {"inserted"} \cup (IF pc = "page" THEN {"between"} ELSE {}))
  /\ UNCHANGED <<pc, ask, total, base, got, todo>>

ArchiverStep(g) ==
  \/ /\ Store!ArchiveCount(g) \/ Store!ArchiveVacuum(g) \/ Store!ArchiveFails(g)
     /\ UNCHANGED clientVars
  \/ /\ Store!ArchiveClear(g)
     /\ Meanwhile({"cleared"})
     /\ got' = IF pc = "poll" THEN {} ELSE got
     /\ UNCHANGED <<pc, ask, total, base, todo>>

(* A page under way gets no answer.                                         *)
Crash ==
  /\ Store!CrashAndReopen
  /\ IF pc = "page" THEN ForgetAll ELSE UNCHANGED clientVars

Next ==
  \/ ServeHTTP
  \/ Insert
  \/ \E g \in Store!Goroutines : ArchiverStep(g)
  \/ Crash

Spec == Init /\ [][Next]_vars
------------------------------------------------------------------------------

TypeOK ==
  /\ Store!TypeOK
  /\ pc \in {"idle", "page", "walk", "range", "survey", "poll"}
  /\ ask \in Ask
  /\ total \in 0 .. MaxRows
  /\ base \subseteq 1 .. lastId /\ got \subseteq 1 .. lastId
  /\ todo \subseteq DOMAIN archives
  /\ events \subseteq Event

\* The client has been through pages of a table that was not cleared.
Walked == pc = "walk" /\ "cleared" \notin events

(* Who reads page after page until one is short has been shown every batch  *)
(* that was there at the start, whatever was inserted meanwhile, before or  *)
(* behind the page being read, and wherever OFFSET counted from: unless the *)
(* table was cleared.                                                       *)
ShortPageCompletes == Walked /\ "short" \in events => base \subseteq got

(* Who stops at the total that came with the last page has been shown every *)
(* batch that was there at the start, too, if none was inserted between the *)
(* two statements that page took.                                           *)
TotalCompletes ==
  Walked /\ "between" \notin events /\ (ask.page + 1) * ask.limit >= total
    => base \subseteq got

(* A batch is shown on two pages only if one of the range was inserted      *)
(* meanwhile: no page overlaps the next, and batches captured in the same   *)
(* second, which ORDER BY leaves open, do not change places.                *)
NoRepeats == Walked /\ "repeated" \in events => "inserted" \in events

(* Who reads the range first, then looks which archive files there are and  *)
(* reads these, none of the answers being cut off at its limit, has been    *)
(* shown every batch that was stored when it began, those lost in the       *)
(* archiver's race excepted: none slips through while it moves from the     *)
(* table to a file between two of these steps.                              *)
SurveyCompletes ==
  pc = "survey" /\ todo = {} /\ "short" \in events => base \ got \subseteq raced

(* The latest batch of an agent, asked for again and again, never goes back *)
(* in time: a buffered batch that arrives late does not become the latest.  *)
(* Only clearing the table can bring back an older one.                     *)
LatestNeverOlder ==
  [][pc = "poll" /\ pc' = "poll" =>
       \A i \in got, j \in got' : rows[i].captured <= rows[j].captured]_vars
===============================================================================
