# zeeker-mcp in TLA+

zeeker-mcp is a read-only MCP server in front of a Datasette instance: a client calls one of six tools, the server
turns the call into a few HTTP requests to Datasette, and what comes back is filtered, merged and wrapped in an
envelope with provenance. It is one process with one event loop (a single uvicorn worker), and it keeps very little
state: the buckets of its rate limiter, a copy of the upstream's metadata, and a cache of document keys. What makes it
hard is not the amount of state but that every request runs between the awaits of every other, that the upstream
changes, fails and answers late, and that a call reads it two to twenty times before it answers.

This directory holds TLA+ modules that model that behaviour, TLC configurations that check them on small instances,
and TLAPS proofs of the properties that matter most for every size. Line numbers below are of `src/src/mcp_zeeker/`.

## 1. The system

### Components

| Component | Files | State | Operations |
|---|---|---|---|
| Request pipeline | `core/middleware/{request_id,origin,access_log,error_enrichment,retrieved_at}.py`, `core/logging.py` | context variables of one request's task | bind and clear ids and the call's time, refuse foreign origins, append the id to tool errors, log one line per call |
| Rate limiter | `core/middleware/rate_limit.py` | `_store` (key to bucket), `_last_sweep_ts` | admit or refuse a request; sweep idle buckets; evict when full |
| Client address | `core/ip.py`, `core/soak_auth.py` | none | derive the limiter's key; recognise the token that bypasses it |
| Metadata cache | `core/metadata_cache.py` | `_data`, `_last_fetch`, `_refresh_lock` | look up (refreshing what is older than the TTL), force a refresh |
| Datasette client | `core/datasette_client.py`, `core/http_client.py` | a connection pool | read a summary, rows, column types; retry once |
| Search | `tools/search.py`, `core/search.py`, `core/fts_escape.py` | locals of one call | validate, discover tables, fan out, merge, re-check visibility |
| Fragment join | `core/fragment_join.py` | `ParentPKCache._data` and its lock | resolve a document's URL to its key, rewrite the filters |
| query_table, cursors | `tools/retrieval.py`, `core/cursor.py`, `core/filter_compiler.py` | locals of one call; the cursor, which the client keeps | validate, compile filters, join, page |
| fetch, list_databases, list_tables, describe_table | `tools/retrieval.py`, `tools/discovery.py`, `core/visibility.py`, `core/config_lookup.py` | locals of one call | gather four summaries; resolve, read, project |
| Envelope, citations, error catalog | `core/envelope.py`, `core/citation.py`, `core/errors.py` | none | format a finished answer |
| Lifespan | `app.py`, `server.py`, `config.py`, `core/admin.py` | the three singletons | build and bind at start, release in reverse at the end |

### How they interact

A request passes the pipeline from the outside in: request id, origin check, rate limiter, MCP transport, the call's
timestamp, error enrichment, the log line, the tool. Nothing but the limiter keeps state from one request to the next
there, and the limiter decides without an await. The transport runs the tool call in a task of its own, with a copy of
the request's context variables; when a client leaves, its request's task ends and the call may go on. The lifespan
opens the HTTP client before the first request and closes it after the last call; everything is lost with the process.
The tools call the Datasette client and, for descriptions and licences, the metadata cache; only query_table uses the
fragment join. The two caches are the only state that tool calls share, and each is guarded by an anyio lock that is
held across an upstream request. A search starts up to one task per table, ten at a time, under a deadline of 0.8 s.

### What is hard, and what makes each component right

- **Rate limiter.** Buckets are refilled lazily, deleted when idle, and evicted in batches, on one clock for tokens and
  another for the date. It must serve no client faster than its burst and rate allow, nor more than the daily limit; a
  refused client that waits as told must be admitted, even across a restart; and deletion must gain nobody anything.
- **Pipeline and lifespan.** What a task knows of its request is in context variables copied from task to task, some of
  them inherited from a request pipelined before. Clients leave, the process is stopped with requests in every stage,
  or killed. Ids, timestamps and log lines must stay with their request, whichever way a call ends; no call may run
  without its HTTP client; and requests and shutdowns must end.
- **Metadata cache.** The expiry test, the test of the lock and the taking of the lock are three steps; the holder may
  fail or be cancelled. At most one refresh at a time, data that never goes back, `None` only after a failure, data
  beyond its age only while a refresh is under way or has just failed, and no request that waits for ever.
- **Search.** Discovery, fan-out and re-check are seconds apart while tables are hidden, dropped and re-indexed; tasks
  fail, are retried and are cut off. What it answers must follow from all tasks, and no row may come from a table that
  was hidden by then or never had an index.
- **Fragment join and cursors.** A cached key outlives its document; a cursor leaves the key out and has it put back
  from a later lookup; a client may change anything between two pages. Pages must neither overlap nor skip.
- **The other tools.** Two or three reads of a changing table must answer as one would have, and a hidden table must
  not be told from a missing one whichever check comes first.

`PROJECT.json` lists each hazard at its line with the properties that would catch it.

## 2. Modules

| Module | What it is |
|---|---|
| `Server` | the process: lifespan, shutdown and crash; the way of each request and each tool call through the middleware |
| `RateLimiter` | the limiter: requests, two clocks, sweep, eviction, restarts |
| `TokenBucket` | what the burst window promises, with no store and no laziness; `RateLimiter` implements it |
| `FairLock` | what a lock promises the tasks that share it: one line, in which only the first is in, nobody served out of turn or left waiting while nobody is in; `MetadataCache` and `QueryTable` implement it |
| `AnyioLock` | the lock as anyio 4 implements it: uncontended taking, a queue, hand-over, abandonment |
| `MetadataCache` | `_ensure_fresh` await by await, on `AnyioLock` |
| `DatasetteClient` | what the client makes of a reply, first attempt and second |
| `Search` | one search call, on `DatasetteClient` |
| `FragmentJoin` | `ParentPKCache` and `compile_filter`, on `AnyioLock` |
| `QueryTable` | query_table on a fragments table, on `FragmentJoin`: cap, shape, cursors, pages |
| `TableTools` | list_databases, list_tables, describe_table, fetch and query_table on other tables, read by read, with `compile_filters` |

Each component `X` has `XProperties` (what it must guarantee), `XProofs` (theorems; `RateLimiterRefinement` is a
second one) and `MCX` with its `.cfg` files. Operators whose comment begins with "Variant" are plausible mistakes in
the definition that follows; nothing uses them except the experiments that show that each property can fail.

### From code to model

**A step is what a task does between two awaits.** asyncio switches tasks nowhere else, so this is exact, not an
assumption. An `await` of an uncontended anyio lock takes the lock before it yields (`AnyioLock!Acquire`), and release
hands the lock to the first in the queue (`PassOn`); a cancelled waiter leaves the queue (`Abandon`), a cancelled
holder leaves by `async with`.

**Server.** `phase` is where the lifespan of `app.py` is, `client`, `bound` and `transport` what it has opened; `Crash`
is the end without any of it. For each request, `pc` is where uvicorn's task for it is and `tool` where the session
manager's task for its call is; `ctx`, `toolCtx` and `startedAt` are the context variables of the two, copied by
`Arrive` (a pipelined request's task inherits the context of the request before it) and `Dispatch` (with
`stateless_http` each call gets its own request's context). A request is its own id. The limiter's verdict is left open
here (`RefuseRate` or not), and so is what the tool does (`Return` with any kind of result); requests to the MCP
endpoint are tool calls. `Logged` is the `finally` of the log middleware: a cancelled call passes its `except Exception`
and is logged as "ok". `charged`, `arrivedAt` and `readAt` are history.

**RateLimiter.** `store` is `_store`, a function on the keys present; a bucket has the fields of `BucketState`. `Admit`
and `Reject` are the whole of `__call__` for one request: the gated sweep (`Survivors`), creation or lookup, the date
roll, the refill, the decision, the charge, and `_enforce_cap` with its stable sort (`CapVictims`). Tokens are counted
in units and time in ticks, so that fractional tokens and the rounding of Retry-After are exact. `Tick` moves both
clocks, `StepWall` only the UTC clock; `Restart` empties the store, which is all a new process starts with. `since`,
`served`, `forgotten`, `lost` and `promise` are history that no guard reads.

**MetadataCache.** `data` is a version number and `NoData` is `None`; `pc` says between which awaits of `_ensure_fresh`
each request is. `EnsureFresh` is the code up to the first await (fast path, stale while refreshing, queueing for a
first load, taking the lock), followed by the re-check under the lock, the fetch, the answer, the store, failure and
cancellation. `loadedAt`, and in each call what held when it began (`asked`, `busy`, `aged`, `behind`) and whether a
refresh has failed since (`spoiled`), are history. The upstream's version at the moment of a response may be overtaken
before it is stored.

**Search.** `phase` is where the handler is, `task[i]` where the i-th `_one_table` is, `last[i]` what it was last
answered. Discovery reads two summaries per database and one per candidate; `Sent`, `Attempt`, `BackOff`, `SendAgain`
are `_request_with_retry` under a slot of the semaphore; `Deadline` is `move_on_after`; `Gather` the merge and the
mapping of failures to errors; `Recheck` the second look at visibility. A database may be named
twice; its tables are then searched by two tasks each, which write the same entries of `outRows` and `totals`, as in
the code. `seen` (what the re-check saw) and `during[t]`, everything `t` has been
since the call began, are history.

**FragmentJoin and QueryTable.** `entries` is `_data` with expiry; `parent[c]` what `compile_filter` gave the call.
Call 1 asks for the raw URL and its answer is stored under the normalized one, as in the code. `Shape` is
`canonical_shape_str` for the two fields that matter, `Encoded` and `Decoded` are the cursor's wrapping with the
document's key stripped and put back, `Page` is Datasette's keyset pagination.

**TableTools.** `upstream[t]` is what a table is now: gone, hidden, its columns, rows and types. `Resolve` is
`_resolve_table`, `Shown` `_visible_columns`, and each tool is the sequence of its reads, with `Alter` free to change
any table between two of them. `ReadDatabase` is one answer of list_databases' `asyncio.gather`, in any order.
`Compiles` is `compile_filters` by kinds: of the 13 operators four (those without a value, lists, comparisons, the
rest), of values ten, among them the numbers and strings that `int()` and `float()` treat differently; the first filter
that does not compile decides how the call ends. `during[t]` is everything `t` has been since the call began.

## 3. What is checked

All runs finish within three minutes with two workers.

| Run | Bounds | What it shows |
|---|---|---|
| `server` | two requests of six kinds, perhaps pipelined, two starts, three instants | own ids, one true line per call, timestamps before the first read, no call without its client, no waiter without its call, and everything ends |
| `limiter` | two clients, bursts of 2, 3 a day, 6-tick days, 6 ticks, the UTC clock stepped once by half a day either way, one restart | the daily ceiling unless the bucket was deleted, Retry-After sufficient and minimal, service within burst and rate, and `TokenBucket` implemented |
| `limiter_cap` | three clients, a store capped at 3 | below its cap between requests, never without the bucket just charged |
| `limiter_sticky` (violated) | two clients | the sticky TTL of a locked bucket ends halfway to midnight |
| `metadata_cache` | three requests, a TTL of 2 in 4 ticks, three upstream versions, hosts just booted and long up | single flight, no regress, `None` only after a failure, data beyond the TTL only while a refresh is under way or has failed, the forced refresh when it can work, callers in one line that are served in its order (`FairLock` implemented), and every call returns |
| `search` | three tables in two databases, any of three kinds, one change, two slots, three hits, seven requests | errors mean what they say, partial results, visible and indexed rows only, no table left out that could be searched all along and no row dropped of one visible all along, slots conserved, a fair merge, totals of the answered and searchable tables, and every call ends |
| `search_raises` (violated) | two tables | one malformed response makes the fan-out raise |
| `query_table` | two callers, two spellings of one URL, documents of two and one fragments, one re-scrape, a TTL of one tick | single flight, recent resolutions, exact walks, cursors bound to document and filters and to nothing else, a next cursor without the document's key, and every call returns |
| `join_poisoned` (violated) | the same | one spelling's absence is served for another |
| `join_cursor_sort` (violated) | one caller, two sorts | a joined call accepts a cursor made for another sort |
| `table_tools` | three tables (one of them hidden by configuration) in two databases, four states each, two changes, 27 calls, nine of them with filters | a hidden table is like a missing one, no hidden column, answers that are snapshots of first rows, lists without a gap, true errors, and every call ends |
| `tool_errors` (violated) | the same with one change | a failed summary ends a call without a code of the catalog |

Each property of a passing run is paired in `PROJECT.json` with a variant of the code under which the same run finds
it violated.

### Why the bounds are enough

The limiter treats clients alike except in the batch eviction, which needs more clients than the cap; two clients are
one observed and one whose requests trigger sweeps. Six ticks with six-tick days hold one midnight, or two when the
clock is stepped; one restart falls between any two requests; the TTL (3), the refill (4 ticks for a full burst) and
the day (6) overlap in every order. The server's two requests are one and another that is pipelined behind it, outlives
it or is cut off by the same shutdown; a request never looks at a third. Two starts are one process and what is left of
it for the next. The cache's three requests are a holder, a waiter and a late caller. The search's three tables with
two slots queue one task, retry and fail others, and span two databases; the merge sees lists of 0 to 3. Two fragments
with a limit of one are the shortest walk with a boundary; a third is added by the other document. Two changes of the
upstream hide a table and put it back, between any two reads. What goes beyond is what the proofs are for.

### Fairness

- `Server`: weak fairness of what the event loop runs of a request and its call (a call ends because httpx's timeouts,
  `core/http_client.py`, end every upstream request it waits for), of the cancelling of calls when the transport is
  left, and of the shutdown's steps. None of starts, arrivals, departures, signals, crashes and time.
- `MetadataCache`, `QueryTable`: weak fairness of each caller's own steps. The event loop resumes every runnable task,
  and httpx's timeouts (connect 1 s, read 10 s, write 2 s, pool 2 s) end every upstream request one way or the other.
  No fairness is assumed of new calls, cancellations, clocks or the upstream's changes.
- `Search`: the handler's steps and the deadline, which `move_on_after` schedules on the loop. Nothing is assumed of
  the fan-out's requests: `CallEnds` holds even if none is ever answered.
- `TableTools`: weak fairness of the reads; its one metadata step stands on `CallsReturn` of the metadata cache.

Deadlock is checked everywhere except in `limiter_cap`, where behaviours end at the bounds on time and on admissions.
In `Search` and `TableTools` a call that is over takes the step `Returned`, so that a deadlock would be a stuck call.

## 4. What is proved

Each theorem holds for every value of the constants that satisfies the named `ASSUME` of its module. The proofs first
find an inductive invariant, then read the properties off it.

- **ServerProofs.** `IInv` has, per request, what is known of its call, its log and its answer at each place (`Good`,
  with `Fits` for a reply on its way and `LogFits` for the lines), and of the lifespan in which phases there are calls
  and requests at all (`Stages`). It gives the six safety theorems for any number of requests, starts and ticks, also
  `RefusedNeverRunHolds`: what is refused costs no token and runs no tool.
- **RateLimiterProofs.** `Coherent` (every bucket typed, its timestamps not ahead of the clock, its flag telling that
  the count is at the limit) is inductive: `SpecCoherent`. `StoreStaysBelowCap` adds that an eviction batch is never
  empty, `AdmissionIsRecordedHolds` (for caps of at least two; the code's is 100,000) that the newest entry is never in
  it. `Accounted` (a client that was not forgotten has its admissions in its bucket) gives `DailyCeilingHolds`. For
  Retry-After, `PromisesKept` says of each client with a bucket that the moment it was told suffices (`Suffices`) and
  that a second earlier would not (`TooEarly`), in terms of the bucket alone, so that refused retries, sweeps and
  other clients' requests keep it: `RetryAfterSufficesHolds` and `RetryAfterIsLeast`. The arithmetic is that of rounding
  up to whole seconds, without a bound on rates or days.
- **RateLimiterRefinement.** `LimiterImplementsTokenBucket`, under `TtlCoversRefill` (the idle TTL is long enough to
  refill a bucket; 900 s against 20 tokens at one per second): a swept bucket was full, so its level does not change;
  laziness is `RefilledTokens` of a sum of ticks; evictions are the set `F` of the abstract `Take`, a
  restart is the abstract `Restart`.
  `RateConformanceHolds` from the same assumption: `Spent` relates what was served to the abstract level, with a burst
  more for each time the cap or a restart took the bucket.
- **AnyioLockProofs.** `Exclusive` (one holder, it is the owner, the queue is distinct and waiting) is kept by every
  operation of the lock, for any number of tasks and any set of places in which the lock is held. So is `Queued` (every
  waiting task is in the queue, and there is none while the lock is free). Together, `FairState` says that the places
  are those of one line, the owner and the queue behind it (`PlacedByLine`, `FairlyPlacedNext`), and then each operation
  is a step of `FairLock` on that line: taking and queueing enter it (`AcquireEnters`, `EnqueueEnters`), hand-over and
  abandonment leave it, from its head or from wherever the task stood (`PassOnLeaves`, `AbandonLeaves`), and what a task
  does while it holds the lock changes nothing of it (`MoveStutters`). Used twice, by the two caches.
- **MetadataCacheProofs.** `SingleFlightHolds` and `ImplementsFairLockHolds` from those lemmas; `VersionsInOrder` gives
  `DataNeverRegressesHolds`; `WaitersHaveReason` gives `NoneOnlyAfterFailureHolds`; `RecheckNeverHitsHolds` says the
  double check is dead code under anyio's synchronous taking of a free lock. `StampNotAhead` (`_last_fetch` never says
  that the data is newer than it is) and `ClearCallsFetch` (a call that found the lock free and is still running fetches
  itself) give `ForceRefetchesHolds` and `StaleOnlyWhileRefreshingHolds`.
- **SearchProofs.** Types with what each phase knows (`Typed`, `PhaseMeaning`), the verdict over all tasks (`Verdict`,
  for `InvalidQueryIsTheCallersFault` and `PartialResultsHold`), where rows and totals come from (`RowsSeen`,
  `FromIndexed`, `TotalsAnswered`, for `HiddenTablesStayHidden`, `NoFakeHitsHolds` and `TotalsAreTrueHolds`), the
  counting of slots (`Slots`, for `SlotsConservedHolds`), what discovery has not lost so far (`Discovered`: a table that
  could be searched at every moment is among the targets, among the tables found, or in a database still to be read; the
  two summaries and the columns are read at different moments, so `Remembered`, that what is so now has been so, carries
  it) and what the re-checks have not (`RowsKept`), both for `NothingLostHolds`, and the merge: `Precedes` orders the
  rows strictly, so that the number of rows before one (`Rank`) numbers them from zero and the merge is those numbered
  below the limit (`MergeIsFairHolds`); for any number of tables, databases, rows and slots.
- **QueryTableProofs.** `TypeCorrect` (with it, that no cursor of a joined call carries a key: FRAG-02),
  `SingleFlightHolds`, `ImplementsFairLockHolds` (for a lock that a call takes only if it joins and that a cached answer
  releases at once; its invariant is `Locked`), and `ResolutionIsRecentHolds`, whose invariant `EntriesRecent` says of
  each entry which spelling it was looked up for and that the upstream gave that answer no longer than the TTL before
  its expiry. For the cursors, `CursorsTruthful`: a cursor has the shape of the request it was made for, and if its walk
  stayed with one list, it has seen all of that list up to the row the cursor decodes to (`Reached`). The rows of a page
  are counted from the front of the list, so with `AfterOrders` (sort column, then id, is a strict total order) a page
  is a prefix of what is left (`PageIsPrefix`) and has a last row (`LastOfPage`). That gives `WalkIsExactHolds`; the
  shapes give `CursorBindsFiltersHolds` and `InvalidCursorMeansOtherRequestHolds`. Assumed: finitely many fragments, no
  other property of their insertion order, and a digest that is injective on shapes.
- **TableToolsProofs.** `NoSideChannelHolds`, `NoHiddenColumnHolds`, `AnswersAreSnapshotsHolds`, `ErrorsAreTrueHolds`
  from `IInv`: what is so now has been so (`Remembered`), behind the resolution the table was seen visible (`Found`),
  and from the phase on in which the columns are known there is one state of the table that has all of them and the
  rows (`Stage`). That a page is the first rows is a count: the rows before one number them without a gap
  (`RankInjective`, `RankOnto`), so those numbered below the limit are as many as they can be (`FirstByRank`). For the
  lists, `Listed` adds that a table visible all along is listed or its database not read yet.

**Only model-checked.** Liveness (`CallsReturn`, `CallEnds`, `EverythingEnds`), which is out of TLAPS's reach here.
Every other property of a passing run is also a theorem.

**Only proved.** The type invariants of all modules, the limiter's `Coherent`, two lemma-like invariants
(`RefusedNeverRun`, `RecheckNeverHits`) and `QueryTable`'s implementation of `FairLock`: TLC found them true when they
were stated, the theorems cover every instance, and no run repeats them.

## 5. Where code and documents disagree

Shown by runs (details and quotations in `PROJECT.json`): the sticky TTL (`limiter_sticky`), the fan-out that raises
(`search_raises`), the poisoned absence (`join_poisoned`), the unbound sort (`join_cursor_sort`), failed summaries
outside the catalog (`tool_errors`).

Met while modelling, described here only:

- `force_refresh` (`core/metadata_cache.py:181`) sets `_last_fetch` to 0.0; on a host whose monotonic clock is below
  the TTL, or while another refresh is in flight, it returns cached data, while its docstring says it re-fetches.
  `ForceRefetchesWhenClear` states when it does.
- After a failed first load, a call that arrives while its waiters are being released queues behind them and is
  answered `None` without a fetch of its own (`:114-122`, against the docstring at `:106`).
- The daily ceiling ("5,000 requests per IP per 24 hours", `docs/rate-limits.md:12`) counts in a bucket that the idle
  sweep, the cap or a restart may delete before midnight; `DailyCeilingUnlessForgotten` states what is left of it.
- A bucket locked yesterday keeps its flag until its client comes back, so the sweep keeps it longer than
  `_effective_ttl` says (`rate_limit.py:285`).
- An upstream timeout is reported as `upstream_unavailable`; `raise_query_timeout` has no caller
  (`tools/search.py:211`, `tools/retrieval.py:265`), although `docs/errors.md` has a row for `query_timeout`.
- A database named twice in a search is searched twice, so a table that failed once can still have a total
  (`tools/search.py:164`, against `core/search.py:318`); `TotalsOfAnsweredTables` says "answered by one of its tasks".
- The log line is not quite what `docs/privacy.md:14-27` says: `error_code` is the exception's class, since no tool
  error has a `code` (`core/middleware/access_log.py:33`); `status` is "ok", "error" or "rejected"; a cancelled call is
  "ok"; `duration_ms` is the tool's time only; `database` and `table` are never bound; the id is the client's own if it
  sends one (`core/middleware/request_id.py:28`); and preflights, refused origins, `/healthz` and `/admin/metrics`
  leave no line.
- The lifespan's resets restore context variables, not the singletons behind them (`core/datasette_client.py:131`), so
  that a late call would find a closed client; `CallsHaveTheirClient` holds because the transport ends first.
- A joined query whose document is not found loses all its filters and the cap of 100
  (`tests/manual/PHASE5-CLIENT-VERIFY.md` knows; `docs/tools.md:208-210` does not). `QueryTable!Dropped` models it.
- Joined pages come in insertion order unless sorted: the `order_by` of `FRAGMENT_PARENTS` is not used
  (`docs/tools.md:209-210`).
- `canonical_shape_str` sorts filters by column and operator only, so two filters that agree in both and swap places
  invalidate a cursor.
- `/healthz` passes the limiter (`docs/rate-limits.md:62` says otherwise).
- A 200 response without `rows` reads as `not_found` in fetch (`tools/retrieval.py:721`); `ErrorsAreTrue` allows it.
- An int beyond the floats in a comparison on a REAL column raises OverflowError (`core/filter_compiler.py:171`), and
  column types that are JSON but no object raise TypeError when they are merged (`tools/retrieval.py:284`); both end a
  call without a code, against `docs/errors.md:3-4`. `ErrorsAreTrue` says that nothing else but a failed read or a
  vanished table does.
- Documented and modelled as such: a cap eviction resets the daily count (RATE-04), and tasks cut off by the search's
  deadline do not count as failures.

## 6. What the models leave out

- **Server**: MCP messages other than tool calls, what is streamed after the first message, the client's own ids, and
  startup failing in any other way than the contract guard. uvicorn and the session manager are modelled from how
  `app.py` uses them and are marked external.
- **RateLimiter**: rounding of floats, the soak token's bypass (it is in `Server`), parsing of addresses, the body of
  the 429.
- **MetadataCache**: what the metadata says, and the folding of database names when it is stored.
- **Search**: a summary read is one step, since its retry changes nothing but time; rows are ranks in a table.
- **FragmentJoin, QueryTable**: the upstream answers a lookup at the moment its response arrives; the parent's key
  column is present; fragment ids begin with the document's key (otherwise the code drops `next_cursor` and a walk
  stops early); the digest is injective; malformed cursors; the retry inside Call 1; other filters are one number
  (`beyond`). Validation before the join is in `TableTools`, for tables without a parent.
- **TableTools**: the parameters filters compile to; row counts in lists; the citation columns that are asked for on
  top and removed again; descriptions.
- **Not modelled**: envelopes and citations, the memory figure of `/admin/metrics`, parameter coercion, deployment and
  soak scripts, and the documentation site. The site's two JavaScript files (`site/assets/javascripts/lunr/wordcut.js`
  and `tinyseg.js`) are third-party word segmenters that the MkDocs theme ships for its search box; the server neither
  loads nor serves them, and the implementation modelled here is the Python under `src/mcp_zeeker/`. `PROJECT.json`
  gives each part's reason.

## 7. Plan

The order was: what is shared by all requests first (limiter, metadata cache), then the tool with the most concurrency
(search), then the one with the most history (the join and its cursors), then the remaining tools, then the process
around them. Still open, in order:

1. **Models.** The composition of query_table's validation (`TableTools`) with the join (`QueryTable`), so that a
   document's table may be hidden between the two; describe_table's column-by-column metadata lookups on top of
   `MetadataCache`.
2. **Abstract specifications.** Next to `TokenBucket` and `FairLock`: a cache with a bounded age that both
   `MetadataCache` and `ParentPKCache` implement while no refresh fails; a walk over a fixed list that `QueryTable`'s
   pages implement while the document is steady.
3. **Runs.** A new question is to be asked by extending the run of its module before another is added.

To check: `tlc -config MCX.cfg MCX` for the runs and `tlapm XProofs.tla` for the proofs.
