--------------------------- MODULE MetadataCache ---------------------------
(***************************************************************************)
(* MetadataCache (core/metadata_cache.py): the upstream /-/metadata.json,  *)
(* kept for Ttl ticks and refreshed by whichever request finds it expired. *)
(*                                                                         *)
(* Requests are asyncio tasks, so a step is what one of them does between  *)
(* two awaits.  The metadata is a version number; NoData is None.          *)
(* The lock is _refresh_lock; taking it yields even if it is free.         *)
(***************************************************************************)
EXTENDS AnyioLock, FiniteSets

CONSTANTS
  Ttl,          \* config.METADATA_TTL_SECONDS, in ticks
  Uptimes,      \* values of time.monotonic() when the process starts
  MaxTime,      \* bound: the last tick
  MaxVersion    \* bound: versions the upstream metadata goes through

ASSUME CacheParameters ==
  /\ {Ttl, MaxTime, MaxVersion} \subseteq Nat \ {0}
  /\ Uptimes \subseteq Nat

NoData == 0

VARIABLES
  data,       \* _data
  lastFetch,  \* _last_fetch
  answer,     \* the version in the response a task is receiving
  upstream,   \* the version Datasette would serve now
  mono,       \* time.monotonic()
  \* History, read by no guard.
  loadedAt,   \* when data was stored
  call,       \* of each running call: its kind and what held when it began
  replies     \* what the last step returned to its caller, if anything

vars == <<data, lastFetch, owner, waiters, pc, answer, upstream, mono, loadedAt, call, replies>>

Places == {"idle", "acquired", "fetching", "answered", "waiting", "granted"}

(* asked: the upstream's version when the call began.  busy: it found the  *)
(* lock held.  aged: it began at least Ttl after boot.  behind: the lock   *)
(* was then held by a task that only waited for a load.  spoiled: a        *)
(* refresh ended without storing anything while the call was running.      *)
Calls == [kind: {"lookup", "force"}, asked: Nat, busy: BOOLEAN, aged: BOOLEAN,
          behind: BOOLEAN, spoiled: BOOLEAN]

NoCall == [kind |-> "lookup", asked |-> 0, busy |-> TRUE, aged |-> FALSE,
           behind |-> FALSE, spoiled |-> FALSE]

-----------------------------------------------------------------------------
(* The cache hit test of lines 110 and 128, for a given _last_fetch.       *)
Fresh(last) == data # NoData /\ mono - last < Ttl

(* The holder p leaves the lock and _ensure_fresh.                         *)
Leave(p, calls) ==
  /\ PassOn(p, "idle", "granted")
  /\ call' = [calls EXCEPT ![p] = NoCall]
  /\ answer' = [answer EXCEPT ![p] = NoData]

(* The call c of p returns what its accessor then reads from _data.        *)
Reply(p, c, value) ==
  replies' = {[caller |-> p, kind |-> c.kind, asked |-> c.asked, busy |-> c.busy,
               aged |-> c.aged, behind |-> c.behind, spoiled |-> c.spoiled,
               value |-> value]}

Quiet == replies' = {}

-----------------------------------------------------------------------------
(* _ensure_fresh up to its first await, with _last_fetch = last.           *)

(* Variant: None is served while the first load is running.                *)
ServeWhileLoading(p, c, last) ==
  /\ Fresh(last) \/ owner # NoOne
  /\ Reply(p, c, data)
  /\ UNCHANGED <<owner, waiters, pc, call>>

ServeCached(p, c, last) ==
  /\ Fresh(last) \/ (owner # NoOne /\ data # NoData)
  /\ Reply(p, c, data)
  /\ UNCHANGED <<owner, waiters, pc, call>>

WaitForFirstLoad(p, c, last) ==
  /\ data = NoData /\ Enqueue(p)
  /\ pc' = [pc EXCEPT ![p] = "waiting"]
  /\ call' = [call EXCEPT ![p] = c]
  /\ Quiet

(* Variant: the lock does not exclude.                                     *)
TakeHeldLock(p, c, last) ==
  /\ ~Fresh(last) /\ Seize(p)
  /\ pc' = [pc EXCEPT ![p] = "acquired"]
  /\ call' = [call EXCEPT ![p] = c]
  /\ Quiet

TakeLock(p, c, last) ==
  /\ ~Fresh(last) /\ Acquire(p)
  /\ pc' = [pc EXCEPT ![p] = "acquired"]
  /\ call' = [call EXCEPT ![p] = c]
  /\ Quiet

EnsureFresh(p, kind, last) ==
  LET c == [kind |-> kind, asked |-> upstream, spoiled |-> FALSE,
            busy |-> owner # NoOne, aged |-> mono >= Ttl,
            behind |-> owner # NoOne /\ pc[owner] = "granted"]
  IN  /\ pc[p] = "idle"
      /\ lastFetch' = last
      /\ ServeCached(p, c, last) \/ WaitForFirstLoad(p, c, last) \/ TakeLock(p, c, last)
      /\ UNCHANGED <<data, answer, upstream, mono, loadedAt>>

(* Any of the accessors, each of which awaits _ensure_fresh and then reads *)
(* _data without another await.                                            *)
Lookup(p) == EnsureFresh(p, "lookup", lastFetch)

(* Variant: nothing is expired.                                            *)
ForceNothing(p) == EnsureFresh(p, "force", lastFetch)

ForceRefresh(p) == EnsureFresh(p, "force", 0)

-----------------------------------------------------------------------------
(* The holder of the lock.                                                 *)

(* It looks again, then sends the request.                                 *)
DoubleCheck(p) ==
  /\ pc[p] = "acquired"
  /\ IF Fresh(lastFetch)
     THEN Leave(p, call) /\ Reply(p, call[p], data)
     ELSE pc' = [pc EXCEPT ![p] = "fetching"] /\ Quiet /\ UNCHANGED <<owner, waiters, call, answer>>
  /\ UNCHANGED <<data, lastFetch, upstream, mono, loadedAt>>

(* Datasette serves the version it has; the response is on its way.        *)
Answer(p) ==
  /\ pc[p] = "fetching"
  /\ answer' = [answer EXCEPT ![p] = upstream]
  /\ pc' = [pc EXCEPT ![p] = "answered"]
  /\ Quiet
  /\ UNCHANGED <<data, lastFetch, owner, waiters, upstream, mono, loadedAt, call>>

StoreAnswer(p) ==
  /\ pc[p] = "answered"
  /\ data' = answer[p]
  /\ lastFetch' = mono
  /\ loadedAt' = mono
  /\ Leave(p, call)
  /\ Reply(p, call[p], answer[p])
  /\ UNCHANGED <<upstream, mono>>

(* The running calls once a refresh has ended without storing anything.    *)
Spoiled == [q \in Callers |-> [call[q] EXCEPT !.spoiled = pc[q] # "idle"]]

(* Variants: a failed refresh clears the data; it counts as a fetch; it    *)
(* keeps the lock.                                                         *)
FetchFailsClearing(p) ==
  /\ pc[p] \in {"fetching", "answered"}
  /\ Leave(p, Spoiled)
  /\ data' = NoData
  /\ Reply(p, Spoiled[p], data')
  /\ UNCHANGED <<lastFetch, upstream, mono, loadedAt>>

FetchFailsStamping(p) ==
  /\ pc[p] \in {"fetching", "answered"}
  /\ lastFetch' = mono
  /\ Leave(p, Spoiled)
  /\ Reply(p, Spoiled[p], data)
  /\ UNCHANGED <<data, upstream, mono, loadedAt>>

FetchFailsHolding(p) ==
  /\ pc[p] \in {"fetching", "answered"}
  /\ pc' = [pc EXCEPT ![p] = "idle"]
  /\ call' = [Spoiled EXCEPT ![p] = NoCall]
  /\ answer' = [answer EXCEPT ![p] = NoData]
  /\ Reply(p, Spoiled[p], data)
  /\ UNCHANGED <<data, lastFetch, owner, waiters, upstream, mono, loadedAt>>

(* Connection error, error status or unusable body: keep what there is.    *)
FetchFails(p) ==
  /\ pc[p] \in {"fetching", "answered"}
  /\ Leave(p, Spoiled)
  /\ Reply(p, Spoiled[p], data)
  /\ UNCHANGED <<data, lastFetch, upstream, mono, loadedAt>>

-----------------------------------------------------------------------------
(* A task that waited for the first load; cancelled requests.              *)

WaiterReturns(p) ==
  /\ pc[p] = "granted"
  /\ Leave(p, call)
  /\ Reply(p, call[p], data)
  /\ UNCHANGED <<data, lastFetch, upstream, mono, loadedAt>>

(* The holder is cancelled; async with releases the lock.                  *)
CancelHolder(p) ==
  /\ p = owner
  /\ Leave(p, IF pc[p] = "granted" THEN call ELSE Spoiled)
  /\ Quiet
  /\ UNCHANGED <<data, lastFetch, upstream, mono, loadedAt>>

CancelWaiter(p) ==
  /\ Abandon(p)
  /\ pc' = [pc EXCEPT ![p] = "idle"]
  /\ call' = [call EXCEPT ![p] = NoCall]
  /\ Quiet
  /\ UNCHANGED <<data, lastFetch, answer, upstream, mono, loadedAt>>

-----------------------------------------------------------------------------
Publish ==
  /\ upstream < MaxVersion
  /\ upstream' = upstream + 1
  /\ Quiet
  /\ UNCHANGED <<data, lastFetch, owner, waiters, pc, answer, mono, loadedAt, call>>

Tick ==
  /\ mono < MaxTime
  /\ mono' = mono + 1
  /\ Quiet
  /\ UNCHANGED <<data, lastFetch, owner, waiters, pc, answer, upstream, loadedAt, call>>

Init ==
  /\ data = NoData
  /\ lastFetch = 0
  /\ owner = NoOne
  /\ waiters = << >>
  /\ pc = [p \in Callers |-> "idle"]
  /\ answer = [p \in Callers |-> NoData]
  /\ upstream = 1
  /\ mono \in Uptimes
  /\ loadedAt = 0
  /\ call = [p \in Callers |-> NoCall]
  /\ replies = {}

(* What a task does when the event loop resumes it.                        *)
Resume(p) ==
  DoubleCheck(p) \/ Answer(p) \/ StoreAnswer(p) \/ FetchFails(p) \/ WaiterReturns(p)

Cancel(p) == CancelHolder(p) \/ CancelWaiter(p)

Next ==
  \/ \E p \in Callers : Lookup(p) \/ ForceRefresh(p) \/ Resume(p) \/ Cancel(p)
  \/ Publish
  \/ Tick

(* The event loop resumes every runnable task, and httpx's timeouts end    *)
(* every request, one way or the other.                                    *)
Fairness == \A p \in Callers : WF_vars(Resume(p))

Spec == Init /\ [][Next]_vars /\ Fairness
=============================================================================
