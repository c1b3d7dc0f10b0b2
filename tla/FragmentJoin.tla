---------------------------- MODULE FragmentJoin ----------------------------
(***************************************************************************)
(* compile_filter and ParentPKCache (core/fragment_join.py): a query on a  *)
(* fragments table that names its document by URL is rewritten to one by   *)
(* the document's key, found by an upstream lookup (Call 1) and cached     *)
(* under the normalized URL for Ttl ticks, "no such document" included.    *)
(*                                                                         *)
(* A step is what a task does between two awaits.  One lock is held from   *)
(* before the cache is read until the lookup's answer is stored.  The      *)
(* upstream answers at the moment its response arrives, with the newest of *)
(* the matching rows, which has its key column.                            *)
(***************************************************************************)
EXTENDS AnyioLock, FiniteSets

CONSTANTS
  Requests,     \* the requests each of the concurrent query_table calls makes
  NoRequest,    \* of a caller that makes none
  Urls,         \* URLs as callers and the upstream spell them
  normalize,    \* normalize_url, as a function on Urls
  Parents,      \* keys of documents
  Ttl,          \* config.METADATA_TTL_SECONDS, in ticks
  MaxTime,      \* bound: the last tick
  MaxChanges    \* bound: how often the upstream's documents change

NoParent == 0

(* A request's urls are the values of its exact filters on the column of   *)
(* the parent's URL.                                                       *)
ASSUME JoinParameters ==
  /\ \A c \in Callers : \A q \in Requests[c] : q.urls \in Seq(Urls)
  /\ normalize \in [Urls -> Urls]
  /\ \A u \in Urls : normalize[normalize[u]] = normalize[u]
  /\ Parents \subseteq Nat \ {NoParent}
  /\ Ttl \in Nat \ {0} /\ {MaxTime, MaxChanges} \subseteq Nat

Answers == Parents \cup {NoParent}

VARIABLES
  entries,    \* _data: normalized URL -> parent_pk or None, and its expiry
  request,    \* the arguments of each call
  parent,     \* the key compile_filter gave it, if any
  match,      \* the document Datasette has now under each spelling
  changes,    \* how often that changed
  mono,       \* time.monotonic()
  until       \* history: when a spelling last stopped having an answer

cacheVars == <<entries, lockVars>>
upstreamVars == <<match, changes, until>>
joinVars == <<cacheVars, pc, request, parent, upstreamVars, mono>>

Holding == {"locked", "lookup"}

-----------------------------------------------------------------------------
(* The cache and its lock.                                                 *)

Entry(u) == entries[normalize[u]]

(* Variant: an entry is served at its expiry.                              *)
HitInclusive(u) == normalize[u] \in DOMAIN entries /\ mono <= Entry(u).expiry

Hit(u) == normalize[u] \in DOMAIN entries /\ mono < Entry(u).expiry

With(u, p) ==
  [k \in DOMAIN entries \cup {normalize[u]} |->
     IF k = normalize[u] THEN [parent |-> p, expiry |-> mono + Ttl] ELSE entries[k]]

(* The locals of a call that is over.                                      *)
Forget(c) ==
  /\ request' = [request EXCEPT ![c] = NoRequest]
  /\ parent' = [parent EXCEPT ![c] = NoParent]

-----------------------------------------------------------------------------
(* compile_filter.                                                         *)

(* The trigger: exactly one exact filter on the parent's URL column.       *)
NamesDocument(q) == Len(q.urls) = 1

Url(c) == request[c].urls[1]

PassThrough(c, q) ==
  /\ ~NamesDocument(q)
  /\ pc' = [pc EXCEPT ![c] = "resolved"]
  /\ UNCHANGED lockVars

(* Variant: the lock does not exclude.                                     *)
TakeHeldLock(c, q) ==
  /\ NamesDocument(q) /\ Seize(c)
  /\ pc' = [pc EXCEPT ![c] = "locked"]

TakeLock(c, q) ==
  /\ NamesDocument(q) /\ Acquire(c)
  /\ pc' = [pc EXCEPT ![c] = "locked"]

WaitForLock(c, q) ==
  /\ NamesDocument(q) /\ Enqueue(c)
  /\ pc' = [pc EXCEPT ![c] = "waiting"]

Enter(c, q) ==
  /\ pc[c] = "idle"
  /\ PassThrough(c, q) \/ TakeLock(c, q) \/ WaitForLock(c, q)
  /\ request' = [request EXCEPT ![c] = q]
  /\ UNCHANGED <<entries, parent, upstreamVars, mono>>

Serve(c) ==
  /\ pc[c] = "locked" /\ Hit(Url(c))
  /\ parent' = [parent EXCEPT ![c] = Entry(Url(c)).parent]
  /\ PassOn(c, "resolved", "locked")
  /\ UNCHANGED <<entries, request, upstreamVars, mono>>

SendLookup(c) ==
  /\ pc[c] = "locked" /\ ~Hit(Url(c))
  /\ pc' = [pc EXCEPT ![c] = "lookup"]
  /\ UNCHANGED <<cacheVars, request, parent, upstreamVars, mono>>

(* Call 1 asked for the URL as the caller spelled it.                      *)
StoreParent(c) ==
  /\ pc[c] = "lookup"
  /\ entries' = With(Url(c), match[Url(c)])
  /\ parent' = [parent EXCEPT ![c] = match[Url(c)]]
  /\ PassOn(c, "resolved", "locked")
  /\ UNCHANGED <<request, upstreamVars, mono>>

(* Variant: the lock is not released by the exception.                     *)
LookupFailsHolding(c) ==
  /\ pc[c] = "lookup"
  /\ pc' = [pc EXCEPT ![c] = "idle"]
  /\ Forget(c)
  /\ UNCHANGED <<cacheVars, upstreamVars, mono>>

(* UpstreamCallFailed, or another exception: nothing is stored.            *)
LookupFails(c) ==
  /\ pc[c] = "lookup"
  /\ PassOn(c, "idle", "locked")
  /\ Forget(c)
  /\ UNCHANGED <<entries, upstreamVars, mono>>

(* The client goes away: async with gives the lock, or the place, up.      *)
CancelHolder(c) ==
  /\ c = owner
  /\ PassOn(c, "idle", "locked")
  /\ Forget(c)
  /\ UNCHANGED <<entries, upstreamVars, mono>>

CancelWaiter(c) ==
  /\ Abandon(c)
  /\ pc' = [pc EXCEPT ![c] = "idle"]
  /\ Forget(c)
  /\ UNCHANGED <<entries, upstreamVars, mono>>

-----------------------------------------------------------------------------
(* A document is re-scraped under another key, added or removed.           *)
Rescrape(u, p) ==
  /\ changes < MaxChanges /\ match[u] # p
  /\ changes' = changes + 1
  /\ match' = [match EXCEPT ![u] = p]
  /\ until' = [until EXCEPT ![u][match[u]] = mono]
  /\ UNCHANGED <<cacheVars, pc, request, parent, mono>>

Tick ==
  /\ mono < MaxTime
  /\ mono' = mono + 1
  /\ UNCHANGED <<cacheVars, pc, request, parent, upstreamVars>>

JoinInit ==
  /\ entries = << >>
  /\ owner = NoOne
  /\ waiters = << >>
  /\ pc = [c \in Callers |-> "idle"]
  /\ request = [c \in Callers |-> NoRequest]
  /\ parent = [c \in Callers |-> NoParent]
  /\ match \in [Urls -> Answers]
  /\ changes = 0
  /\ mono = 0
  /\ until = [u \in Urls |-> [p \in Answers |-> -Ttl]]

Resolve(c) == Serve(c) \/ SendLookup(c) \/ StoreParent(c)

CancelJoin(c) == CancelHolder(c) \/ CancelWaiter(c)
=============================================================================
