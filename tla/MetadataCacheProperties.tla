---------------------- MODULE MetadataCacheProperties ----------------------
(***************************************************************************)
(* What MetadataCache must guarantee to the requests that share it.        *)
(***************************************************************************)
EXTENDS MetadataCache

Holding == {"acquired", "fetching", "answered", "granted"}

(* The state of MetadataCache.__init__ and of the tasks in _ensure_fresh.  *)
TypeOK ==
  /\ {data, lastFetch, upstream, mono, loadedAt} \subseteq Nat
  /\ LockTypeOK(Places)
  /\ answer \in [Callers -> Nat]
  /\ call \in [Callers -> Calls]

(* Single flight (D2-03): at any moment at most one request is between     *)
(* taking _refresh_lock and leaving it, it is the lock's owner, and the    *)
(* queued tasks are distinct and all waiting for a first load.             *)
SingleFlight == Exclusive(Holding)

(* The requests form one line for _refresh_lock: they get it in the order  *)
(* in which they came, or leave the line when they are cancelled; none is  *)
(* forgotten in it or waits while nobody holds the lock, however refreshes *)
(* end.                                                                    *)
Lock == INSTANCE FairLock WITH line <- Line, at <- At(Holding)

ImplementsFairLock == Lock!Spec

(* Why no answer can be late: what is stored and what is on its way are    *)
(* versions the upstream has had, and the one answer on its way is at      *)
(* least as new as what is stored.                                         *)
VersionsInOrder ==
  /\ 1 <= upstream /\ data <= upstream
  /\ \A p \in Callers :
       pc[p] = "answered" => data <= answer[p] /\ 1 <= answer[p] /\ answer[p] <= upstream

(* The data a lookup sees never goes back: neither to None after an error  *)
(* (stale-on-error) nor to an older version, whatever responses are in     *)
(* flight while the upstream changes.                                      *)
DataNeverRegresses == [][data' >= data]_data

(* A call returns None only if a refresh failed or was cancelled while it  *)
(* was running, or if it joined the queue behind tasks that had waited for *)
(* such a refresh: concurrent first requests get what the holder loaded.   *)
NoneOnlyAfterFailure ==
  \A r \in replies : r.value = NoData => r.spoiled \/ r.behind

(* Why: while there is no data, a task in the queue waits for a refresh    *)
(* that is still running, or one has failed it, or it came too late; and   *)
(* whoever is handed the lock is in one of the last two cases.             *)
WaitersHaveReason ==
  data = NoData =>
    /\ \A p \in Callers : pc[p] = "granted" => call[p].spoiled \/ call[p].behind
    /\ \A p \in Callers : pc[p] = "waiting" =>
         \/ call[p].spoiled \/ call[p].behind
         \/ \E q \in Callers : pc[q] \in {"acquired", "fetching", "answered"}

(* The re-check under the lock (line 128) never succeeds: a task that sees *)
(* the lock free owns it before any other task runs.                       *)
RecheckNeverHits == \A p \in Callers : pc[p] = "acquired" => ~Fresh(lastFetch)

(* A call that finds no refresh in flight is answered with data no older   *)
(* than the TTL, or with the leftover of a refresh that failed while it    *)
(* was running: a failure counts for nobody else, the next call tries      *)
(* again at once (stale-on-error), whatever forced refreshes, failures and *)
(* cancellations came before.                                              *)
StaleOnlyWhileRefreshing ==
  \A r \in replies :
    r.value # NoData /\ ~r.busy /\ ~r.spoiled => mono - loadedAt < Ttl

(* force_refresh ("Force cache expiry and re-fetch"): a call that finds no *)
(* refresh in flight, on a host that has been up for Ttl, and whose        *)
(* refresh does not fail, returns data at least as new as the upstream's   *)
(* when it was called.                                                     *)
ForceRefetchesWhenClear ==
  \A r \in replies :
    r.kind = "force" /\ ~r.busy /\ r.aged /\ ~r.spoiled => r.value >= r.asked

(* Why: _last_fetch never says the data is newer than it is.               *)
StampNotAhead == data = NoData \/ lastFetch <= loadedAt

(* And a call that finds the lock free and is not served at once takes it  *)
(* and fetches itself, and what it is sent is no older than the call.      *)
ClearCallsFetch ==
  \A p \in Callers : ~call[p].busy =>
    /\ pc[p] \in {"acquired", "fetching", "answered"}
    /\ call[p].asked <= upstream
    /\ pc[p] = "answered" => call[p].asked <= answer[p]

(* No request waits for ever in _ensure_fresh, neither for its own fetch   *)
(* nor for the first load of another request, even if that one is          *)
(* cancelled or fails.                                                     *)
CallsReturn == \A p \in Callers : pc[p] # "idle" ~> pc[p] = "idle"
=============================================================================
