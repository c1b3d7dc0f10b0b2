------------------------------- MODULE Search -------------------------------
(***************************************************************************)
(* One call of the search tool (tools/search.py) and its fan-out over the  *)
(* upstream's tables (core/search.py), while the upstream answers, fails,  *)
(* hides and drops tables as it likes.                                     *)
(*                                                                         *)
(* A step is what a task does between two awaits.  The calls that read a   *)
(* database summary are one step each (a retry inside changes nothing but  *)
(* time); those of the fan-out, which compete for slots and for time, are  *)
(* sent, backed off, sent again and answered.                              *)
(***************************************************************************)
EXTENDS DatasetteClient, Sequences, FiniteSets

CONSTANTS
  TablesOf,          \* the tables of each allowed database, in upstream order
  Requests,          \* the calls that may be made, databases defaulted to all
  MaxLimit,          \* the largest limit accepted (100)
  Permits,           \* slots of the fan-out's semaphore (10)
  InitialKinds,      \* what a table may be when the call begins
  MaxHits,           \* bound: hits of a query in one table
  MaxChanges         \* bound: changes of the upstream during the call

Databases == DOMAIN TablesOf

Tables == UNION {{TablesOf[d][i] : i \in 1 .. Len(TablesOf[d])} : d \in Databases}

DatabaseOf(t) == CHOOSE d \in Databases : \E i \in 1 .. Len(TablesOf[d]) : TablesOf[d][i] = t

(* "searchable" passes the four gates.  "unindexed" has no FTS index,      *)
(* "bare" no visible title or url, "hidden" is indexed but not visible.    *)
Kinds == {"searchable", "unindexed", "bare", "hidden", "gone"}

(* Databases are numbers, so that sorted() means something.                *)
ASSUME SearchParameters ==
  /\ Databases \subseteq Nat
  /\ \A d \in Databases : TablesOf[d] \in Seq(Tables)
  /\ \A r \in Requests : /\ r.blank \in BOOLEAN /\ r.limit \in Nat
                         /\ r.databases \in Seq(Nat)
  /\ {MaxLimit, Permits} \subseteq Nat \ {0}
  /\ InitialKinds \subseteq Kinds
  /\ {MaxHits, MaxChanges} \subseteq Nat

VARIABLES
  upstream,   \* what each table is now
  changes,    \* how often that changed
  request,    \* the arguments of the call
  phase,      \* where the handler is
  left,       \* positions in request.databases still to be discovered
  found,      \* positions in TablesOf of the current database's candidates
  targets,    \* target_tables
  task,       \* where each _one_table task is
  last,       \* the last reply each task got
  outRows,    \* how many rows out_rows holds of each table
  totals,     \* out_totals
  rows,       \* the merged rows: pairs of a table and a rank in it
  checked,    \* databases whose visibility has been re-read
  outcome,    \* how the call ended
  \* History, read by no guard.
  seen,       \* tables visible at some moment since the fan-out ended
  during      \* what each table has been since the call began

discovery == <<request, left, found>>
fanOut == <<targets, task, last, outRows, totals>>
world == <<upstream, changes, during>>
vars == <<world, discovery, phase, fanOut, rows, checked, outcome, seen>>

Phases == {"called", "summary", "visible", "columns", "discovered", "searching", "rechecking",
           "done"}

Running == {"queued", "sending", "backoff", "resending"}
Ended == {"answered", "failed", "cancelled"}
Holders == {i \in DOMAIN task : task[i] \in {"sending", "backoff", "resending"}}

(* ToolErrors of the catalog; and exceptions that are not ToolErrors, by   *)
(* the part of the handler they come from.                                 *)
ToolErrors == {"invalid_query", "unknown_database", "upstream_unavailable"}
Uncaught == {"discovery_raised", "fan_out_raised", "recheck_raised"}
Outcomes == {"none", "envelope"} \cup ToolErrors \cup Uncaught

-----------------------------------------------------------------------------
(* Visibility and the gates of searchable_tables_for.                      *)

VisibleNow == {t \in Tables : upstream[t] \notin {"hidden", "gone"}}

(* Variant: the fts_table gate is dropped.                                 *)
CandidatesUngated(d) ==
  {k \in 1 .. Len(TablesOf[d]) : upstream[TablesOf[d][k]] \in {"searchable", "hidden", "unindexed"}}

(* Gates 1, 3 and 4, on the first of the two summaries it reads.           *)
Candidates(d) ==
  {k \in 1 .. Len(TablesOf[d]) : upstream[TablesOf[d][k]] \in {"searchable", "hidden"}}

(* resolve_preview_columns finds a title and a url.                        *)
HasPreview(t) == upstream[t] # "bare"

End(result) ==
  /\ phase' = "done"
  /\ outcome' = result

-----------------------------------------------------------------------------
(* Validation and discovery, one database after the other in sorted order. *)

Validate ==
  /\ phase = "called"
  /\ \/ /\ request.blank \/ request.limit < 1 \/ request.limit > MaxLimit
        /\ End("invalid_query")
     \/ /\ ~request.blank /\ request.limit \in 1 .. MaxLimit
        /\ IF \E i \in left : request.databases[i] \notin Databases
           THEN End("unknown_database")
           ELSE phase' = "summary" /\ UNCHANGED outcome
  /\ UNCHANGED <<world, discovery, fanOut, rows, checked, seen>>

(* The order of sorted(); one entry per mention, duplicates included.      *)
FirstLeft(i) ==
  /\ i \in left
  /\ \A j \in left : \/ request.databases[i] < request.databases[j]
                     \/ request.databases[i] = request.databases[j] /\ i <= j

(* Variant: a database without candidates ends the discovery.              *)
NextUnlessBarren(i) ==
  /\ left' = IF found' = {} /\ phase = "visible" THEN {} ELSE left \ {i}
  /\ phase' = IF left' = {} THEN "discovered" ELSE "summary"

(* The current database is finished: on to the next or to the fan-out.     *)
NextDatabase(i) ==
  /\ left' = left \ {i}
  /\ phase' = IF left = {i} THEN "discovered" ELSE "summary"

ReadSummary(i) ==
  /\ phase = "summary" /\ FirstLeft(i)
  /\ found' = Candidates(request.databases[i])
  /\ phase' = "visible"
  /\ UNCHANGED <<world, request, left, fanOut, rows, checked, outcome, seen>>

ReadVisible(i) ==
  /\ phase = "visible" /\ FirstLeft(i)
  /\ found' = {k \in found : TablesOf[request.databases[i]][k] \in VisibleNow}
  /\ IF found' = {} THEN NextDatabase(i) ELSE phase' = "columns" /\ UNCHANGED left
  /\ UNCHANGED <<world, request, fanOut, rows, checked, outcome, seen>>

(* The first table k found is a target if it still has its columns.  If it *)
(* is gone, next() raises StopIteration.                                   *)
ReadColumns(i, k) ==
  /\ phase = "columns" /\ FirstLeft(i) /\ \A j \in found : k <= j
  /\ LET t == TablesOf[request.databases[i]][k] IN
       IF upstream[t] = "gone"
       THEN End("discovery_raised") /\ UNCHANGED <<left, found, targets>>
       ELSE /\ targets' = IF HasPreview(t) THEN Append(targets, t) ELSE targets
            /\ found' = found \ {k}
            /\ IF found = {k} THEN NextDatabase(i) ELSE UNCHANGED <<left, phase>>
            /\ UNCHANGED outcome
  /\ UNCHANGED <<world, request, task, last, outRows, totals, rows, checked, seen>>

(* get_database fails after its retry, or its body does not validate.      *)
DiscoveryFails ==
  /\ phase \in {"summary", "visible", "columns"}
  /\ End("discovery_raised")
  /\ UNCHANGED <<world, discovery, fanOut, rows, checked, seen>>

-----------------------------------------------------------------------------
(* The fan-out.                                                            *)

(* Every task starts; the first Permits of them get a slot.                *)
Started == [i \in DOMAIN targets |-> IF i <= Permits THEN "sending" ELSE "queued"]

Dispatch ==
  /\ phase = "discovered"
  /\ IF targets = << >>
     THEN End("envelope") /\ UNCHANGED <<task, last, outRows>>
     ELSE /\ phase' = "searching"
          /\ task' = Started
          /\ last' = [i \in DOMAIN targets |-> "body"]
          /\ outRows' = [t \in Tables |-> 0]
          /\ UNCHANGED outcome
  /\ UNCHANGED <<world, discovery, targets, totals, rows, checked, seen>>

FirstQueued(j) == task[j] = "queued" /\ \A h \in DOMAIN task : task[h] = "queued" => j <= h

(* Variant: the slot is not handed to the queue.                           *)
SlotLost(i, state) == task' = [task EXCEPT ![i] = state]

(* Task i ends in the given state; its slot goes to the head of the queue. *)
Finish(i, state) ==
  LET served == [j \in DOMAIN task |-> IF FirstQueued(j) THEN "sending" ELSE task[j]]
  IN  task' = [served EXCEPT ![i] = state]

Attempt(i) == IF task[i] = "resending" THEN 1 ELSE 0

Sent(i) == phase = "searching" /\ task[i] \in {"sending", "resending"}

(* 502 or 503: sleep, the slot still held, and send again.                 *)
BackOff(i) ==
  /\ Sent(i) /\ Retried("busy", Attempt(i))
  /\ task' = [task EXCEPT ![i] = "backoff"]
  /\ UNCHANGED <<world, discovery, phase, targets, last, outRows, totals, rows, checked, outcome,
                 seen>>

SendAgain(i) ==
  /\ phase = "searching" /\ task[i] = "backoff"
  /\ task' = [task EXCEPT ![i] = "resending"]
  /\ UNCHANGED <<world, discovery, phase, targets, last, outRows, totals, rows, checked, outcome,
                 seen>>

(* The table has that many hits; at most the call's limit come back.       *)
GetRows(i, hits) ==
  /\ Sent(i) /\ upstream[targets[i]] # "gone"
  /\ Finish(i, "answered")
  /\ last' = [last EXCEPT ![i] = "body"]
  /\ outRows' = [outRows EXCEPT ![targets[i]] = IF hits <= request.limit THEN hits
                                                                      ELSE request.limit]
  /\ totals' = [t \in DOMAIN totals \cup {targets[i]} |-> IF t = targets[i] THEN hits
                                                                          ELSE totals[t]]
  /\ UNCHANGED <<world, discovery, phase, targets, rows, checked, outcome, seen>>

(* Variant: a failed table is listed with no hits.                         *)
FailWithTotal(i, reply) ==
  /\ Sent(i) /\ reply \in FinalFailures(Attempt(i))
  /\ Finish(i, "failed")
  /\ last' = [last EXCEPT ![i] = reply]
  /\ totals' = [t \in DOMAIN totals \cup {targets[i]} |-> IF t = targets[i] THEN 0 ELSE totals[t]]
  /\ UNCHANGED <<world, discovery, phase, targets, outRows, rows, checked, outcome, seen>>

Fail(i, reply) ==
  /\ Sent(i) /\ reply \in FinalFailures(Attempt(i))
  /\ Finish(i, "failed")
  /\ last' = [last EXCEPT ![i] = reply]
  /\ UNCHANGED <<world, discovery, phase, targets, outRows, totals, rows, checked, outcome, seen>>

Cancelled == [i \in DOMAIN task |-> IF task[i] \in Running THEN "cancelled" ELSE task[i]]

(* A 2xx body that is not the expected JSON raises something else than     *)
(* UpstreamCallFailed: the task group cancels its siblings and re-raises.  *)
Garbled(i) ==
  /\ Sent(i)
  /\ last' = [last EXCEPT ![i] = "garbage"]
  /\ task' = [Cancelled EXCEPT ![i] = "failed"]
  /\ End("fan_out_raised")
  /\ UNCHANGED <<world, discovery, targets, outRows, totals, rows, checked, seen>>

(* Variant: tasks that have no slot yet are not cancelled.                 *)
DeadlineSparesQueue ==
  /\ phase = "searching" /\ \E i \in DOMAIN task : task[i] \in Running
  /\ task' = [i \in DOMAIN task |-> IF i \in Holders THEN "cancelled" ELSE task[i]]
  /\ UNCHANGED <<world, discovery, phase, targets, last, outRows, totals, rows, checked, outcome,
                 seen>>

(* move_on_after(0.8).                                                     *)
Deadline ==
  /\ phase = "searching" /\ \E i \in DOMAIN task : task[i] \in Running
  /\ task' = Cancelled
  /\ UNCHANGED <<world, discovery, phase, targets, last, outRows, totals, rows, checked, outcome,
                 seen>>

-----------------------------------------------------------------------------
(* _round_robin_merge: rank by rank, within a rank in the order of the     *)
(* targets, up to the limit.                                               *)

OutRows == UNION {{<<t, r>> : r \in 1 .. outRows[t]} : t \in {targets[i] : i \in DOMAIN targets}}

Before(t, u) ==
  \E i \in DOMAIN targets :
    targets[i] = t /\ \A j \in DOMAIN targets : targets[j] = u => i < j

(* Variant: table by table.                                                *)
PrecedesByTable(x, y) == Before(x[1], y[1]) \/ (x[1] = y[1] /\ x[2] < y[2])

Precedes(x, y) == x[2] < y[2] \/ (x[2] = y[2] /\ Before(x[1], y[1]))

Merged == {x \in OutRows : Cardinality({y \in OutRows : Precedes(y, x)}) < request.limit}

-----------------------------------------------------------------------------
(* The handler's verdict and its second look at visibility.                *)

(* Variant: tables that ran out of time count as failed.                   *)
UnansweredTasks == {i \in DOMAIN task : task[i] # "answered"}

FailedTasks == {i \in DOMAIN task : task[i] = "failed"}

(* Variant: one 400 is enough.                                             *)
SomeBadRequest == \E i \in FailedTasks : FailureStatus(last[i]) = 400

AllBadRequests == \A i \in FailedTasks : FailureStatus(last[i]) = 400

(* The task group is empty: merge, map the failures, and go on to the      *)
(* re-check, which needs no call when there are no rows.                   *)
Gather ==
  /\ phase = "searching" /\ \A i \in DOMAIN task : task[i] \in Ended
  /\ IF FailedTasks = DOMAIN targets
     THEN /\ End(IF AllBadRequests THEN "invalid_query" ELSE "upstream_unavailable")
          /\ UNCHANGED <<rows, seen>>
     ELSE /\ rows' = Merged
          /\ seen' = VisibleNow
          /\ IF Merged = {} THEN End("envelope") ELSE phase' = "rechecking" /\ UNCHANGED outcome
  /\ UNCHANGED <<world, discovery, fanOut, checked>>

Unchecked == {x \in rows : DatabaseOf(x[1]) \notin checked}

FirstUnchecked(x) == x \in Unchecked /\ \A y \in Unchecked : y = x \/ Precedes(x, y)

(* Variant: the rows are kept as they are.                                 *)
KeptAll(d) == rows

(* The rows left once the visible tables of d are known.                   *)
Kept(d) == {x \in rows : DatabaseOf(x[1]) = d => x[1] \in VisibleNow}

Recheck(x) ==
  /\ phase = "rechecking" /\ FirstUnchecked(x)
  /\ rows' = Kept(DatabaseOf(x[1]))
  /\ checked' = checked \cup {DatabaseOf(x[1])}
  /\ IF \E y \in Unchecked : DatabaseOf(y[1]) # DatabaseOf(x[1])
     THEN UNCHANGED <<phase, outcome>>
     ELSE End("envelope")
  /\ UNCHANGED <<world, discovery, fanOut, seen>>

RecheckFails ==
  /\ phase = "rechecking"
  /\ End("recheck_raised")
  /\ UNCHANGED <<world, discovery, fanOut, rows, checked, seen>>

-----------------------------------------------------------------------------
Alter(t, kind) ==
  /\ changes < MaxChanges /\ phase # "done" /\ upstream[t] # kind
  /\ changes' = changes + 1
  /\ upstream' = [upstream EXCEPT ![t] = kind]
  /\ during' = [during EXCEPT ![t] = @ \cup {kind}]
  /\ seen' = IF phase = "rechecking" THEN seen \cup VisibleNow' ELSE seen
  /\ UNCHANGED <<discovery, phase, fanOut, rows, checked, outcome>>

Init ==
  /\ upstream \in [Tables -> InitialKinds]
  /\ changes = 0
  /\ request \in Requests
  /\ phase = "called"
  /\ left = DOMAIN request.databases
  /\ found = {}
  /\ targets = << >>
  /\ task = << >>
  /\ last = << >>
  /\ outRows = [t \in Tables |-> 0]
  /\ totals = << >>
  /\ rows = {}
  /\ checked = {}
  /\ outcome = "none"
  /\ seen = {}
  /\ during = [t \in Tables |-> {upstream[t]}]

Discover ==
  \/ Validate
  \/ \E i \in left :
       ReadSummary(i) \/ ReadVisible(i) \/ \E k \in found : ReadColumns(i, k)
  \/ DiscoveryFails
  \/ Dispatch

OneTable(i) ==
  \/ BackOff(i) \/ SendAgain(i) \/ Garbled(i)
  \/ \E hits \in 0 .. MaxHits : GetRows(i, hits)
  \/ \E reply \in Failures : Fail(i, reply)

Conclude == Gather \/ (\E x \in rows : Recheck(x)) \/ RecheckFails

Returned == phase = "done" /\ UNCHANGED vars

Next ==
  \/ Discover
  \/ \E i \in DOMAIN task : OneTable(i)
  \/ Deadline
  \/ Conclude
  \/ \E t \in Tables, kind \in Kinds : Alter(t, kind)
  \/ Returned

(* httpx's timeouts end every summary request, the event loop resumes what *)
(* is runnable, and the deadline fires.  Nothing is asked of the fan-out's *)
(* own requests.                                                           *)
Fairness == WF_vars(Discover) /\ WF_vars(Deadline) /\ WF_vars(Conclude)

Spec == Init /\ [][Next]_vars /\ Fairness
=============================================================================
