-------------------------- MODULE SearchProperties --------------------------
(***************************************************************************)
(* What a search promises while the upstream answers in any order, fails,  *)
(* runs out of time and changes.                                           *)
(***************************************************************************)
EXTENDS Search

(* Tables that had an index, and that were visible, at some moment of the  *)
(* call.                                                                   *)
Indexed == {t \in Tables : during[t] \cap {"searchable", "bare", "hidden"} # {}}
Shown == {t \in Tables : during[t] \ {"hidden", "gone"} # {}}

(* Tables that could be searched, and that were visible, at every moment.  *)
AlwaysSearchable == {t \in Tables : during[t] = {"searchable"}}
AlwaysShown == {t \in Tables : during[t] \cap {"hidden", "gone"} = {}}

(* The tables of the databases the call names.                             *)
TablesAsked ==
  UNION {{TablesOf[request.databases[i]][k] : k \in 1 .. Len(TablesOf[request.databases[i]])} :
         i \in DOMAIN request.databases}

AnsweredTasks == {i \in DOMAIN task : task[i] = "answered"}

(* The handler's locals, and those of fan_out_search.                      *)
TypeOK ==
  /\ upstream \in [Tables -> Kinds]
  /\ changes \in 0 .. MaxChanges
  /\ request \in Requests
  /\ phase \in Phases
  /\ left \subseteq DOMAIN request.databases
  /\ found \subseteq Nat
  /\ targets \in Seq(Tables)
  /\ phase \in {"searching", "rechecking"} => DOMAIN task = DOMAIN targets
  /\ task \in [DOMAIN task -> Running \cup Ended]
  /\ last \in [DOMAIN task -> Replies]
  /\ outRows \in [Tables -> Nat]
  /\ DOMAIN totals \subseteq Tables /\ totals \in [DOMAIN totals -> Nat]
  /\ rows \subseteq Tables \X Nat
  /\ checked \subseteq Databases
  /\ outcome \in Outcomes
  /\ seen \subseteq Tables
  /\ during \in [Tables -> SUBSET Kinds]

(* The semaphore (lines 344-351): never more than Permits upstream calls   *)
(* of this search are open, a sleeping retry included; no slot is idle     *)
(* while a task waits for one; and tasks get theirs in the targets' order. *)
SlotsConserved ==
  phase = "searching" =>
    /\ Cardinality(Holders) <= Permits
    /\ \A i \in DOMAIN task : task[i] = "queued" =>
         /\ Cardinality(Holders) = Permits
         /\ \A j \in DOMAIN task : i < j => task[j] = "queued"

(* D4-09 (c): a caller is told that the query is at fault only if its      *)
(* arguments are, or if every table answered a plain 400 to its last       *)
(* attempt, whatever it answered before.                                   *)
InvalidQueryMeansBadQuery ==
  outcome = "invalid_query" =>
    \/ request.blank \/ request.limit \notin 1 .. MaxLimit
    \/ targets # << >> /\ \A i \in DOMAIN targets : last[i] = "bad_request"

(* D4-07: failures and timeouts of some tables do not fail the search; it  *)
(* fails only if every table failed, and none merely ran out of time.      *)
PartialResults ==
  outcome \in {"invalid_query", "upstream_unavailable"} =>
    \A i \in DOMAIN targets : task[i] = "failed"

(* D4-13: a row is returned only if its table was visible at some moment   *)
(* after the upstream had answered, however late it was hidden or dropped. *)
NoRowOfHiddenTable == outcome = "envelope" => \A x \in rows : x[1] \in seen

(* The fts_table gate: Datasette ignores _search on a table without an     *)
(* index and returns its first rows.  No such row is passed off as a hit   *)
(* of a table that had no index at any moment of the call.                 *)
NoFakeHits == outcome = "envelope" => \A x \in rows : x[1] \in Indexed

(* Nothing is lost on the way: a table that passed the four gates at every *)
(* moment of the call is searched, however the others of its database and  *)
(* of the databases before it changed; and of the merged rows, those of a  *)
(* table that was visible throughout survive the re-checks of all          *)
(* databases.                                                              *)
NothingLost ==
  outcome = "envelope" =>
    /\ TablesAsked \cap AlwaysSearchable \subseteq {targets[i] : i \in DOMAIN targets}
    /\ {x \in Merged : x[1] \in AlwaysShown} \subseteq rows

(* D4-05: the merge takes as many rows as there are, up to the limit, and  *)
(* takes none of a rank at which another table's row was left out.         *)
MergeIsFair ==
  phase = "rechecking" /\ checked = {} =>
    /\ Cardinality(rows) = IF Cardinality(OutRows) <= request.limit
                           THEN Cardinality(OutRows) ELSE request.limit
    /\ rows \subseteq OutRows
    /\ \A x \in rows, y \in OutRows \ rows : x[2] <= y[2]

(* upstream_total_hits names exactly the tables that were answered, which  *)
(* is how a caller tells the failed ones (docstring of fan_out_search); a  *)
(* table mentioned twice is answered if one of its two tasks is.           *)
TotalsOfAnsweredTables ==
  outcome = "envelope" => DOMAIN totals = {targets[i] : i \in AnsweredTasks}

(* The re-check leaves upstream_total_hits alone: a table hidden meanwhile *)
(* is still named there.  But no table is that was hidden, or had no index *)
(* to search, throughout the call.                                         *)
TotalsOfSearchableTables ==
  outcome = "envelope" => DOMAIN totals \subseteq Shown \cap Indexed

(* What a caller may conclude from upstream_total_hits.                    *)
TotalsAreTrue == TotalsOfAnsweredTables /\ TotalsOfSearchableTables

(* fan_out_search's docstring: it "NEVER raises".                          *)
FanOutNeverRaises == outcome # "fan_out_raised"

(* Every call returns, even if no request of the fan-out is ever answered. *)
CallEnds == <>(phase = "done")
=============================================================================
