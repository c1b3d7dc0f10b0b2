----------------------- MODULE TableToolsProperties -----------------------
(***************************************************************************)
(* What the tools that read tables promise while the upstream changes      *)
(* between their reads.                                                    *)
(***************************************************************************)
EXTENDS TableTools

States == TableStates \cup {Gone}

(* The handler's locals and the history.                                   *)
TypeOK ==
  /\ upstream \in [Tables -> States] /\ during \in [Tables -> SUBSET States]
  /\ changes \in 0 .. MaxChanges
  /\ request \in Requests
  /\ phase \in Reading \cup {"called", "metadata", "done"}
  /\ columns \subseteq Columns /\ rows \subseteq RowIds
  /\ listed \subseteq Tables /\ pending \subseteq Databases
  /\ outcome \in Codes \cup {"none", "envelope", "raised"}
  /\ outcome = "none" <=> phase # "done"
  /\ failed \in BOOLEAN

Listing == Tool({"list_databases", "list_tables"})

WasVisible(t) == \E s \in during[t] : Visible(t, s)

(* DISC-05, D2-15: a table that is hidden, or missing, throughout a call   *)
(* is never listed or counted, and cannot be told from one that is not     *)
(* there: not by a row, a column, a "not found" nor "no URL column".       *)
NoSideChannel ==
  /\ \A t \in listed : WasVisible(t)
  /\ ~Listing /\ ~WasVisible(request.table) =>
       outcome \in {"none", "raised", "unknown_database", "unknown_table"}
       \/ request.limit \notin 1 .. MaxLimit

(* D2-10, D2-11, D3-07, FETCH-03: no hidden column leaves a tool or        *)
(* selects its rows, and no heavy one leaves fetch, whichever of its reads *)
(* it came with.                                                           *)
NoHiddenColumn ==
  outcome = "envelope" =>
    /\ (columns \cup Named) \cap HiddenColumns[request.table] = {}
    /\ Tool({"fetch"}) => columns \cap HeavyColumns = {}

(* Of the rows there are, the first ones, up to the limit: none is left    *)
(* out before one that is given.                                           *)
FirstOf(some, all, limit) ==
  /\ some \subseteq all
  /\ \A x \in all \ some, y \in some : y < x
  /\ Cardinality(some) = IF Cardinality(all) <= limit THEN Cardinality(all) ELSE limit

(* However its reads are spread over the changes of a table, what a call   *)
(* answers of it was true of it at one moment of the call: describe_table  *)
(* its columns and row count, fetch its first row and query_table its      *)
(* first rows, with all the columns they are given with.  Only an unusable *)
(* answer passes for no rows.                                              *)
TableAnswersAreSnapshots ==
  outcome = "envelope" /\ ~Listing =>
    \E s \in during[request.table] \ {Gone} :
      /\ columns \subseteq s.columns
      /\ Tool({"describe_table"}) =>
           rows = s.rows /\ columns = s.columns \ HiddenColumns[request.table]
      /\ Tool({"fetch"}) => FirstOf(rows, s.rows, 1) /\ rows # {}
      /\ Tool({"query_table"}) => FirstOf(rows, s.rows, request.limit) \/ (failed /\ rows = {})

AlwaysVisible(t) == \A s \in during[t] : Visible(t, s)

(* A list may be of several moments, and of tables that are gone by now.   *)
(* But every table of the databases it is about that was visible all along *)
(* is on it, in whichever order their summaries arrived.                   *)
ListsAreComplete ==
  outcome = "envelope" /\ Listing =>
    \A t \in Tables :
      AlwaysVisible(t)
        /\ (Tool({"list_tables"}) => DatabaseOf[t] = DatabaseOf[request.table])
        => t \in listed

(* What a caller may conclude from an answer.                              *)
AnswersAreSnapshots == TableAnswersAreSnapshots /\ ListsAreComplete

(* An error blames the caller only for what was wrong at some moment of    *)
(* the call, or what an unusable answer of the upstream made look wrong.   *)
ErrorsAreTrue ==
  LET past == during[request.table]
      There == past \ {Gone}
      TypesThen == {<< >>} \cup {s.types : s \in There}
  IN  /\ outcome = "unknown_database" => ~request.known
      /\ outcome = "unknown_table" => \E s \in past : ~Visible(request.table, s)
      /\ outcome = "unknown_column" =>
           \E s \in There : ~(Named \subseteq s.columns \ HiddenColumns[request.table])
      /\ outcome = "invalid_filter_op" =>
           \/ request.limit \notin 1 .. MaxLimit
           \/ \E types \in TypesThen, i \in DOMAIN request.filters :
                ~Compiles(FilterAt(i), TypeOf(FilterAt(i).column, types))
      /\ outcome = "not_found" => failed \/ \E s \in There : s.rows = {}
      /\ outcome = "upstream_unavailable" => failed
      /\ outcome = "raised" =>
           \/ failed \/ Gone \in past
           \/ \E types \in TypesThen, i \in DOMAIN request.filters :
                Overflows(FilterAt(i), TypeOf(FilterAt(i).column, types))

(* docs/errors.md: "the server will never emit a code outside this         *)
(* catalog".                                                               *)
ErrorsAreCataloged == outcome # "raised"

(* Every call ends, if each of its reads does.                             *)
CallEnds == <>(phase = "done")
=============================================================================
