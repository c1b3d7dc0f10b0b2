----------------------------- MODULE TableTools -----------------------------
(***************************************************************************)
(* One call of list_databases, list_tables, describe_table                 *)
(* (tools/discovery.py), fetch, or query_table on a table without a parent *)
(* (tools/retrieval.py), read by read, while the upstream's tables appear, *)
(* vanish, are hidden and change their columns and rows.  Calls share no   *)
(* state, so one is enough.                                                *)
(*                                                                         *)
(* Every read sees the upstream as it is when it is answered.  A table's   *)
(* rows are those that match the call's URL or filters, numbered in the    *)
(* order asked for, and its entry in _zeeker_schemas changes with it.      *)
(* Texts, licences and citations are left out, and so are cursors (see     *)
(* QueryTable); of the metadata there is only that it is awaited.          *)
(***************************************************************************)
EXTENDS FiniteSets, Integers, Sequences

CONSTANTS
  DatabaseOf,      \* config.ALLOWED_DATABASES, as a function on tables
  HiddenTables,    \* config.HIDDEN_TABLES
  UrlKeyed,        \* the tables of config.URL_COLUMNS
  HiddenColumns,   \* hidden_columns_for, as a function on tables
  LightColumns,    \* config.LIGHT_COLUMNS, {} where there are none
  HeavyColumns,    \* config.HEAVY_COLUMNS
  FallbackTypes,   \* config.COLUMN_TYPES: a function on some columns for each table
  MaxLimit,        \* config.MAX_QUERY_LIMIT
  Requests,        \* the calls that may be made
  TableStates,     \* what a table may be upstream
  Gone,            \* of a table that is not there
  MaxChanges       \* bound: changes of the upstream during the call

Tables == DOMAIN HiddenColumns

Databases == {DatabaseOf[t] : t \in Tables}

TablesIn(d) == {t \in Tables : DatabaseOf[t] = d}

Columns == UNION {s.columns : s \in TableStates}

RowIds == UNION {s.rows : s \in TableStates}

(* Operators by what compile_filters does with them: isnull and notnull,   *)
(* in and notin, the four orderings, and the rest.                         *)
Operators == {"null", "list", "order", "text"}

(* "huge" is an int beyond the floats, "integer_text" and "real_text" are  *)
(* strings that int() or only float() reads; a "flat" list is of scalars.  *)
Values == {"none", "int", "huge", "float", "bool", "integer_text", "real_text", "text",
           "flat", "nested"}

Filter == [column: Columns, op: Operators, value: Values]

(* A request may sort by a column, and asks for a set of columns or, with  *)
(* << >>, for the default ones.                                            *)
ASSUME ToolParameters ==
  /\ DOMAIN DatabaseOf = Tables /\ DOMAIN FallbackTypes = Tables
  /\ LightColumns \in [Tables -> SUBSET Columns]
  /\ HiddenTables \cup UrlKeyed \subseteq Tables
  /\ \A s \in TableStates : s.hidden \in BOOLEAN /\ IsFiniteSet(s.rows) /\ s.rows \subseteq Nat
  /\ \A r \in Requests : /\ r.tool \in {"list_databases", "list_tables", "describe_table", "fetch",
                                       "query_table"}
                         /\ r.table \in Tables /\ r.known \in BOOLEAN /\ r.limit \in Nat
                         /\ r.columns \in Seq(SUBSET Columns)
                         /\ r.filters \in Seq(Filter) /\ r.sort \in SUBSET Columns
                         /\ r.tool # "query_table" => r.columns = << >> /\ r.filters = << >>
                                                       /\ r.sort = {}
  /\ Gone \notin TableStates
  /\ {MaxLimit, MaxChanges} \subseteq Nat

VARIABLES
  upstream,   \* what each table is now
  changes,    \* how often that changed
  request,    \* the arguments of the call
  phase,      \* which read the handler awaits
  columns,    \* the columns it has so far for its answer
  rows,       \* the rows; for describe_table, those it counts
  listed,     \* the tables list_tables listed or list_databases counted
  pending,    \* the databases it has yet to read
  outcome,    \* how the call ended
  \* History, read by no guard.
  during,     \* what each table has been since the call began
  failed      \* whether a read failed or had an unusable answer

world == <<upstream, changes, during>>
lists == <<listed, pending>>
found == <<columns, rows, lists>>
vars == <<world, request, phase, found, outcome, failed>>

Reading == {"gathering", "resolve", "summary", "columns", "types", "rows"}

(* The codes of core/errors.py that these tools can raise.                 *)
Codes == {"unknown_database", "unknown_table", "unknown_column", "invalid_filter_op",
          "unsupported_table_for_fetch", "not_found", "upstream_unavailable"}

-----------------------------------------------------------------------------
(* Visibility.                                                             *)

Tool(names) == request.tool \in names

Visible(t, s) == s # Gone /\ ~s.hidden /\ t \notin HiddenTables

(* Variant: the denylist is not applied.                                   *)
ShownRaw(t, s) == s.columns

Shown(t, s) == s.columns \ HiddenColumns[t]

Now == upstream[request.table]

End(result) ==
  /\ phase' = "done"
  /\ outcome' = result

Go(next) == phase' = next /\ UNCHANGED outcome

-----------------------------------------------------------------------------
(* The reads.                                                              *)

Begin ==
  /\ phase = "called"
  /\ \/ Tool({"list_databases"}) /\ Go("gathering")
     \/ /\ Tool({"query_table"}) /\ request.limit \notin 1 .. MaxLimit
        /\ End("invalid_filter_op")
     \/ /\ ~Tool({"list_databases"})
        /\ Tool({"query_table"}) => request.limit \in 1 .. MaxLimit
        /\ IF ~request.known THEN End("unknown_database")
           ELSE Go(IF Tool({"list_tables"}) THEN "summary" ELSE "resolve")
  /\ UNCHANGED <<world, request, found, failed>>

(* What a call does once its table is known to be visible.                 *)
Resolved ==
  \/ Tool({"describe_table"}) /\ Go("summary")
  \/ Tool({"query_table"}) /\ Go("columns")
  \/ Tool({"fetch"}) /\ request.table \in UrlKeyed /\ Go("rows")
  \/ Tool({"fetch"}) /\ request.table \notin UrlKeyed /\ End("unsupported_table_for_fetch")

(* Variant: fetch looks at its own configuration first.                    *)
ResolveKeyedFirst ==
  /\ phase = "resolve"
  /\ IF Visible(request.table, Now) \/ (Tool({"fetch"}) /\ request.table \notin UrlKeyed)
     THEN Resolved
     ELSE End("unknown_table")
  /\ UNCHANGED <<world, request, found, failed>>

(* _resolve_table: a hidden table and a missing one take the same path.    *)
Resolve ==
  /\ phase = "resolve"
  /\ IF Visible(request.table, Now) THEN Resolved ELSE End("unknown_table")
  /\ UNCHANGED <<world, request, found, failed>>

VisibleIn(d) == {t \in TablesIn(d) : Visible(t, upstream[t])}

(* The reads of asyncio.gather, answered in any order.                     *)
ReadDatabase(d) ==
  /\ phase = "gathering" /\ d \in pending
  /\ listed' = listed \cup VisibleIn(d)
  /\ pending' = pending \ {d}
  /\ IF pending' = {} THEN End("envelope") ELSE Go("gathering")
  /\ UNCHANGED <<world, request, columns, rows, failed>>

ListTables ==
  /\ phase = "summary" /\ Tool({"list_tables"})
  /\ listed' = VisibleIn(DatabaseOf[request.table])
  /\ Go("metadata")
  /\ UNCHANGED <<world, request, columns, rows, pending, failed>>

(* The table has to be there still, hidden or not: next() raises           *)
(* StopIteration, which a coroutine turns into RuntimeError.               *)
Vanished ==
  /\ phase = "columns" \/ (phase = "summary" /\ Tool({"describe_table"}))
  /\ Now = Gone
  /\ End("raised")
  /\ UNCHANGED <<world, request, found, failed>>

DescribeTable ==
  /\ phase = "summary" /\ Tool({"describe_table"}) /\ Now # Gone
  /\ columns' = Shown(request.table, Now)
  /\ rows' = Now.rows
  /\ Go("types")
  /\ UNCHANGED <<world, request, lists, failed>>

(* The projection of query_table.                                          *)
Projection(shown) ==
  LET light == LightColumns[request.table]
  IN  IF request.columns # << >> THEN request.columns[1]
      ELSE (IF light # {} THEN light \cap shown ELSE shown) \ HeavyColumns

FilterAt(i) == request.filters[i]

Named ==
  request.sort \cup {FilterAt(i).column : i \in DOMAIN request.filters}
               \cup UNION {request.columns[i] : i \in DOMAIN request.columns}

ColumnsToQuery ==
  /\ phase = "columns" /\ Tool({"query_table"}) /\ Now # Gone
  /\ LET shown == Shown(request.table, Now)
     IN  \/ Named \subseteq shown /\ columns' = Projection(shown) /\ Go("types")
         \/ ~(Named \subseteq shown) /\ End("unknown_column") /\ UNCHANGED columns
  /\ UNCHANGED <<world, request, rows, lists, failed>>

(* Upstream types win over the configured ones.                            *)
TypeOf(c, types) ==
  IF c \in DOMAIN types THEN types[c]
  ELSE IF c \in DOMAIN FallbackTypes[request.table] THEN FallbackTypes[request.table][c]
  ELSE "TEXT"

(* float() of it raises OverflowError, which is caught nowhere.            *)
Overflows(f, type) == f.op = "order" /\ type = "REAL" /\ f.value = "huge"

(* One filter of compile_filters.                                          *)
Compiles(f, type) ==
  \/ f.op = "null"
  \/ f.op = "text" /\ f.value # "none"
  \/ f.op = "list" /\ f.value = "flat"
  \/ /\ f.op = "order" /\ f.value # "none"
     /\ type = "INTEGER" => f.value \in {"int", "huge", "integer_text"}
     /\ type = "REAL" => f.value \in {"int", "float", "bool", "integer_text", "real_text"}

(* compile_filters stops at the first filter it cannot compile.            *)
FirstBad(i, types) ==
  LET Bad(k) == ~Compiles(FilterAt(k), TypeOf(FilterAt(k).column, types))
  IN  Bad(i) /\ \A k \in DOMAIN request.filters : Bad(k) => i <= k

Compile(types) ==
  \/ (\A i \in DOMAIN request.filters : ~FirstBad(i, types)) /\ Go("rows")
  \/ \E i \in DOMAIN request.filters :
       /\ FirstBad(i, types)
       /\ End(IF Overflows(FilterAt(i), TypeOf(FilterAt(i).column, types))
              THEN "raised" ELSE "invalid_filter_op")

(* What the call does with the types it found.                             *)
Typed(types) ==
  \/ Tool({"describe_table"}) /\ Go("metadata")
  \/ Tool({"query_table"}) /\ Compile(types)

FoundTypes == IF Now = Gone THEN << >> ELSE Now.types

(* Variant: the read is tried until it finds types.                        *)
TypesOrWait ==
  /\ phase = "types"
  /\ \/ DOMAIN FoundTypes # {} /\ Typed(FoundTypes) /\ UNCHANGED failed
     \/ Go("types") /\ failed' = TRUE
  /\ UNCHANGED <<world, request, found>>

(* get_table_column_types: without an answer there are no types.  Types    *)
(* that are JSON but no object are found out when they are merged.         *)
ReadTypes ==
  /\ phase = "types"
  /\ \/ Typed(FoundTypes) /\ UNCHANGED failed
     \/ (Typed(<< >>) \/ End("raised")) /\ failed' = TRUE
  /\ UNCHANGED <<world, request, found>>

(* Datasette serves a hidden table's rows, but no column it does not have. *)
QueryRows ==
  /\ phase = "rows" /\ Tool({"query_table"})
  /\ Now # Gone /\ columns \subseteq Now.columns
  /\ rows' = {i \in Now.rows : Cardinality({j \in Now.rows : j < i}) < request.limit}
  /\ End("envelope")
  /\ UNCHANGED <<world, request, columns, lists, failed>>

(* The first of the rows with that URL, whole.                             *)
FetchRow ==
  /\ phase = "rows" /\ Tool({"fetch"}) /\ Now # Gone
  /\ \/ Now.rows = {} /\ End("not_found") /\ UNCHANGED <<columns, rows>>
     \/ /\ \E i \in Now.rows : (\A j \in Now.rows : i <= j) /\ rows' = {i}
        /\ columns' = Now.columns
        /\ Go("columns")
  /\ UNCHANGED <<world, request, lists, failed>>

(* Variant: columns the row does not have are made up.                     *)
FetchColumnsPadded ==
  /\ phase = "columns" /\ Tool({"fetch"}) /\ Now # Gone
  /\ columns' = Shown(request.table, Now) \ HeavyColumns
  /\ End("envelope")
  /\ UNCHANGED <<world, request, rows, lists, failed>>

(* What is visible by now of what the row has.                             *)
FetchColumns ==
  /\ phase = "columns" /\ Tool({"fetch"}) /\ Now # Gone
  /\ columns' = columns \cap (Shown(request.table, Now) \ HeavyColumns)
  /\ End("envelope")
  /\ UNCHANGED <<world, request, rows, lists, failed>>

(* Variant: a summary that cannot be read counts as one without the table. *)
ReadFailsAsUnknown ==
  /\ phase \in Reading \ {"types"}
  /\ End(IF phase = "rows" THEN "upstream_unavailable" ELSE "unknown_table")
  /\ failed' = TRUE
  /\ UNCHANGED <<world, request, found>>

(* UpstreamCallFailed is caught around the rows only; a body that is not   *)
(* JSON, or not a summary, is caught nowhere.                              *)
ReadFails ==
  /\ phase \in Reading \ {"types"}
  /\ \/ phase = "rows" /\ End("upstream_unavailable")
     \/ End("raised")
  /\ failed' = TRUE
  /\ UNCHANGED <<world, request, found>>

(* A body without rows is one with none.                                   *)
HollowRows ==
  /\ phase = "rows"
  /\ rows' = {}
  /\ End(IF Tool({"fetch"}) THEN "not_found" ELSE "envelope")
  /\ failed' = TRUE
  /\ UNCHANGED <<world, request, columns, lists>>

(* MetadataCache answers every lookup, with None if need be.               *)
Describe ==
  /\ phase = "metadata"
  /\ End("envelope")
  /\ UNCHANGED <<world, request, found, failed>>

-----------------------------------------------------------------------------
Alter(t, s) ==
  /\ phase # "done" /\ changes < MaxChanges /\ upstream[t] # s
  /\ upstream' = [upstream EXCEPT ![t] = s]
  /\ changes' = changes + 1
  /\ during' = [during EXCEPT ![t] = @ \cup {s}]
  /\ UNCHANGED <<request, phase, found, outcome, failed>>

Init ==
  /\ upstream \in [Tables -> TableStates \cup {Gone}]
  /\ changes = 0
  /\ request \in Requests
  /\ phase = "called"
  /\ columns = {} /\ rows = {} /\ listed = {} /\ pending = Databases
  /\ outcome = "none"
  /\ during = [t \in Tables |-> {upstream[t]}]
  /\ failed = FALSE

Advance ==
  \/ Begin \/ Resolve \/ (\E d \in Databases : ReadDatabase(d))
  \/ ListTables \/ DescribeTable \/ ColumnsToQuery \/ ReadTypes
  \/ QueryRows \/ FetchRow \/ FetchColumns \/ Describe
  \/ Vanished \/ ReadFails \/ HollowRows

(* The call is over; nothing is left to do.                                *)
Returned == phase = "done" /\ UNCHANGED vars

Next ==
  \/ Advance
  \/ \E t \in Tables, s \in TableStates \cup {Gone} : Alter(t, s)
  \/ Returned

(* httpx's timeouts end every upstream request, one way or the other, and  *)
(* the metadata cache answers (MetadataCacheProperties!CallsReturn).       *)
Fairness == WF_vars(Advance)

Spec == Init /\ [][Next]_vars /\ Fairness
=============================================================================
