---------------------------- MODULE MCTableTools ----------------------------
(***************************************************************************)
(* An instance of TableTools for TLC: a URL-keyed table and one the        *)
(* configuration hides in one database, a table that is not keyed in       *)
(* another, each gone, hidden, or visible with one set of columns, rows    *)
(* and types or another.                                                   *)
(***************************************************************************)
EXTENDS TableToolsProperties

Hidden == [t \in {"keyed", "plain", "internal"} |-> {"id"}]

TwoDatabases == [t \in DOMAIN Hidden |-> IF t = "plain" THEN 2 ELSE 1]

Light == [t \in DOMAIN Hidden |-> IF t = "keyed" THEN {"title", "text"} ELSE {}]

DateIsInteger == [t \in DOMAIN Hidden |-> [c \in {"date"} |-> "INTEGER"]]

States3 ==
  {[hidden |-> FALSE, columns |-> {"id", "title", "text"}, rows |-> {1, 2}, types |-> << >>],
   [hidden |-> FALSE, columns |-> {"id", "title", "date"}, rows |-> {},
    types |-> [c \in {"date"} |-> "REAL"]],
   [hidden |-> TRUE, columns |-> {"id", "date"}, rows |-> {2}, types |-> << >>]}

Call(tool, t) ==
  [tool |-> tool, table |-> t, known |-> TRUE, limit |-> 1, sort |-> {}, filters |-> << >>,
   columns |-> << >>]

Query == Call("query_table", "keyed")

Where(column, op, value) == [column |-> column, op |-> op, value |-> value]

(* Filters that compile whatever is found, whatever is not found, with     *)
(* some types only, and never.                                             *)
Filters ==
  {<<Where("title", "text", "text"), Where("date", "order", v)>> :
     v \in {"int", "float", "huge", "integer_text", "text", "none"}}
  \cup {<<Where("date", "list", "nested"), Where("date", "order", "huge")>>,
        <<Where("title", "null", "none"), Where("title", "list", "flat")>>,
        <<Where("id", "text", "text")>>}

Calls ==
  {Call(tool, t) : tool \in {"describe_table", "fetch", "query_table"}, t \in Tables}
  \cup {Call("list_tables", "keyed"), Call("list_databases", "plain")}
  \cup {[Call(tool, "plain") EXCEPT !.known = FALSE] : tool \in {"list_tables", "query_table"}}
  \cup {[Query EXCEPT !.sort = s, !.columns = c] :
          s \in {{}, {"date"}}, c \in {<<{"title", "text"}>>, <<{"id"}>>}}
  \cup {[Query EXCEPT !.filters = f] : f \in Filters}
  \cup {[Query EXCEPT !.limit = 3]}
=============================================================================
