-------------------------- MODULE TableToolsProofs --------------------------
(***************************************************************************)
(* For any tables, configuration and requests, and however often the       *)
(* upstream changes: hidden tables and columns stay hidden, answers are    *)
(* snapshots, and errors are true.                                         *)
(***************************************************************************)
EXTENDS TableToolsProperties, FiniteSetTheorems, TLAPS

Past == during[request.table]

(* What is so now has been so.                                             *)
Remembered == \A t \in Tables : upstream[t] \in during[t]

(* Only the listing tools read on without having seen their table visible. *)
Found ==
  /\ Listing => phase \in {"called", "gathering", "summary", "metadata", "done"}
  /\ ~Listing =>
       phase \in {"called", "resolve", "done"} \/ WasVisible(request.table)

(* Until then a call has no rows, and query_table has none until its end.  *)
NoRowsYet ==
  \/ phase \in {"called", "resolve", "summary"}
  \/ phase \in {"columns", "types"} /\ Tool({"query_table"})
  \/ phase = "rows"
  => rows = {}

(* The phases in which the columns are those of the answer, or, for fetch, *)
(* a superset of them.                                                     *)
HasColumns ==
  \/ phase = "types" \/ (phase = "metadata" /\ ~Listing)
  \/ phase = "columns" /\ Tool({"fetch"})
  \/ phase = "rows" /\ Tool({"query_table"})

Snapshot ==
  \E s \in Past \ {Gone} :
    /\ columns \subseteq s.columns
    /\ Tool({"describe_table"}) =>
         rows = s.rows /\ columns = s.columns \ HiddenColumns[request.table]
    /\ Tool({"fetch"}) => FirstOf(rows, s.rows, 1) /\ rows # {}

Clean == (columns \cup Named) \cap HiddenColumns[request.table] = {}

(* Which reads a tool makes, and what its columns are worth behind them.   *)
Stage ==
  /\ Listing => columns = {}
  /\ phase = "gathering" => Tool({"list_databases"})
  /\ phase = "rows" => Tool({"fetch", "query_table"})
  /\ phase = "columns" => Tool({"fetch", "query_table"})
  /\ phase = "types" => Tool({"describe_table", "query_table"})
  /\ phase = "metadata" => Tool({"list_tables", "describe_table"})
  /\ HasColumns => Snapshot
  /\ HasColumns /\ ~Tool({"fetch"}) => Clean

IInv ==
  /\ TypeOK /\ Remembered /\ Found /\ NoRowsYet /\ Stage
  /\ NoSideChannel /\ NoHiddenColumn /\ TableAnswersAreSnapshots /\ ErrorsAreTrue

-----------------------------------------------------------------------------
LEMMA Parameters ==
  ASSUME NEW r \in Requests
  PROVE  /\ r.tool \in {"list_databases", "list_tables", "describe_table", "fetch", "query_table"}
         /\ r.table \in Tables /\ r.limit \in Nat
         /\ r.tool # "query_table" => r.sort = {} /\ r.columns = << >> /\ r.filters = << >>
         /\ r.columns # << >> => 1 \in DOMAIN r.columns /\ r.columns[1] \subseteq Columns
  BY ToolParameters

LEMMA StateHas ==
  ASSUME NEW s \in TableStates
  PROVE  s.columns \subseteq Columns /\ s.rows \subseteq RowIds /\ s # Gone
  BY ToolParameters DEF Columns, RowIds

LEMMA InitialInterval ==
  ASSUME NEW n \in Nat
  PROVE  IsFiniteSet(0 .. n - 1) /\ Cardinality(0 .. n - 1) = n
  <1>1. 0 \in Int /\ n - 1 \in Int
    OBVIOUS
  <1>2. /\ IsFiniteSet(0 .. n - 1)
        /\ Cardinality(0 .. n - 1) = IF 0 > n - 1 THEN 0 ELSE n - 1 - 0 + 1
    BY <1>1, FS_Interval
  <1>3. QED
    BY <1>2

(* How many numbers of S are below i.                                      *)
Below(S, i) == {j \in S : j < i}
Rank(S, i) == Cardinality(Below(S, i))

LEMMA RankTyped ==
  ASSUME NEW S \in SUBSET Nat, IsFiniteSet(S), NEW i \in S
  PROVE  /\ IsFiniteSet(Below(S, i)) /\ Rank(S, i) \in Nat
         /\ Cardinality(S) \in Nat /\ Rank(S, i) < Cardinality(S)
  <1>1. Below(S, i) \subseteq S /\ i \notin Below(S, i)
    BY DEF Below
  <1>2. IsFiniteSet(Below(S, i)) /\ Rank(S, i) <= Cardinality(S)
    BY <1>1, FS_Subset DEF Rank
  <1>3. Rank(S, i) # Cardinality(S)
    BY <1>1, FS_Subset DEF Rank
  <1>4. QED
    BY <1>2, <1>3, FS_CardinalityType DEF Rank

LEMMA RankGrows ==
  ASSUME NEW S \in SUBSET Nat, IsFiniteSet(S), NEW i \in S, NEW k \in S, i < k
  PROVE  Rank(S, i) < Rank(S, k)
  <1>1. i \in Nat /\ k \in Nat /\ \A j \in S : j \in Nat
    OBVIOUS
  <1>2. Below(S, i) \subseteq Below(S, k) /\ i \in Below(S, k) /\ i \notin Below(S, i)
    <2>1. ASSUME NEW j \in Below(S, i) PROVE j \in Below(S, k)
      <3>1. j \in S /\ j \in Nat /\ j < i
        BY <1>1 DEF Below
      <3>2. j < k
        BY <1>1, <3>1
      <3>3. QED
        BY <3>1, <3>2 DEF Below
    <2>2. i \in Below(S, k) /\ i \notin Below(S, i)
      BY <1>1 DEF Below
    <2>3. QED
      BY <2>1, <2>2
  <1>3. IsFiniteSet(Below(S, k))
    BY RankTyped
  <1>4. Rank(S, i) <= Rank(S, k) /\ Rank(S, i) # Rank(S, k)
    BY <1>2, <1>3, FS_Subset DEF Rank
  <1>5. QED
    BY <1>4, RankTyped

LEMMA RankInjective ==
  ASSUME NEW S \in SUBSET Nat, IsFiniteSet(S), NEW i \in S, NEW k \in S,
         Rank(S, i) = Rank(S, k)
  PROVE  i = k
  <1>1. i \in Nat /\ k \in Nat /\ Rank(S, i) \in Nat
    BY RankTyped
  <1>2. ~(i < k) /\ ~(k < i)
    BY <1>1, RankGrows
  <1>3. QED
    BY <1>1, <1>2

(* The ranks are all the numbers below the size of S.                      *)
LEMMA RankOnto ==
  ASSUME NEW S \in SUBSET Nat, IsFiniteSet(S), NEW r \in 0 .. Cardinality(S) - 1
  PROVE  \E i \in S : Rank(S, i) = r
  <1> DEFINE N == Cardinality(S)
             f == [i \in S |-> Rank(S, i)]
  <1>1. N \in Nat
    BY FS_CardinalityType
  <1>2. IsFiniteSet(0 .. N - 1) /\ Cardinality(0 .. N - 1) = N
    BY <1>1, InitialInterval
  <1>3. f \in [S -> 0 .. N - 1]
    BY <1>1, RankTyped
  <1>4. f \in Injection(S, 0 .. N - 1)
    BY <1>3, RankInjective DEF Injection, IsInjective
  <1>5. f \in Surjection(S, 0 .. N - 1)
    BY <1>2, <1>4, FS_Injection
  <1>6. PICK i \in S : f[i] = r
    BY <1>5 DEF Surjection
  <1>7. QED
    BY <1>6

(* The numbers with fewer than n below them are the first n.               *)
LEMMA FirstByRank ==
  ASSUME NEW S \in SUBSET Nat, IsFiniteSet(S), NEW n \in Nat
  PROVE  FirstOf({i \in S : Cardinality({j \in S : j < i}) < n}, S, n)
  <1> DEFINE F == {i \in S : Rank(S, i) < n}
             N == Cardinality(S)
  <1>1. N \in Nat
    BY FS_CardinalityType
  <1>2. \A x \in S \ F, y \in F : y < x
    <2> SUFFICES ASSUME NEW x \in S \ F, NEW y \in F, ~(y < x) PROVE FALSE
      OBVIOUS
    <2>1. x \in S /\ y \in S /\ x \in Nat /\ y \in Nat /\ ~(Rank(S, x) < n) /\ Rank(S, y) < n
      OBVIOUS
    <2>2. x < y
      <3>1. x # y
        BY <2>1
      <3>2. QED
        BY <2>1, <3>1
    <2>3. Rank(S, x) < Rank(S, y) /\ Rank(S, x) \in Nat /\ Rank(S, y) \in Nat
      BY <2>1, <2>2, RankGrows, RankTyped
    <2>4. QED
      BY <2>1, <2>3
  <1>3. Cardinality(F) = IF N <= n THEN N ELSE n
    <2>1. CASE N <= n
      <3>1. \A i \in S : Rank(S, i) < n
        BY <1>1, <2>1, RankTyped
      <3>2. F = S
        BY <3>1
      <3>3. QED
        BY <2>1, <3>2
    <2>2. CASE ~(N <= n)
      <3> DEFINE g == [i \in F |-> Rank(S, i)]
      <3>1. g \in [F -> 0 .. n - 1]
        <4>1. \A i \in F : Rank(S, i) \in Nat /\ Rank(S, i) < n
          BY RankTyped
        <4>2. \A i \in F : Rank(S, i) \in 0 .. n - 1
          BY <4>1
        <4>3. QED
          BY <4>2
      <3>2. g \in Injection(F, 0 .. n - 1)
        BY <3>1, RankInjective DEF Injection, IsInjective
      <3>3. ASSUME NEW r \in 0 .. n - 1 PROVE \E i \in F : g[i] = r
        <4>1. r \in 0 .. N - 1 /\ r < n
          BY <1>1, <2>2
        <4>2. PICK i \in S : Rank(S, i) = r
          BY <4>1, RankOnto
        <4>3. i \in F
          BY <4>1, <4>2
        <4>4. QED
          BY <4>2, <4>3
      <3>4. g \in Surjection(F, 0 .. n - 1)
        BY <3>1, <3>3 DEF Surjection
      <3>5. IsFiniteSet(0 .. n - 1) /\ Cardinality(0 .. n - 1) = n
        BY InitialInterval
      <3>6. Cardinality(F) = Cardinality(0 .. n - 1)
        BY <3>2, <3>4, <3>5, FS_Injection
      <3>7. QED
        BY <2>2, <3>5, <3>6
    <2>3. QED
      BY <2>1, <2>2
  <1>4. F = {i \in S : Cardinality({j \in S : j < i}) < n}
    BY DEF Rank, Below
  <1>5. FirstOf(F, S, n)
    BY <1>2, <1>3 DEF FirstOf
  <1>6. QED
    BY <1>4, <1>5

(* The least of some numbers is their first.                               *)
LEMMA LeastIsFirst ==
  ASSUME NEW S \in SUBSET Nat, IsFiniteSet(S), NEW i \in S, \A j \in S : i <= j
  PROVE  FirstOf({i}, S, 1)
  <1>1. Cardinality({i}) = 1 /\ IsFiniteSet({i})
    BY FS_Singleton
  <1>2. 1 <= Cardinality(S) /\ Cardinality(S) \in Nat
    <2>1. {i} \subseteq S
      OBVIOUS
    <2>2. Cardinality({i}) <= Cardinality(S)
      BY <2>1, FS_Subset
    <2>3. QED
      BY <1>1, <2>2, FS_CardinalityType
  <1>3. \A x \in S \ {i}, y \in {i} : y < x
    OBVIOUS
  <1>4. QED
    BY <1>1, <1>2, <1>3 DEF FirstOf

LEMMA BeginKeeps ==
  ASSUME IInv, Begin
  PROVE  IInv'
  <1>1. TypeOK'
    BY DEF world, found, End, Go, Begin, IInv, TypeOK, Codes, Reading, lists
  <1>2. Remembered' /\ Found'
    BY DEF world, found, Tool, End, Go, Begin, IInv, TypeOK, Remembered, Found, WasVisible,
       Listing, lists
  <1>3. NoRowsYet'
    BY DEF world, found, Tool, End, Go, Begin, IInv, NoRowsYet, Found, Stage, Listing, lists
  <1>4. Stage'
    BY DEF world, found, Tool, End, Go, Begin, IInv, Stage, HasColumns, Listing, lists
  <1>5. NoSideChannel'
    BY DEF world, found, Tool, Now, End, Go, Begin, IInv, TypeOK, NoSideChannel, WasVisible,
       Visible, Listing, lists
  <1>6. NoHiddenColumn'
    BY DEF Tool, world, found, End, Go, Begin, IInv, TypeOK, HasColumns, Clean, NoHiddenColumn,
       Listing, lists
  <1>7. TableAnswersAreSnapshots'
    BY DEF Tool, Now, End, Go, Begin, IInv, TypeOK, HasColumns, TableAnswersAreSnapshots, Listing
  <1>8. ErrorsAreTrue'
    BY DEF End, Go, Begin, IInv, TypeOK, States, ErrorsAreTrue, Shown, TypeOf, FilterAt,
       Overflows, Compiles
  <1>9. QED
    BY <1>1, <1>2, <1>3, <1>4, <1>5, <1>6, <1>7, <1>8 DEF IInv

LEMMA ResolveKeeps ==
  ASSUME IInv, Resolve
  PROVE  IInv'
  <1>1. TypeOK'
    BY DEF world, found, End, Go, Resolve, Resolved, IInv, TypeOK, Codes, Reading, lists
  <1>2. Remembered' /\ Found'
    BY Parameters DEF world, found, Tool, Now, End, Go, Resolve, Resolved, Visible, IInv, TypeOK,
       Remembered, Found, WasVisible, Listing, lists
  <1>3. NoRowsYet'
    BY Parameters DEF world, found, Tool, Now, End, Resolve, IInv, NoRowsYet, Found, Stage,
       Listing, lists
  <1>4. Stage'
    BY DEF world, found, Tool, End, Go, Resolve, Resolved, Visible, IInv, Stage, HasColumns,
       Listing, lists
  <1>5. NoSideChannel'
    BY Parameters DEF world, found, Tool, Now, End, Go, Resolve, Resolved, Visible, IInv, TypeOK,
       Remembered, NoSideChannel, WasVisible, Listing, lists
  <1>6. NoHiddenColumn'
    BY Parameters DEF Tool, world, found, Now, End, Go, Resolve, Resolved, IInv, TypeOK, Found,
       HasColumns, Clean, NoHiddenColumn, Listing, lists
  <1>7. TableAnswersAreSnapshots'
    BY DEF Tool, Now, End, Go, Resolve, Resolved, Visible, IInv, TypeOK, HasColumns,
       TableAnswersAreSnapshots, Listing
  <1>8. ErrorsAreTrue'
    BY Parameters DEF world, Now, End, Go, Resolve, Resolved, Visible, IInv, TypeOK, States,
       Remembered, ErrorsAreTrue, lists, TypeOf, FilterAt, Overflows, Compiles
  <1>9. QED
    BY <1>1, <1>2, <1>3, <1>4, <1>5, <1>6, <1>7, <1>8 DEF IInv

LEMMA ReadDatabaseKeeps ==
  ASSUME IInv, NEW d \in Databases, ReadDatabase(d)
  PROVE  IInv'
  <1>1. TypeOK'
    BY DEF world, found, lists, Tool, Listing, Now, End, Go, ReadDatabase, VisibleIn, TablesIn,
       Visible, IInv, TypeOK, Codes, Reading
  <1>2. Remembered' /\ Found'
    BY DEF world, found, lists, Tool, Listing, Now, End, Go, ReadDatabase, VisibleIn, TablesIn,
       Visible, IInv, TypeOK, Remembered, Found, WasVisible, Stage
  <1>3. NoRowsYet'
    BY DEF world, found, lists, Tool, Listing, Now, End, Go, ReadDatabase, VisibleIn, TablesIn,
       Visible, IInv, NoRowsYet, Found, Stage
  <1>4. Stage'
    BY DEF world, found, lists, Tool, Listing, Now, End, Go, ReadDatabase, VisibleIn, TablesIn,
       Visible, IInv, Stage, HasColumns
  <1>5. NoSideChannel'
    BY Parameters DEF world, found, lists, Tool, Listing, Now, End, Go, ReadDatabase, VisibleIn,
       TablesIn, Visible, IInv, TypeOK, Remembered, NoSideChannel, WasVisible, Stage
  <1>6. NoHiddenColumn'
    BY Parameters DEF world, found, lists, Tool, Listing, Now, End, Go, ReadDatabase, VisibleIn,
       TablesIn, Visible, IInv, TypeOK, Stage, NoHiddenColumn, Named, FilterAt
  <1>7. TableAnswersAreSnapshots'
    BY DEF world, found, lists, Tool, Listing, Now, End, Go, ReadDatabase, VisibleIn, TablesIn,
       Visible, IInv, TypeOK, TableAnswersAreSnapshots, Stage
  <1>8. ErrorsAreTrue'
    BY DEF world, found, lists, Tool, Listing, Now, End, Go, ReadDatabase, VisibleIn, TablesIn,
       Visible, IInv, TypeOK, ErrorsAreTrue, TypeOf, FilterAt
  <1>9. QED
    BY <1>1, <1>2, <1>3, <1>4, <1>5, <1>6, <1>7, <1>8 DEF IInv

LEMMA ListTablesKeeps ==
  ASSUME IInv, ListTables
  PROVE  IInv'
  <1>1. TypeOK'
    BY DEF world, Go, ListTables, IInv, TypeOK, lists, VisibleIn, TablesIn
  <1>2. Remembered' /\ Found'
    BY DEF world, found, Tool, Go, ListTables, Visible, IInv, TypeOK, Remembered, Found, Listing,
       lists
  <1>3. NoRowsYet'
    BY DEF world, Tool, Go, ListTables, IInv, NoRowsYet, Found, Stage, Listing, lists
  <1>4. Stage'
    BY DEF Tool, Go, ListTables, IInv, Stage, HasColumns, Listing
  <1>5. NoSideChannel'
    BY DEF Tool, world, Now, Go, ListTables, Visible, IInv, TypeOK, Remembered, NoSideChannel,
       WasVisible, Listing, lists, VisibleIn, TablesIn
  <1>6. NoHiddenColumn'
    BY DEF Tool, world, Go, ListTables, IInv, TypeOK, Found, HasColumns, Clean, NoHiddenColumn,
       Listing, lists
  <1>7. TableAnswersAreSnapshots'
    BY DEF Tool, End, Go, ListTables, Visible, IInv, TypeOK, HasColumns, TableAnswersAreSnapshots,
       Listing
  <1>8. ErrorsAreTrue'
    BY DEF Go, ListTables, Visible, IInv, TypeOK, States, ErrorsAreTrue, TypeOf, FilterAt,
       Overflows, Compiles
  <1>9. QED
    BY <1>1, <1>2, <1>3, <1>4, <1>5, <1>6, <1>7, <1>8 DEF IInv

LEMMA DescribeTableKeeps ==
  ASSUME IInv, DescribeTable
  PROVE  IInv'
  <1>1. TypeOK'
    BY Parameters, StateHas DEF world, Now, Go, DescribeTable, Shown, IInv, TypeOK, Reading,
       States, lists
  <1>2. Remembered' /\ Found'
    BY Parameters DEF vars, world, found, Tool, End, DescribeTable, Shown, IInv, TypeOK,
       Remembered, Found, WasVisible, Reading, Listing, lists
  <1>3. NoRowsYet'
    BY DEF world, Tool, Go, DescribeTable, IInv, NoRowsYet, Found, Stage, Listing, lists
  <1>4. Stage'
    BY Parameters DEF world, found, Tool, Now, End, Go, DescribeTable, Shown, IInv, TypeOK,
       Remembered, Stage, Snapshot, Past, Clean, Named, Listing, lists, FilterAt
  <1>5. NoSideChannel'
    BY Parameters DEF Tool, world, found, Now, End, Go, DescribeTable, Shown, IInv, TypeOK,
       Remembered, NoSideChannel, WasVisible, Visible, Listing, lists
  <1>6. NoHiddenColumn'
    BY DEF Tool, world, Go, DescribeTable, IInv, TypeOK, HasColumns, Clean, NoHiddenColumn,
       Listing, lists
  <1>7. TableAnswersAreSnapshots'
    BY DEF Tool, End, Go, DescribeTable, Shown, IInv, TypeOK, HasColumns, TableAnswersAreSnapshots,
       Listing
  <1>8. ErrorsAreTrue'
    BY DEF Go, DescribeTable, Shown, IInv, TypeOK, States, ErrorsAreTrue, TypeOf, FilterAt,
       Overflows, Compiles
  <1>9. QED
    BY <1>1, <1>2, <1>3, <1>4, <1>5, <1>6, <1>7, <1>8 DEF IInv

LEMMA ColumnsToQueryKeeps ==
  ASSUME IInv, ColumnsToQuery
  PROVE  IInv'
  <1>1. TypeOK'
    BY Parameters, StateHas DEF world, Now, End, Go, ColumnsToQuery, Shown, Projection, IInv,
       TypeOK, Codes, Reading, States, lists
  <1>2. Remembered' /\ Found'
    BY Parameters DEF vars, world, found, Tool, End, Go, ColumnsToQuery, Shown, Projection, Named,
       IInv, TypeOK, Remembered, Found, WasVisible, Reading, Listing, lists, FilterAt
  <1>3. NoRowsYet'
    BY DEF world, Tool, ColumnsToQuery, IInv, NoRowsYet, Found, Stage, Listing, lists
  <1>4. Stage'
    BY Parameters DEF world, Tool, Now, End, Go, ColumnsToQuery, Shown, Projection, Named, IInv,
       TypeOK, Remembered, NoRowsYet, Stage, HasColumns, Snapshot, Past, Clean, Listing, lists,
       FilterAt
  <1>5. NoSideChannel'
    BY Parameters DEF Tool, world, found, Now, End, Go, ColumnsToQuery, Shown, Projection, Named,
       IInv, TypeOK, Remembered, Found, NoSideChannel, WasVisible, Visible, Listing, lists,
       FilterAt
  <1>6. NoHiddenColumn'
    BY DEF Tool, world, End, Go, ColumnsToQuery, IInv, TypeOK, Stage, HasColumns, Clean,
       NoHiddenColumn, Listing, lists
  <1>7. TableAnswersAreSnapshots'
    BY DEF Tool, Now, End, Go, ColumnsToQuery, Named, IInv, TypeOK, HasColumns,
       TableAnswersAreSnapshots, Listing, FilterAt
  <1>8. ErrorsAreTrue'
    BY Parameters DEF world, Now, End, Go, ColumnsToQuery, Shown, Named, IInv, TypeOK, States,
       Remembered, ErrorsAreTrue, lists, FilterAt, TypeOf, Overflows, Compiles
  <1>9. QED
    BY <1>1, <1>2, <1>3, <1>4, <1>5, <1>6, <1>7, <1>8 DEF IInv

(* The types a call may have compiled its filters with.                    *)
TypesSeen == {<< >>} \cup {s.types : s \in Past \ {Gone}}

TypeAt(i, types) == TypeOf(FilterAt(i).column, types)

(* How a call goes on from the types, and why it ends there if it does.    *)
Moves ==
  \/ Tool({"describe_table"}) /\ Go("metadata")
  \/ Tool({"query_table"}) /\ Go("rows")
  \/ /\ Tool({"query_table"}) /\ End("invalid_filter_op")
     /\ \E types \in TypesSeen, i \in DOMAIN request.filters :
          ~Compiles(FilterAt(i), TypeAt(i, types))
  \/ /\ End("raised")
     /\ \/ failed'
        \/ \E types \in TypesSeen, i \in DOMAIN request.filters :
             Overflows(FilterAt(i), TypeAt(i, types))

LEMMA TypedMoves ==
  ASSUME NEW types \in TypesSeen, Typed(types)
  PROVE  Moves
  <1>1. CASE Tool({"describe_table"}) /\ Go("metadata")
    BY <1>1 DEF Moves
  <1>2. CASE Tool({"query_table"}) /\ Compile(types)
    <2>1. CASE Go("rows")
      BY <1>2, <2>1 DEF Moves
    <2>2. CASE \E i \in DOMAIN request.filters :
                 /\ ~Compiles(FilterAt(i), TypeAt(i, types))
                 /\ End(IF Overflows(FilterAt(i), TypeAt(i, types))
                        THEN "raised" ELSE "invalid_filter_op")
      BY <1>2, <2>2 DEF Moves
    <2>3. QED
      BY <1>2, <2>1, <2>2 DEF Compile, FirstBad, TypeAt
  <1>3. QED
    BY <1>1, <1>2 DEF Typed

LEMMA ReadTypesKeeps ==
  ASSUME IInv, ReadTypes
  PROVE  IInv'
  <1>1. FoundTypes \in TypesSeen /\ << >> \in TypesSeen
    BY Parameters DEF FoundTypes, TypesSeen, Now, Past, IInv, TypeOK, Remembered
  <1>2. Moves
    BY <1>1, TypedMoves DEF ReadTypes, Moves
  <1>3. TypeOK'
    BY <1>2 DEF Tool, Listing, Moves, Go, End, ReadTypes, world, found, lists, IInv, TypeOK,
       Codes, Reading
  <1>4. Remembered' /\ Found'
    BY <1>2 DEF Tool, Listing, Moves, Go, End, ReadTypes, world, found, lists, IInv, Remembered,
       Found, WasVisible
  <1>5. NoRowsYet'
    BY <1>2 DEF Tool, Listing, Moves, Go, End, ReadTypes, world, found, lists, IInv, NoRowsYet,
       Stage
  <1>6. Stage'
    BY <1>2 DEF Tool, Listing, Moves, Go, End, ReadTypes, world, found, lists, IInv, Stage,
       HasColumns, Snapshot, Past, Clean, Named, FilterAt
  <1>7. NoSideChannel'
    BY <1>2, Parameters DEF Tool, Listing, Moves, Go, End, ReadTypes, world, found, lists, IInv,
       TypeOK, Found, NoSideChannel, WasVisible
  <1>8. NoHiddenColumn' /\ TableAnswersAreSnapshots'
    BY <1>2 DEF Tool, Listing, Moves, Go, End, ReadTypes, world, found, lists, IInv, TypeOK,
       NoHiddenColumn, TableAnswersAreSnapshots
  <1>9. ErrorsAreTrue'
    <2>1. TypesSeen' = TypesSeen /\ request' = request
      BY DEF ReadTypes, world, TypesSeen, Past
    <2>2. \A types, i : /\ FilterAt(i)' = FilterAt(i)
                       /\ TypeAt(i, types)' = TypeAt(i, types)
      BY <2>1 DEF FilterAt, TypeAt, TypeOf
    <2>3. CASE outcome' \notin {"invalid_filter_op", "raised"}
      <3>1. outcome' = "none"
        BY <1>2, <2>3 DEF Moves, Go, End, ReadTypes, IInv, TypeOK
      <3>2. QED
        BY <3>1 DEF ErrorsAreTrue
    <2>4. CASE /\ outcome' = "invalid_filter_op"
               /\ \E types \in TypesSeen, i \in DOMAIN request.filters :
                    ~Compiles(FilterAt(i), TypeAt(i, types))
      <3>1. \E types \in TypesSeen', i \in DOMAIN request'.filters :
              ~Compiles(FilterAt(i)', TypeAt(i, types)')
        BY <2>1, <2>2, <2>4
      <3>2. QED
        BY <2>4, <3>1 DEF ErrorsAreTrue, TypesSeen, Past, TypeAt
    <2>5. CASE outcome' = "raised" /\ failed'
      BY <2>5 DEF ErrorsAreTrue
    <2>6. CASE /\ outcome' = "raised"
               /\ \E types \in TypesSeen, i \in DOMAIN request.filters :
                    Overflows(FilterAt(i), TypeAt(i, types))
      <3>1. \E types \in TypesSeen', i \in DOMAIN request'.filters :
              Overflows(FilterAt(i)', TypeAt(i, types)')
        BY <2>1, <2>2, <2>6
      <3>2. QED
        BY <2>6, <3>1 DEF ErrorsAreTrue, TypesSeen, Past, TypeAt
    <2>7. QED
      BY <1>2, <2>3, <2>4, <2>5, <2>6 DEF Moves, Go, End, ReadTypes, IInv, TypeOK
  <1>10. QED
    BY <1>3, <1>4, <1>5, <1>6, <1>7, <1>8, <1>9 DEF IInv

LEMMA QueryRowsKeeps ==
  ASSUME IInv, QueryRows
  PROVE  IInv'
  <1>1. TypeOK'
    BY Parameters, StateHas DEF world, Now, End, QueryRows, IInv, TypeOK, States, lists
  <1>2. Remembered' /\ Found'
    BY Parameters DEF Tool, vars, world, found, End, Go, QueryRows, IInv, TypeOK, Remembered,
       Found, Reading, Listing, lists
  <1>3. NoRowsYet'
    BY DEF Tool, world, End, QueryRows, IInv, NoRowsYet, Found, Stage, Listing, lists
  <1>4. Stage'
    BY DEF Tool, Now, End, Go, QueryRows, IInv, Stage, HasColumns, Listing
  <1>5. NoSideChannel'
    BY DEF Tool, world, Now, Go, QueryRows, IInv, Found, NoSideChannel, WasVisible, Visible,
       Listing, lists
  <1>6. NoHiddenColumn'
    BY DEF world, Tool, QueryRows, IInv, Stage, HasColumns, Clean, NoHiddenColumn, Named, Listing,
       lists, FilterAt
  <1>7. TableAnswersAreSnapshots'
    <2>1. Now \in TableStates /\ Now \in during[request.table] /\ request.limit \in Nat
      BY Parameters DEF QueryRows, Now, IInv, TypeOK, States, Remembered
    <2>2. FirstOf(rows', Now.rows, request.limit)
      BY <2>1, ToolParameters, FirstByRank DEF QueryRows
    <2>3. ~Tool({"fetch"}) /\ ~Tool({"describe_table"})
      BY DEF QueryRows, Tool
    <2>4. UNCHANGED <<request, during, columns>> /\ columns \subseteq Now.columns /\ Now # Gone
      BY DEF QueryRows, world
    <2>5. QED
      BY <2>1, <2>2, <2>3, <2>4 DEF TableAnswersAreSnapshots, Tool
  <1>8. ErrorsAreTrue'
    BY Parameters DEF found, Now, End, QueryRows, IInv, TypeOK, States, NoRowsYet, ErrorsAreTrue,
       Shown, lists, TypeOf, FilterAt, Overflows, Compiles
  <1>9. QED
    BY <1>1, <1>2, <1>3, <1>4, <1>5, <1>6, <1>7, <1>8 DEF IInv

LEMMA FetchRowKeeps ==
  ASSUME IInv, FetchRow
  PROVE  IInv'
  <1>1. TypeOK'
    BY Parameters, StateHas DEF world, Now, End, Go, FetchRow, IInv, TypeOK, Codes, Reading,
       States, lists
  <1>2. Remembered' /\ Found'
    BY Parameters DEF vars, world, found, Tool, End, Go, FetchRow, IInv, TypeOK, Remembered,
       Found, WasVisible, Reading, Listing, lists
  <1>3. NoRowsYet'
    BY DEF world, Tool, Go, FetchRow, IInv, NoRowsYet, Found, Stage, Listing, lists
  <1>4. Stage'
    <2>1. Now \in TableStates /\ Now \in Past
      BY Parameters DEF FetchRow, Now, Past, IInv, TypeOK, States, Remembered
    <2>2. UNCHANGED <<request, during>> /\ Past' = Past /\ Now # Gone
      BY DEF FetchRow, world, Past
    <2>3. phase' = "columns" => columns' = Now.columns /\ FirstOf(rows', Now.rows, 1) /\ rows' # {}
      BY <2>1, ToolParameters, LeastIsFirst DEF FetchRow, End
    <2>4. Snapshot' \/ phase' = "done"
      <3>1. Tool({"fetch"}) /\ phase' \in {"columns", "done"}
        BY DEF FetchRow, End, Go
      <3>2. ~Tool({"describe_table"})'
        BY <2>2, <3>1 DEF Tool
      <3>3. QED
        BY <2>1, <2>2, <2>3, <3>1, <3>2 DEF Snapshot
    <2>5. QED
      BY <2>2, <2>4 DEF FetchRow, Tool, Listing, End, Go, IInv, Stage, HasColumns
  <1>5. NoSideChannel'
    BY Parameters DEF Tool, world, found, Now, End, Go, FetchRow, IInv, TypeOK, Remembered, Found,
       NoSideChannel, WasVisible, Visible, Listing, lists
  <1>6. NoHiddenColumn'
    BY DEF Tool, world, End, Go, FetchRow, IInv, TypeOK, Stage, HasColumns, Clean, NoHiddenColumn,
       Listing, lists
  <1>7. TableAnswersAreSnapshots'
    BY DEF Tool, Now, End, Go, FetchRow, IInv, TypeOK, HasColumns, TableAnswersAreSnapshots, Listing
  <1>8. ErrorsAreTrue'
    BY Parameters DEF world, Now, End, Go, FetchRow, IInv, TypeOK, States, Remembered,
       ErrorsAreTrue, Shown, lists, TypeOf, FilterAt, Overflows, Compiles
  <1>9. QED
    BY <1>1, <1>2, <1>3, <1>4, <1>5, <1>6, <1>7, <1>8 DEF IInv

LEMMA FetchColumnsKeeps ==
  ASSUME IInv, FetchColumns
  PROVE  IInv'
  <1>1. TypeOK'
    BY DEF world, End, FetchColumns, IInv, TypeOK, lists
  <1>2. Remembered' /\ Found'
    BY DEF Tool, world, found, End, Go, FetchColumns, Shown, IInv, TypeOK, Remembered, Found,
       Listing, lists
  <1>3. NoRowsYet'
    BY DEF Tool, world, End, FetchColumns, IInv, NoRowsYet, Found, Stage, Listing, lists
  <1>4. Stage'
    BY DEF Tool, Now, End, Go, FetchColumns, IInv, Stage, HasColumns, Listing
  <1>5. NoSideChannel'
    BY DEF Tool, world, Now, Go, FetchColumns, Shown, IInv, Found, NoSideChannel, WasVisible,
       Visible, Listing, lists
  <1>6. NoHiddenColumn'
    BY Parameters DEF world, Tool, FetchColumns, Shown, IInv, TypeOK, Stage, HasColumns, Clean,
       NoHiddenColumn, Named, Listing, lists, FilterAt
  <1>7. TableAnswersAreSnapshots'
    BY Parameters DEF world, found, Tool, Go, FetchColumns, Shown, IInv, Stage, HasColumns,
       Snapshot, Past, TableAnswersAreSnapshots, Listing, lists
  <1>8. ErrorsAreTrue'
    BY DEF found, Now, End, FetchColumns, Shown, TypeOK, Stage, ErrorsAreTrue, Visible, Named,
       lists, FilterAt, TypeOf, Overflows, Compiles
  <1>9. QED
    BY <1>1, <1>2, <1>3, <1>4, <1>5, <1>6, <1>7, <1>8 DEF IInv

LEMMA DescribeKeeps ==
  ASSUME IInv, Describe
  PROVE  IInv'
  <1>1. TypeOK'
    BY DEF world, found, End, Describe, IInv, TypeOK, lists
  <1>2. Remembered' /\ Found'
    BY DEF world, found, Tool, End, Go, Describe, IInv, TypeOK, Remembered, Found, Listing, lists
  <1>3. NoRowsYet'
    BY DEF Tool, world, End, Describe, IInv, NoRowsYet, Found, Stage, Listing, lists
  <1>4. Stage'
    BY DEF found, Tool, Now, End, Go, Describe, IInv, Stage, HasColumns, Listing, lists
  <1>5. NoSideChannel'
    BY DEF world, found, Tool, Now, Go, Describe, IInv, TypeOK, Found, NoSideChannel, WasVisible,
       Visible, Listing, lists
  <1>6. NoHiddenColumn'
    BY Parameters DEF world, found, Tool, Describe, IInv, TypeOK, Stage, HasColumns, Clean,
       NoHiddenColumn, Named, Listing, lists, FilterAt
  <1>7. TableAnswersAreSnapshots'
    BY Parameters DEF world, found, Tool, Go, Describe, IInv, States, Remembered, Stage,
       HasColumns, Snapshot, Past, TableAnswersAreSnapshots, Listing, lists
  <1>8. ErrorsAreTrue'
    BY DEF found, Tool, Now, End, Describe, IInv, TypeOK, Stage, ErrorsAreTrue, Visible, Named,
       Shown, Listing, lists, FilterAt, TypeOf, Overflows, Compiles
  <1>9. QED
    BY <1>1, <1>2, <1>3, <1>4, <1>5, <1>6, <1>7, <1>8 DEF IInv

LEMMA VanishedKeeps ==
  ASSUME IInv, Vanished
  PROVE  IInv'
  <1>1. TypeOK'
    BY DEF world, found, End, Vanished, IInv, TypeOK, lists
  <1>2. Remembered' /\ Found'
    BY DEF world, found, Tool, Go, Vanished, IInv, TypeOK, Remembered, Found, WasVisible, Listing,
       lists
  <1>3. NoRowsYet'
    BY DEF Tool, world, End, Vanished, IInv, NoRowsYet, Found, Stage, Listing, lists
  <1>4. Stage'
    BY DEF Tool, Now, End, Go, Vanished, IInv, Stage, HasColumns, Listing
  <1>5. NoSideChannel'
    BY DEF Tool, world, found, Now, End, Go, Vanished, IInv, TypeOK, NoSideChannel, WasVisible,
       Visible, Listing, lists
  <1>6. NoHiddenColumn'
    BY DEF Tool, world, found, End, Vanished, IInv, HasColumns, Clean, NoHiddenColumn, Listing,
       lists
  <1>7. TableAnswersAreSnapshots'
    BY DEF Tool, Now, End, Go, Vanished, HasColumns, TableAnswersAreSnapshots, Listing
  <1>8. ErrorsAreTrue'
    BY Parameters DEF world, Now, End, Go, Vanished, IInv, TypeOK, Remembered, ErrorsAreTrue,
       Shown, lists, TypeOf, FilterAt, Overflows, Compiles
  <1>9. QED
    BY <1>1, <1>2, <1>3, <1>4, <1>5, <1>6, <1>7, <1>8 DEF IInv

LEMMA ReadFailsKeeps ==
  ASSUME IInv, ReadFails
  PROVE  IInv'
  <1>1. TypeOK'
    BY DEF world, found, End, ReadFails, IInv, TypeOK, Codes, lists
  <1>2. Remembered' /\ Found'
    BY DEF world, found, Tool, End, Go, ReadFails, Reading, IInv, TypeOK, Remembered, Found,
       Listing, lists
  <1>3. NoRowsYet'
    BY DEF Tool, world, End, ReadFails, IInv, NoRowsYet, Found, Stage, Listing, lists
  <1>4. Stage'
    BY DEF found, Tool, Now, End, Go, ReadFails, IInv, Stage, HasColumns, Listing, lists
  <1>5. NoSideChannel'
    BY DEF world, found, Tool, Now, End, Go, ReadFails, Reading, IInv, TypeOK, Found,
       NoSideChannel, WasVisible, Visible, Listing, lists
  <1>6. NoHiddenColumn'
    BY DEF Tool, world, found, End, ReadFails, IInv, Stage, HasColumns, Clean, NoHiddenColumn,
       Listing, lists
  <1>7. TableAnswersAreSnapshots'
    BY DEF Tool, Now, End, Go, ReadFails, HasColumns, TableAnswersAreSnapshots, Listing
  <1>8. ErrorsAreTrue'
    BY DEF End, Go, ReadFails, Reading, ErrorsAreTrue, Shown, TypeOf, FilterAt, Overflows, Compiles
  <1>9. QED
    BY <1>1, <1>2, <1>3, <1>4, <1>5, <1>6, <1>7, <1>8 DEF IInv

LEMMA HollowRowsKeeps ==
  ASSUME IInv, HollowRows
  PROVE  IInv'
  <1>1. TypeOK'
    BY DEF world, End, HollowRows, IInv, TypeOK, Codes, lists
  <1>2. Remembered' /\ Found'
    BY DEF Tool, world, found, End, Go, HollowRows, IInv, TypeOK, Remembered, Found, Listing, lists
  <1>3. NoRowsYet'
    BY DEF Tool, world, End, HollowRows, IInv, NoRowsYet, Found, Stage, Listing, lists
  <1>4. Stage'
    BY DEF Tool, End, Go, HollowRows, IInv, Stage, HasColumns, Listing
  <1>5. NoSideChannel'
    BY DEF Tool, world, Now, Go, HollowRows, IInv, TypeOK, Found, NoSideChannel, WasVisible,
       Visible, Listing, lists
  <1>6. NoHiddenColumn'
    BY DEF world, Tool, End, HollowRows, IInv, Stage, HasColumns, Clean, NoHiddenColumn, Named,
       Listing, lists, FilterAt
  <1>7. TableAnswersAreSnapshots'
    BY DEF world, found, Tool, Now, End, Go, HollowRows, IInv, States, Remembered, Stage,
       HasColumns, Snapshot, Past, TableAnswersAreSnapshots, Listing, lists
  <1>8. ErrorsAreTrue'
    BY DEF found, Now, End, Go, HollowRows, IInv, TypeOK, Stage, ErrorsAreTrue, Visible, Named,
       Shown, lists, FilterAt, TypeOf, Overflows, Compiles
  <1>9. QED
    BY <1>1, <1>2, <1>3, <1>4, <1>5, <1>6, <1>7, <1>8 DEF IInv

LEMMA AlterKeeps ==
  ASSUME IInv, NEW t \in Tables, NEW s \in States, Alter(t, s)
  PROVE  IInv'
  <1>1. Past \subseteq Past' /\ \A u \in Tables : during[u] \subseteq during'[u]
    BY DEF Alter, Past
  <1>2. \A u \in Tables : WasVisible(u) => WasVisible(u)'
    BY <1>1 DEF WasVisible
  <1>3. TypeOK'
    BY ToolParameters DEF Alter, found, IInv, TypeOK, lists
  <1>4. Remembered'
    BY DEF Alter, IInv, TypeOK, Remembered
  <1>5. Found'
    BY <1>2, Parameters DEF Alter, found, IInv, TypeOK, Found, Tool, Listing, lists
  <1>6. NoRowsYet'
    BY DEF Alter, found, IInv, NoRowsYet, Tool, Listing, lists
  <1>7. Stage'
    BY <1>1 DEF Alter, found, IInv, Stage, HasColumns, Snapshot, Clean, Named, Tool, Listing,
       lists, FilterAt
  <1>8. NoSideChannel'
    BY <1>2, Parameters DEF Alter, found, IInv, TypeOK, NoSideChannel, Tool, Listing, lists
  <1>9. NoHiddenColumn' /\ TableAnswersAreSnapshots' /\ ErrorsAreTrue'
    BY DEF Tool, Alter, IInv, TypeOK, NoHiddenColumn, TableAnswersAreSnapshots, ErrorsAreTrue, Listing,
       TypeOf, FilterAt, Overflows, Compiles
  <1>10. QED
    BY <1>3, <1>4, <1>5, <1>6, <1>7, <1>8, <1>9 DEF IInv

LEMMA InitInv == Init => IInv
  <1> SUFFICES ASSUME Init PROVE IInv
    OBVIOUS
  <1>1. MaxChanges \in Nat
    BY ToolParameters
  <1>2. upstream \in [Tables -> States] /\ during \in [Tables -> SUBSET States]
    BY DEF Init, States
  <1>3. /\ changes \in 0 .. MaxChanges
        /\ columns \subseteq Columns /\ rows \subseteq RowIds /\ listed \subseteq Tables
    BY <1>1 DEF Init
  <1>4. phase # "done" /\ outcome = "none" /\ failed \in BOOLEAN
    BY DEF Init
  <1>5. TypeOK
    BY <1>2, <1>3, <1>4 DEF Init, TypeOK
  <1>6. QED
    BY <1>5, Parameters DEF Init, IInv, Remembered, Found, NoRowsYet, Stage, HasColumns, Tool,
       NoSideChannel, NoHiddenColumn, TableAnswersAreSnapshots, ErrorsAreTrue, Listing, TypeOf,
       FilterAt, Overflows, Compiles

LEMMA StepInv == IInv /\ [Next]_vars => IInv'
  <1> SUFFICES ASSUME IInv, [Next]_vars PROVE IInv'
    OBVIOUS
  <1>1. CASE Advance
    BY <1>1, BeginKeeps, ReadDatabaseKeeps, ResolveKeeps, ListTablesKeeps, DescribeTableKeeps,
       ColumnsToQueryKeeps, ReadTypesKeeps, QueryRowsKeeps, FetchRowKeeps, FetchColumnsKeeps,
       DescribeKeeps, VanishedKeeps, ReadFailsKeeps, HollowRowsKeeps DEF Advance
  <1>2. CASE \E t \in Tables, s \in States : Alter(t, s)
    BY <1>2, AlterKeeps
  <1>3. CASE UNCHANGED vars
    BY <1>3 DEF vars, world, found, IInv, TypeOK, Remembered, Found, NoRowsYet, Stage, HasColumns,
       Snapshot, Past, Clean, Named, Tool, WasVisible, NoSideChannel, NoHiddenColumn,
       TableAnswersAreSnapshots, ErrorsAreTrue, Listing, lists, FilterAt, TypeOf, Overflows, Compiles
  <1>4. QED
    BY <1>1, <1>2, <1>3 DEF Next, Returned, States

LEMMA Invariance == Spec => []IInv
  BY InitInv, StepInv, PTL DEF Spec

-----------------------------------------------------------------------------
(* Lists.                                                                  *)

(* A table that was visible all along is listed once its database is read. *)
Listed ==
  /\ Tool({"list_databases"}) =>
       \A t \in Tables : AlwaysVisible(t) => t \in listed \/ DatabaseOf[t] \in pending
  /\ Tool({"list_tables"}) /\ phase = "metadata" =>
       \A t \in Tables :
         AlwaysVisible(t) /\ DatabaseOf[t] = DatabaseOf[request.table] => t \in listed
  /\ ListsAreComplete

LEMMA AlwaysVisibleNow ==
  ASSUME IInv, NEW t \in Tables, AlwaysVisible(t)
  PROVE  Visible(t, upstream[t])
  BY DEF IInv, Remembered, AlwaysVisible

LEMMA ReadDatabaseLists ==
  ASSUME IInv, Listed, NEW d \in Databases, ReadDatabase(d) PROVE Listed'
  <1>1. UNCHANGED <<request, during>> /\ Tool({"list_databases"}) /\ ~Tool({"list_tables"})
    BY DEF ReadDatabase, IInv, Stage, Tool, world
  <1>2. \A t : AlwaysVisible(t)' <=> AlwaysVisible(t)
    BY <1>1 DEF AlwaysVisible
  <1>3. ASSUME NEW t \in Tables, AlwaysVisible(t) PROVE t \in listed' \/ DatabaseOf[t] \in pending'
    <2>1. CASE DatabaseOf[t] = d
      BY <1>3, <2>1, AlwaysVisibleNow DEF ReadDatabase, VisibleIn, TablesIn
    <2>2. CASE DatabaseOf[t] # d
      BY <1>1, <1>3, <2>2 DEF ReadDatabase, Listed
    <2>3. QED
      BY <2>1, <2>2
  <1>4. outcome' = "envelope" => pending' = {}
    BY DEF ReadDatabase, Go, IInv, TypeOK
  <1>5. QED
    BY <1>1, <1>2, <1>3, <1>4 DEF Listed, ListsAreComplete, Tool

LEMMA ListTablesLists ==
  ASSUME IInv, Listed, ListTables PROVE Listed'
  <1>1. /\ UNCHANGED <<request, during>> /\ Tool({"list_tables"}) /\ ~Tool({"list_databases"})
        /\ outcome' # "envelope"
    BY DEF ListTables, Tool, world, Go, IInv, TypeOK
  <1>2. \A t : AlwaysVisible(t)' <=> AlwaysVisible(t)
    BY <1>1 DEF AlwaysVisible
  <1>3. ASSUME NEW t \in Tables, AlwaysVisible(t), DatabaseOf[t] = DatabaseOf[request.table]
        PROVE  t \in listed'
    BY <1>3, AlwaysVisibleNow DEF ListTables, VisibleIn, TablesIn
  <1>4. QED
    BY <1>1, <1>2, <1>3 DEF Listed, ListsAreComplete, Tool

(* The other reads leave the lists alone, and only Describe ends one.      *)
LEMMA OthersList ==
  ASSUME IInv, Listed, UNCHANGED <<request, during, listed, pending>>,
         phase' = "metadata" => ~Tool({"list_tables"}),
         outcome' = "envelope" => ~Listing \/ Describe
  PROVE  Listed'
  <1>1. \A t : AlwaysVisible(t)' <=> AlwaysVisible(t)
    BY DEF AlwaysVisible
  <1>2. Describe /\ Listing => Tool({"list_tables"}) /\ phase = "metadata"
    BY DEF Describe, IInv, Stage, Tool, Listing
  <1>3. ListsAreComplete'
    BY <1>1, <1>2 DEF Listed, ListsAreComplete, Tool, Listing
  <1>4. QED
    BY <1>1, <1>3 DEF Listed, Tool

LEMMA ListedStep ==
  ASSUME IInv, Listed, [Next]_vars PROVE Listed'
  <1>1. CASE \/ Begin \/ Resolve \/ DescribeTable \/ ColumnsToQuery \/ ReadTypes \/ QueryRows
             \/ FetchRow \/ FetchColumns \/ Describe \/ Vanished \/ ReadFails \/ HollowRows
    <2>1. UNCHANGED <<request, during, listed, pending>>
      BY <1>1 DEF Begin, Resolve, DescribeTable, ColumnsToQuery, ReadTypes, QueryRows, FetchRow,
           FetchColumns, Describe, Vanished, ReadFails, HollowRows, world, found, lists
    <2>2. phase' = "metadata" => ~Tool({"list_tables"})
      BY <1>1 DEF Begin, Resolve, Resolved, DescribeTable, ColumnsToQuery, ReadTypes, Typed,
           Compile, QueryRows, FetchRow, FetchColumns, Describe, Vanished, ReadFails, HollowRows,
           End, Go, Tool
    <2>3. outcome' = "envelope" => ~Listing \/ Describe
      <3>1. CASE Begin \/ Resolve \/ Vanished \/ ReadFails
        BY <3>1 DEF Begin, Resolve, Resolved, Vanished, ReadFails, End, Go, IInv, TypeOK
      <3>2. CASE DescribeTable \/ ColumnsToQuery \/ QueryRows \/ FetchRow \/ FetchColumns
        BY <3>2 DEF DescribeTable, ColumnsToQuery, QueryRows, FetchRow, FetchColumns, Listing, Tool
      <3>3. CASE ReadTypes \/ HollowRows
        BY <3>3 DEF ReadTypes, HollowRows, IInv, Found
      <3>4. QED
        BY <1>1, <3>1, <3>2, <3>3
    <2>4. QED
      BY <2>1, <2>2, <2>3, OthersList
  <1>2. ASSUME NEW t \in Tables, NEW s \in States, Alter(t, s) PROVE Listed'
    <2>1. UNCHANGED <<request, phase, listed, pending, outcome>> /\ outcome # "envelope"
      BY <1>2 DEF Alter, found, lists, IInv, TypeOK
    <2>2. \A u \in Tables : AlwaysVisible(u)' => AlwaysVisible(u)
      BY <1>2 DEF Alter, AlwaysVisible, IInv, TypeOK
    <2>3. QED
      BY <2>1, <2>2 DEF Listed, ListsAreComplete, Tool
  <1>3. CASE UNCHANGED vars
    BY <1>3 DEF vars, world, found, lists, Listed, ListsAreComplete, AlwaysVisible, Tool, Listing
  <1>4. QED
    BY <1>1, <1>2, <1>3, ReadDatabaseLists, ListTablesLists DEF Next, Advance, Returned, States

LEMMA ListsAlways == Spec => []ListsAreComplete
  <1>1. Init => Listed
    <2> SUFFICES ASSUME Init PROVE Listed
      OBVIOUS
    <2>1. \A t \in Tables : DatabaseOf[t] \in pending
      BY DEF Init, Databases
    <2>2. QED
      BY <2>1 DEF Init, Listed, ListsAreComplete
  <1>2. IInv /\ Listed /\ [Next]_vars => Listed'
    BY ListedStep
  <1>3. Listed => ListsAreComplete
    BY DEF Listed
  <1>4. QED
    BY <1>1, <1>2, <1>3, Invariance, PTL DEF Spec

-----------------------------------------------------------------------------
(* The handler's locals keep their types, and a call ends with a result.   *)
THEOREM TypeCorrect == Spec => []TypeOK
  BY Invariance, PTL DEF IInv

(* No read of _resolve_table's callers, however late, sets a table that is *)
(* hidden all along apart from one that does not exist.                    *)
THEOREM NoSideChannelHolds == Spec => []NoSideChannel
  BY Invariance, PTL DEF IInv

(* _visible_columns is behind every column that selects or shows rows.     *)
THEOREM NoHiddenColumnHolds == Spec => []NoHiddenColumn
  BY Invariance, PTL DEF IInv

(* Two or three reads answer as one would have at some moment of the call, *)
(* and a list misses no table that was there throughout.                   *)
THEOREM AnswersAreSnapshotsHolds == Spec => []AnswersAreSnapshots
  <1>1. IInv /\ ListsAreComplete => AnswersAreSnapshots
    BY DEF IInv, AnswersAreSnapshots
  <1>2. QED
    BY <1>1, Invariance, ListsAlways, PTL

(* What the tools raise was so, unless a read failed.                      *)
THEOREM ErrorsAreTrueHolds == Spec => []ErrorsAreTrue
  BY Invariance, PTL DEF IInv
=============================================================================
