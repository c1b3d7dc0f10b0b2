----------------------------- MODULE QueryTable -----------------------------
(***************************************************************************)
(* query_table (tools/retrieval.py) on a fragments table: the join of      *)
(* FragmentJoin, the cap on its pages, and the cursors (core/cursor.py) by *)
(* which a client walks a document page by page.                           *)
(*                                                                         *)
(* The arguments that shape a result are the URLs of exact filters on the  *)
(* parent's URL column, one other filter (only fragments beyond a number), *)
(* and the sort; a cursor's digest is taken to be injective.  Validation   *)
(* before the join changes nothing and is left out.  A fragment is <<p, k>>*)
(* for document p; its id is p and the suffix k.                           *)
(***************************************************************************)
EXTENDS FragmentJoin

CONSTANTS
  Fragments,    \* how many fragments each document has
  JoinCap,      \* the limit on joined calls (100)
  rowid         \* the upstream's insertion order of fragments

Rows == UNION {{<<p, k>> : k \in 1 .. Fragments[p]} : p \in Parents}

Sorts == {"none", "up", "down"}

ASSUME TableParameters ==
  /\ Fragments \in [Parents -> Nat]
  /\ rowid \in [Rows -> Nat]
  /\ IsFiniteSet(Rows)
  /\ \A c \in Callers :
       Requests[c] \subseteq [urls: Seq(Urls), sort: Sorts, beyond: Nat, limit: Nat \ {0}]
  /\ JoinCap \in Nat

VARIABLES
  used,       \* the cursor each call passes, if any
  held        \* the cursor each client was last given, if any

pageVars == <<used, held>>
vars == <<joinVars, pageVars>>

-----------------------------------------------------------------------------
(* The rewritten query and its shape, for a request q resolved to p.       *)

Joined(q, p) == NamesDocument(q) /\ p # NoParent

(* No document: compile_filter returns no filters at all.                  *)
Dropped(q, p) == NamesDocument(q) /\ p = NoParent

Selected(q, p) ==
  {r \in Rows : /\ Joined(q, p) => r[1] = p
                /\ ~Dropped(q, p) => r[2] > q.beyond}

(* Variants: the digest covers the key, not the URL; not the other filter. *)
ShapeByKey(q, p) ==
  IF Joined(q, p) THEN [sort |-> "none", urls |-> <<p>>, beyond |-> q.beyond]
  ELSE IF Dropped(q, p) THEN [sort |-> q.sort, urls |-> << >>, beyond |-> 0]
  ELSE [sort |-> q.sort, urls |-> q.urls, beyond |-> q.beyond]

ShapeOfUrl(q, p) ==
  IF Joined(q, p) THEN [sort |-> "none", urls |-> <<normalize[q.urls[1]]>>, beyond |-> 0]
  ELSE IF Dropped(q, p) THEN [sort |-> q.sort, urls |-> << >>, beyond |-> 0]
  ELSE [sort |-> q.sort, urls |-> q.urls, beyond |-> q.beyond]

(* canonical_shape_str.  A joined call passes None for its sort.           *)
Shape(q, p) ==
  IF Joined(q, p) THEN [sort |-> "none", urls |-> <<normalize[q.urls[1]]>>, beyond |-> q.beyond]
  ELSE IF Dropped(q, p) THEN [sort |-> q.sort, urls |-> << >>, beyond |-> 0]
  ELSE [sort |-> q.sort, urls |-> q.urls, beyond |-> q.beyond]

-----------------------------------------------------------------------------
(* Datasette's pages: sorted by the column, ties by id, resumed after the  *)
(* sort value and the id of the last row before.                           *)

Column(sort, r) == IF sort = "none" THEN rowid[r] ELSE r[2]

IdBefore(r, s) == r[1] < s[1] \/ (r[1] = s[1] /\ r[2] < s[2])

(* Row r follows the row with that column's value and that id.             *)
Follows(sort, r, value, id) ==
  \/ IF sort = "down" THEN Column(sort, r) < value ELSE Column(sort, r) > value
  \/ Column(sort, r) = value /\ IdBefore(id, r)

Page(sort, rows, limit) ==
  {r \in rows : Cardinality({s \in rows : Follows(sort, r, Column(sort, s), s)}) < limit}

LastOf(sort, rows) ==
  CHOOSE r \in rows : \A s \in rows : s = r \/ Follows(sort, r, Column(sort, s), s)

(* Variant: the suffix is sent as the id.                                  *)
DecodedBare(cursor, q, p) == cursor.id

(* The key is put back before the suffix of a joined call's cursor.        *)
Decoded(cursor, q, p) == IF Joined(q, p) THEN <<p, cursor.id[2]>> ELSE cursor.id

(* Variant: the whole id.                                                  *)
EncodedWhole(q, p, last, walk) ==
  [shape |-> Shape(q, p), value |-> Column(q.sort, last), id |-> last, walk |-> walk]

(* A joined call's cursor has the suffix only.  The walk is history: what  *)
(* was asked for, the document, the rows given so far, and whether every   *)
(* page of it was of that document in that order.                          *)
Encoded(q, p, last, walk) ==
  [shape |-> Shape(q, p), value |-> Column(q.sort, last),
   id |-> IF Joined(q, p) THEN <<NoParent, last[2]>> ELSE last, walk |-> walk]

(* The call goes on with the list of fragments a cursor was made for.      *)
SameList(walk, c) == walk.of = parent[c] /\ walk.asked.sort = request[c].sort

-----------------------------------------------------------------------------
(* A call.                                                                 *)

DropCursor(c) == used' = [used EXCEPT ![c] = << >>]

Over(c) ==
  /\ pc' = [pc EXCEPT ![c] = "idle"]
  /\ Forget(c)
  /\ DropCursor(c)
  /\ UNCHANGED <<cacheVars, upstreamVars, mono>>

(* With the cursor it has or without, for the same request or another.     *)
Call(c, q) ==
  /\ Enter(c, q)
  /\ \E cursor \in {<< >>, held[c]} : used' = [used EXCEPT ![c] = cursor]
  /\ UNCHANGED held

Joining(c) == Resolve(c) /\ UNCHANGED pageVars

JoinFails(c) == LookupFails(c) /\ DropCursor(c) /\ UNCHANGED held

OverCap(c) == Joined(request[c], parent[c]) /\ request[c].limit > JoinCap

InShape(c) == \A i \in DOMAIN used[c] : used[c][i].shape = Shape(request[c], parent[c])

(* invalid_filter_op, invalid_cursor.                                      *)
RefuseLimit(c) == pc[c] = "resolved" /\ OverCap(c) /\ Over(c) /\ UNCHANGED held

RefuseCursor(c) ==
  /\ pc[c] = "resolved" /\ ~OverCap(c) /\ ~InShape(c)
  /\ Over(c)
  /\ UNCHANGED held

SendQuery(c) ==
  /\ pc[c] = "resolved" /\ ~OverCap(c) /\ InShape(c)
  /\ pc' = [pc EXCEPT ![c] = "querying"]
  /\ UNCHANGED <<cacheVars, request, parent, upstreamVars, mono, pageVars>>

(* The rows the call's cursor leaves, and those of them it gives.          *)
Left(c) ==
  LET q == request[c]
      After(r, cursor) == Follows(q.sort, r, cursor.value, Decoded(cursor, q, parent[c]))
  IN  {r \in Selected(q, parent[c]) : \A i \in DOMAIN used[c] : After(r, used[c][i])}

Given(c) == Page(request[c].sort, Left(c), request[c].limit)

(* The walk the call's cursor belongs to, if it has one.                   *)
Before(c) == {used[c][i].walk : i \in DOMAIN used[c]}

Walk(c) ==
  [asked |-> request[c], of |-> parent[c],
   seen |-> Given(c) \cup UNION {walk.seen : walk \in Before(c)},
   steady |-> \A walk \in Before(c) : walk.steady /\ SameList(walk, c)]

(* There is a next page if there are more rows than the limit.             *)
GetRows(c) ==
  /\ pc[c] = "querying" /\ Len(request[c].urls) < 2
  /\ held' = [held EXCEPT ![c] =
       IF Given(c) = Left(c) THEN << >>
       ELSE <<Encoded(request[c], parent[c], LastOf(request[c].sort, Given(c)), Walk(c))>>]
  /\ Over(c)

(* Always, if several URL filters reached a table without that column.     *)
QueryFails(c) == pc[c] = "querying" /\ Over(c) /\ UNCHANGED held

Cancel(c) ==
  /\ \/ CancelJoin(c) /\ DropCursor(c)
     \/ pc[c] \in {"resolved", "querying"} /\ Over(c)
  /\ UNCHANGED held

-----------------------------------------------------------------------------
Init ==
  /\ JoinInit
  /\ used = [c \in Callers |-> << >>]
  /\ held = [c \in Callers |-> << >>]

Advance(c) ==
  \/ Joining(c) \/ JoinFails(c)
  \/ RefuseLimit(c) \/ RefuseCursor(c)
  \/ SendQuery(c) \/ GetRows(c) \/ QueryFails(c)

World ==
  /\ Tick \/ \E u \in Urls, p \in Answers : Rescrape(u, p)
  /\ UNCHANGED pageVars

Next ==
  \/ \E c \in Callers : (\E q \in Requests[c] : Call(c, q)) \/ Advance(c) \/ Cancel(c)
  \/ World

(* The event loop resumes every runnable task, and httpx's timeouts end    *)
(* every upstream request, one way or the other.                           *)
Fairness == \A c \in Callers : WF_vars(Advance(c))

Spec == Init /\ [][Next]_vars /\ Fairness
=============================================================================
