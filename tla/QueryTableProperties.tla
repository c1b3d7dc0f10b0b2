------------------------ MODULE QueryTableProperties ------------------------
(***************************************************************************)
(* What query_table promises to clients that walk documents while others   *)
(* do, lookups fail and the upstream's documents change.                   *)
(***************************************************************************)
EXTENDS QueryTable

Places == {"idle", "waiting", "resolved", "querying"} \cup Holding

Asked(c) == Requests[c] \cup {NoRequest}

(* A joined call's cursor carries no key of a document (FRAG-02).          *)
HidesKey(cursors) ==
  \A i \in DOMAIN cursors :
    cursors[i].walk.of # NoParent => cursors[i].id[1] = NoParent

(* The state of ParentPKCache and of the calls, and what cursors carry.    *)
TypeOK ==
  /\ LockTypeOK(Places)
  /\ DOMAIN entries \subseteq Urls
  /\ entries \in [DOMAIN entries -> [parent: Answers, expiry: Nat]]
  /\ parent \in [Callers -> Answers]
  /\ match \in [Urls -> Answers]
  /\ until \in [Urls -> [Answers -> Int]]
  /\ changes \in 0 .. MaxChanges
  /\ mono \in 0 .. MaxTime
  /\ request \in [Callers -> UNION {Asked(c) : c \in Callers}]
  /\ DOMAIN used = Callers /\ DOMAIN held = Callers
  /\ \A c \in Callers : request[c] \in Asked(c) /\ HidesKey(used[c]) /\ HidesKey(held[c])

(* Single flight: one lookup at a time, by the lock's owner, and only for  *)
(* a URL under which the cache has nothing to serve.                       *)
SingleFlight ==
  /\ Exclusive(Holding)
  /\ \A c \in Callers : pc[c] = "lookup" /\ normalize[Url(c)] \in DOMAIN entries
                          => Entry(Url(c)).expiry <= mono

(* The callers form one line for the cache's lock, and leave it in that    *)
(* order or by going away.                                                 *)
Lock == INSTANCE FairLock WITH line <- Line, at <- At(Holding)

ImplementsFairLock == Lock!Spec

Spellings(u) == {v \in Urls : normalize[v] = normalize[u]}

(* The upstream's answer for v was p at some moment of the last Ttl ticks. *)
Recently(v, p) == match[v] = p \/ mono - until[v][p] < Ttl

Resolves(c) == pc[c] \in Holding /\ pc'[c] = "resolved"

(* What a URL resolves to, a document or none, was the upstream's answer   *)
(* for some spelling of it no longer than the TTL ago, whoever looked it   *)
(* up and whatever was re-scraped since.                                   *)
ResolutionIsRecent ==
  [][\A c \in Callers :
       Resolves(c) => \E v \in Spellings(Url(c)) : Recently(v, parent'[c])]_vars

(* ParentPKCache.get's docstring: a negative hit means "no matching parent *)
(* upstream".                                                              *)
NoMatchIsReal ==
  [][\A c \in Callers :
       Resolves(c) /\ parent'[c] = NoParent => Recently(Url(c), NoParent)]_vars

SameDocument(q, a) == normalize[q.urls[1]] = normalize[a.urls[1]]

(* FRAG-04: as long as the document keeps its key and the sort is not      *)
(* changed, its pages neither overlap nor skip a fragment, whatever limit  *)
(* each was asked for, and the last one completes it.                      *)
WalkIsExact ==
  [][\A c \in Callers :
       GetRows(c) /\ (\A walk \in Before(c) : walk.steady /\ SameList(walk, c)) =>
         LET q == request[c]
             before == UNION {walk.seen : walk \in Before(c)}
             rest == Selected(q, parent[c]) \ (before \cup Given(c))
         IN  /\ Given(c) \cap before = {}
             /\ \A x \in rest, y \in Given(c) : Follows(q.sort, x, Column(q.sort, y), y)
             /\ held'[c] = << >> => rest = {}]_vars

(* D5-06, FRAG-02: the cursor of a joined call is bound to the document's  *)
(* URL and to the other filters, whatever the client changes between two   *)
(* pages; the next one it is given does not carry the document's key.      *)
CursorBindsFilters ==
  [][\A c \in Callers : GetRows(c) /\ Joined(request[c], parent[c]) =>
       /\ \A walk \in Before(c) :
            /\ NamesDocument(walk.asked)
            /\ SameDocument(request[c], walk.asked)
            /\ request[c].beyond = walk.asked.beyond
       /\ HidesKey(held'[c])]_vars

(* D5-06: and to nothing else: a client that repeats its request is never  *)
(* told that its cursor is invalid, even if the document was re-scraped    *)
(* under another key meanwhile, unless it appeared or disappeared.         *)
InvalidCursorMeansOtherRequest ==
  [][\A c \in Callers : RefuseCursor(c) =>
       \E walk \in Before(c) :
         \/ walk.asked # [request[c] EXCEPT !.limit = walk.asked.limit]
         \/ (walk.of = NoParent) # (parent[c] = NoParent)]_vars

(* query_table's description of cursor: "Reusing a cursor with a different *)
(* sort / filters / columns shape returns invalid_cursor".                 *)
CursorBindsSort ==
  [][\A c \in Callers : GetRows(c) =>
       \A walk \in Before(c) : walk.asked.sort = request[c].sort]_vars

(* Every call returns, even if the lookup it waits for fails or its caller *)
(* goes away.                                                              *)
CallsReturn == \A c \in Callers : pc[c] # "idle" ~> pc[c] = "idle"
=============================================================================
