-------------------------- MODULE QueryTableProofs --------------------------
(***************************************************************************)
(* For any callers, URLs, documents and TTL: lookups are single-flight and *)
(* resolutions are no older than the TTL.  For any fragments and limits:   *)
(* cursors carry no key, bind what they should, and walk a document        *)
(* exactly.                                                                *)
(***************************************************************************)
EXTENDS QueryTableProperties, AnyioLockProofs, FiniteSetTheorems

Running == {"resolved", "querying"}

(* A call on its way through the join names one document, and only such a  *)
(* call is ever given one's key.                                           *)
Underway ==
  \A c \in Callers :
    /\ pc[c] # "idle" => request[c] \in Requests[c]
    /\ pc[c] \in Holding \cup {"waiting"} => NamesDocument(request[c])
    /\ parent[c] # NoParent => pc[c] \in Running /\ NamesDocument(request[c])

Typed == TypeOK /\ Underway

LEMMA PlacesDistinct ==
  /\ Holding = {"locked", "lookup"} /\ Running = {"resolved", "querying"}
  /\ Places = {"idle", "waiting", "resolved", "querying", "locked", "lookup"}
  BY DEF Holding, Running, Places

LEMMA UrlIsSpelling ==
  ASSUME Typed, NEW c \in Callers, pc[c] \in Holding \cup {"waiting"}
  PROVE  Url(c) \in Urls /\ normalize[Url(c)] \in Urls
  <1>1. request[c] \in Requests[c] /\ Len(request[c].urls) = 1
    BY DEF Typed, Underway, Holding, NamesDocument
  <1>2. request[c].urls \in Seq(Urls)
    BY <1>1, JoinParameters
  <1>3. QED
    BY <1>1, <1>2, JoinParameters DEF Url

(***************************************************************************)
(* Typing.                                                                 *)
(***************************************************************************)

(* What a step of c leaves of the other calls.                             *)
OthersWait(c) ==
  \A d \in Callers \ {c} : pc'[d] = pc[d] \/ (pc[d] = "waiting" /\ pc'[d] = "locked")

LEMMA PassOnMoves ==
  ASSUME Typed, Exclusive(Holding), NEW c \in Callers,
         NEW left \in Places, PassOn(c, left, "locked")
  PROVE  /\ LockTypeOK(Places)'
         /\ pc'[c] = left
         /\ OthersWait(c)
  <1>1. "locked" \in Places /\ LockTypeOK(Places)
    BY PlacesDistinct DEF Typed, TypeOK
  <1>2. LockTypeOK(Places)'
    BY <1>1, PassOnTyped
  <1>3. waiters # << >> => pc[Head(waiters)] = "waiting"
    BY <1>1, HeadTailProperties, EmptySeq DEF LockTypeOK, Exclusive
  <1>4. QED
    BY <1>2, <1>3 DEF PassOn, OthersWait

(* The requests, keys and cursors when one call moves on.                  *)
LEMMA UnderwayStep ==
  ASSUME Typed, LockTypeOK(Places)', NEW c \in Callers, OthersWait(c),
         UNCHANGED request, parent' \in [Callers -> Answers],
         \A d \in Callers \ {c} : parent'[d] = parent[d],
         pc[c] # "idle", pc'[c] # "waiting",
         pc'[c] \in Holding => NamesDocument(request[c]),
         parent'[c] # NoParent => pc'[c] \in Running /\ NamesDocument(request[c])
  PROVE  Underway'
  BY PlacesDistinct DEF Typed, Underway, OthersWait, TypeOK, LockTypeOK

LEMMA ForgetStep ==
  ASSUME Typed, LockTypeOK(Places)', NEW c \in Callers, OthersWait(c), Forget(c), pc'[c] = "idle"
  PROVE  /\ Underway'
         /\ request' \in [Callers -> UNION {Asked(d) : d \in Callers}]
         /\ \A d \in Callers : request'[d] \in Asked(d)
         /\ parent' \in [Callers -> Answers]
  <1>1. /\ NoRequest \in UNION {Asked(d) : d \in Callers}
        /\ NoRequest \in Asked(c)
    BY DEF Asked
  <1>2. /\ \A d \in Callers : request'[d] = IF d = c THEN NoRequest ELSE request[d]
        /\ \A d \in Callers : parent'[d] = IF d = c THEN NoParent ELSE parent[d]
        /\ request' \in [Callers -> UNION {Asked(d) : d \in Callers}]
        /\ parent' \in [Callers -> Answers]
    BY <1>1 DEF Forget, Typed, TypeOK, Answers
  <1>3. \A d \in Callers : request'[d] \in Asked(d)
    BY <1>1, <1>2 DEF Typed, TypeOK
  <1>4. Underway'
    BY <1>2, PlacesDistinct DEF Typed, Underway, OthersWait
  <1>5. QED
    BY <1>2, <1>3, <1>4

LEMMA EnterTyped ==
  ASSUME Typed, NEW c \in Callers, NEW q \in Requests[c], Enter(c, q)
  PROVE  /\ LockTypeOK(Places)'
         /\ Underway'
         /\ request' \in [Callers -> UNION {Asked(d) : d \in Callers}]
         /\ \A d \in Callers : request'[d] \in Asked(d)
  <1>1. q \in Asked(c) /\ q \in UNION {Asked(d) : d \in Callers}
    BY DEF Asked
  <1>2. /\ \A d \in Callers : request'[d] = IF d = c THEN q ELSE request[d]
        /\ request' \in [Callers -> UNION {Asked(d) : d \in Callers}]
        /\ UNCHANGED parent /\ pc[c] = "idle"
    BY <1>1 DEF Enter, Typed, TypeOK
  <1>3. PICK place \in {"resolved", "locked", "waiting"} :
          /\ pc' = [pc EXCEPT ![c] = place]
          /\ place # "resolved" => NamesDocument(q)
    BY DEF Enter, PassThrough, TakeLock, WaitForLock
  <1>4. owner' \in Callers \cup {NoOne} /\ waiters' \in Seq(Callers)
    <2>1. owner \in Callers \cup {NoOne} /\ waiters \in Seq(Callers)
      BY DEF Typed, TypeOK, LockTypeOK
    <2>2. UNCHANGED lockVars \/ Acquire(c) \/ Enqueue(c)
      BY DEF Enter, PassThrough, TakeLock, WaitForLock
    <2>3. QED
      BY <2>1, <2>2 DEF lockVars, Acquire, Enqueue
  <1>5. LockTypeOK(Places)'
    BY <1>3, <1>4, PlacesDistinct DEF Typed, TypeOK, LockTypeOK
  <1>6. \A d \in Callers : pc'[d] = IF d = c THEN place ELSE pc[d]
    BY <1>3 DEF Typed, TypeOK, LockTypeOK
  <1>7. Underway'
    BY <1>2, <1>3, <1>6, PlacesDistinct DEF Typed, Underway
  <1>8. \A d \in Callers : request'[d] \in Asked(d)
    BY <1>1, <1>2 DEF Typed, TypeOK
  <1>9. QED
    BY <1>2, <1>5, <1>7, <1>8

(* What is left to show when the steps of the calls are typed.             *)
Rest ==
  /\ DOMAIN entries \subseteq Urls
  /\ entries \in [DOMAIN entries -> [parent: Answers, expiry: Nat]]
  /\ match \in [Urls -> Answers]
  /\ until \in [Urls -> [Answers -> Int]]
  /\ changes \in 0 .. MaxChanges
  /\ mono \in 0 .. MaxTime

LEMMA RestStays == Typed /\ UNCHANGED <<entries, upstreamVars, mono>> => Rest'
  BY DEF Typed, TypeOK, Rest, upstreamVars

Cursors ==
  /\ DOMAIN used = Callers /\ DOMAIN held = Callers
  /\ \A c \in Callers : HidesKey(used[c]) /\ HidesKey(held[c])

LEMMA CursorsKept ==
  ASSUME Typed, NEW c \in Callers,
         used' = used \/ DropCursor(c) \/ \E cursor \in {<< >>, held[c]} : used' = [used EXCEPT ![c] = cursor],
         UNCHANGED held
  PROVE  Cursors'
  <1>1. HidesKey(<< >>) /\ HidesKey(held[c])
    BY DEF Typed, TypeOK, HidesKey
  <1>2. /\ DOMAIN used' = Callers
        /\ \A d \in Callers : used'[d] = used[d] \/ used'[d] \in {<< >>, held[c]}
    BY DEF Typed, TypeOK, DropCursor
  <1>3. \A d \in Callers : HidesKey(used'[d]) /\ HidesKey(held[d])
    BY <1>1, <1>2 DEF Typed, TypeOK
  <1>4. QED
    BY <1>2, <1>3 DEF Cursors, HidesKey, Typed, TypeOK

(* A page's cursor: the key of a joined call's document is cut from it.    *)
LEMMA CursorsGiven ==
  ASSUME Typed, NEW c \in Callers, GetRows(c)
  PROVE  Cursors'
  <1> DEFINE last == LastOf(request[c].sort, Given(c))
             next == IF Given(c) = Left(c) THEN << >>
                     ELSE <<Encoded(request[c], parent[c], last, Walk(c))>>
  <1>1. HidesKey(next)
    <2>1. Walk(c).of = parent[c]
      BY DEF Walk
    <2>2. Encoded(request[c], parent[c], last, Walk(c)).walk = Walk(c)
      BY DEF Encoded
    <2>3. parent[c] # NoParent => Joined(request[c], parent[c])
      BY DEF Typed, Underway, Joined
    <2>4. parent[c] # NoParent => Encoded(request[c], parent[c], last, Walk(c)).id[1] = NoParent
      BY <2>3 DEF Encoded
    <2>5. CASE Given(c) = Left(c)
      BY <2>5 DEF HidesKey
    <2>6. CASE Given(c) # Left(c)
      <3> HIDE DEF last
      <3>1. DOMAIN next = {1} /\ next[1] = Encoded(request[c], parent[c], last, Walk(c))
        BY <2>6
      <3>2. QED
        BY <2>1, <2>2, <2>4, <3>1 DEF HidesKey
    <2>7. QED
      BY <2>5, <2>6
  <1> HIDE DEF next
  <1>2. held' = [held EXCEPT ![c] = next] /\ DropCursor(c)
    BY DEF GetRows, Over, next
  <1>3. /\ DOMAIN used' = Callers /\ DOMAIN held' = Callers
        /\ \A d \in Callers : used'[d] \in {used[d], << >>} /\ held'[d] \in {held[d], next}
    BY <1>2 DEF Typed, TypeOK, DropCursor
  <1>4. HidesKey(<< >>)
    BY DEF HidesKey
  <1>5. \A d \in Callers : HidesKey(used'[d]) /\ HidesKey(held'[d])
    BY <1>1, <1>3, <1>4 DEF Typed, TypeOK
  <1>6. QED
    BY <1>3, <1>5 DEF Cursors, HidesKey

LEMMA WithTyped ==
  ASSUME Typed, NEW u \in Urls, NEW p \in Answers, entries' = With(u, p)
  PROVE  /\ DOMAIN entries' \subseteq Urls
         /\ entries' \in [DOMAIN entries' -> [parent: Answers, expiry: Nat]]
  <1>1. mono + Ttl \in Nat /\ normalize[u] \in Urls
    BY JoinParameters DEF Typed, TypeOK
  <1>2. [parent |-> p, expiry |-> mono + Ttl] \in [parent: Answers, expiry: Nat]
    BY <1>1
  <1>3. DOMAIN entries' = DOMAIN entries \cup {normalize[u]}
    BY DEF With
  <1>4. \A k \in DOMAIN entries' : entries'[k] \in [parent: Answers, expiry: Nat]
    BY <1>2, <1>3 DEF With, Typed, TypeOK
  <1>5. entries' = [k \in DOMAIN entries' |-> entries'[k]]
    BY DEF With
  <1>6. QED
    BY <1>1, <1>3, <1>4, <1>5 DEF Typed, TypeOK

(* The call c leaves the join with an answer p.                            *)
LEMMA ResolvedTyped ==
  ASSUME Typed, Exclusive(Holding), NEW c \in Callers, pc[c] \in Holding, NEW p \in Answers,
         parent' = [parent EXCEPT ![c] = p], PassOn(c, "resolved", "locked"),
         UNCHANGED <<request, pageVars>>, Rest'
  PROVE  Typed'
  <1>1. LockTypeOK(Places)' /\ pc'[c] = "resolved" /\ OthersWait(c)
    BY PlacesDistinct, PassOnMoves
  <1>2. /\ parent' \in [Callers -> Answers]
        /\ \A d \in Callers \ {c} : parent'[d] = parent[d]
    BY DEF Typed, TypeOK
  <1>3. NamesDocument(request[c]) /\ pc[c] # "idle"
    BY PlacesDistinct DEF Typed, Underway
  <1>4. Underway'
    BY <1>1, <1>2, <1>3, PlacesDistinct, UnderwayStep
  <1>5. Cursors'
    BY CursorsKept DEF pageVars
  <1>6. QED
    BY <1>1, <1>2, <1>4, <1>5 DEF Typed, TypeOK, Rest, Cursors

(* The call c is over, at a place where it holds no lock.                  *)
LEMMA OverTyped ==
  ASSUME Typed, NEW c \in Callers, pc[c] \in Running, Over(c), Cursors'
  PROVE  Typed'
  <1>1. /\ LockTypeOK(Places)' /\ pc'[c] = "idle" /\ OthersWait(c)
    BY PlacesDistinct DEF Over, OthersWait, cacheVars, lockVars, Typed, TypeOK, LockTypeOK
  <1>2. Forget(c) /\ Rest'
    BY RestStays DEF Over, cacheVars
  <1>3. /\ Underway'
        /\ request' \in [Callers -> UNION {Asked(d) : d \in Callers}]
        /\ \A d \in Callers : request'[d] \in Asked(d)
        /\ parent' \in [Callers -> Answers]
    BY <1>1, <1>2, ForgetStep
  <1>4. QED
    BY <1>1, <1>2, <1>3 DEF Typed, TypeOK, Rest, Cursors, Asked

(* The call c gives up in the join.                                        *)
LEMMA GivenUpTyped ==
  ASSUME Typed, NEW c \in Callers, LockTypeOK(Places)', pc'[c] = "idle", OthersWait(c),
         Forget(c), DropCursor(c), UNCHANGED <<held, entries, upstreamVars, mono>>
  PROVE  Typed'
  <1>1. Rest' /\ Cursors'
    BY RestStays, CursorsKept
  <1>2. /\ Underway'
        /\ request' \in [Callers -> UNION {Asked(d) : d \in Callers}]
        /\ \A d \in Callers : request'[d] \in Asked(d)
        /\ parent' \in [Callers -> Answers]
    BY ForgetStep
  <1>3. QED
    BY <1>1, <1>2 DEF Typed, TypeOK, Rest, Cursors, Asked

(* The call c goes on to another place, keeping what it has.               *)
LEMMA GoesOnTyped ==
  ASSUME Typed, NEW c \in Callers, NEW place \in {"lookup", "querying"},
         pc' = [pc EXCEPT ![c] = place],
         IF place = "lookup" THEN pc[c] = "locked" ELSE pc[c] = "resolved",
         UNCHANGED <<cacheVars, request, parent, upstreamVars, mono, pageVars>>
  PROVE  Typed'
  <1>1. /\ LockTypeOK(Places)' /\ OthersWait(c) /\ pc'[c] = place
    BY PlacesDistinct DEF OthersWait, cacheVars, lockVars, Typed, TypeOK, LockTypeOK
  <1>2. /\ UNCHANGED <<entries, upstreamVars, mono>> /\ used' = used /\ held' = held
        /\ request' = request /\ parent' = parent
    BY DEF cacheVars, pageVars
  <1>3. Rest' /\ Cursors'
    BY <1>2, RestStays, CursorsKept
  <1>4. Underway'
    BY <1>1, <1>2, PlacesDistinct DEF Typed, Underway, OthersWait
  <1>5. QED
    BY <1>1, <1>2, <1>3, <1>4 DEF Typed, TypeOK, Rest, Cursors

LEMMA TypedStep == Typed /\ Exclusive(Holding) /\ [Next]_vars => Typed'
  <1> SUFFICES ASSUME Typed, Exclusive(Holding), [Next]_vars PROVE Typed'
    OBVIOUS
  <1>1. ASSUME NEW c \in Callers, NEW q \in Requests[c], Call(c, q) PROVE Typed'
    <2>1. /\ LockTypeOK(Places)' /\ Underway'
          /\ request' \in [Callers -> UNION {Asked(d) : d \in Callers}]
          /\ \A d \in Callers : request'[d] \in Asked(d)
      BY <1>1, EnterTyped DEF Call
    <2>2. UNCHANGED <<entries, upstreamVars, mono>> /\ UNCHANGED parent
      BY <1>1 DEF Call, Enter
    <2>3. Rest' /\ Cursors'
      BY <1>1, <2>2, RestStays, CursorsKept DEF Call
    <2>4. QED
      BY <2>1, <2>2, <2>3 DEF Typed, TypeOK, Rest, Cursors, Asked
  <1>2. ASSUME NEW c \in Callers, Serve(c), UNCHANGED pageVars PROVE Typed'
    <2>1. Entry(Url(c)).parent \in Answers
      BY <1>2 DEF Serve, Hit, Entry, Typed, TypeOK
    <2>2. pc[c] \in Holding /\ Rest'
      BY <1>2, PlacesDistinct, RestStays DEF Serve
    <2>3. QED
      BY <1>2, <2>1, <2>2, ResolvedTyped DEF Serve
  <1>3. ASSUME NEW c \in Callers, SendLookup(c), UNCHANGED pageVars PROVE Typed'
    BY <1>3, GoesOnTyped DEF SendLookup
  <1>4. ASSUME NEW c \in Callers, StoreParent(c), UNCHANGED pageVars PROVE Typed'
    <2>1. pc[c] \in Holding
      BY <1>4, PlacesDistinct DEF StoreParent
    <2>2. Url(c) \in Urls /\ match[Url(c)] \in Answers
      BY <2>1, UrlIsSpelling DEF Typed, TypeOK
    <2>3. Rest'
      BY <1>4, <2>2, WithTyped DEF StoreParent, Rest, upstreamVars, Typed, TypeOK
    <2>4. QED
      BY <1>4, <2>1, <2>2, <2>3, ResolvedTyped DEF StoreParent
  <1>5. ASSUME NEW c \in Callers, JoinFails(c) PROVE Typed'
    BY <1>5, PlacesDistinct, PassOnMoves, GivenUpTyped DEF JoinFails, LookupFails
  <1>6. ASSUME NEW c \in Callers, RefuseLimit(c) \/ RefuseCursor(c) \/ QueryFails(c) PROVE Typed'
    <2>1. pc[c] \in Running /\ Over(c) /\ held' = held
      BY <1>6 DEF RefuseLimit, RefuseCursor, QueryFails, Running
    <2>2. Cursors'
      BY <2>1, CursorsKept DEF Over
    <2>3. QED
      BY <2>1, <2>2, OverTyped
  <1>7. ASSUME NEW c \in Callers, SendQuery(c) PROVE Typed'
    BY <1>7, GoesOnTyped DEF SendQuery
  <1>8. ASSUME NEW c \in Callers, GetRows(c) PROVE Typed'
    BY <1>8, CursorsGiven, OverTyped DEF GetRows, Running
  <1>9. ASSUME NEW c \in Callers, Cancel(c) PROVE Typed'
    <2>1. CASE CancelHolder(c) /\ DropCursor(c)
      BY <1>9, <2>1, PlacesDistinct, PassOnMoves, GivenUpTyped DEF Cancel, CancelHolder
    <2>2. CASE CancelWaiter(c) /\ DropCursor(c)
      <3>1. "idle" \in Places /\ LockTypeOK(Places) /\ Abandon(c) /\ pc' = [pc EXCEPT ![c] = "idle"]
        BY <2>2, PlacesDistinct DEF CancelWaiter, Typed, TypeOK
      <3>2. LockTypeOK(Places)'
        BY <3>1, AbandonTyped
      <3>3. pc'[c] = "idle" /\ OthersWait(c)
        BY <3>1 DEF LockTypeOK, OthersWait
      <3>4. QED
        BY <1>9, <2>2, <3>2, <3>3, GivenUpTyped DEF Cancel, CancelWaiter
    <2>3. CASE pc[c] \in {"resolved", "querying"} /\ Over(c)
      <3>1. Cursors'
        BY <1>9, <2>3, CursorsKept DEF Cancel, Over
      <3>2. QED
        BY <2>3, <3>1, OverTyped DEF Running
    <2>4. QED
      BY <1>9, <2>1, <2>2, <2>3 DEF Cancel, CancelJoin
  <1>10. CASE Tick /\ UNCHANGED pageVars
    BY <1>10, JoinParameters DEF Tick, pageVars, cacheVars, lockVars, upstreamVars,
       Typed, TypeOK, LockTypeOK, Underway, Asked, HidesKey
  <1>11. ASSUME NEW u \in Urls, NEW p \in Answers, Rescrape(u, p), UNCHANGED pageVars PROVE Typed'
    <2>1. /\ match' \in [Urls -> Answers] /\ changes' \in 0 .. MaxChanges
          /\ until' \in [Urls -> [Answers -> Int]]
      <3>1. match[u] \in Answers /\ mono \in Int /\ until[u] \in [Answers -> Int]
        BY DEF Typed, TypeOK
      <3>2. [until[u] EXCEPT ![match[u]] = mono] \in [Answers -> Int]
        BY <3>1
      <3>3. QED
        BY <1>11, <3>1, <3>2, JoinParameters DEF Rescrape, Typed, TypeOK
    <2>2. /\ Rest'
          /\ UNCHANGED <<owner, waiters, pc, request, parent, used, held>>
      BY <1>11, <2>1 DEF Rescrape, Rest, Typed, TypeOK, cacheVars, lockVars, pageVars
    <2>3. QED
      BY <2>2 DEF Typed, TypeOK, Rest, LockTypeOK, Underway, Asked, HidesKey
  <1>12. CASE UNCHANGED vars
    BY <1>12 DEF vars, joinVars, pageVars, cacheVars, lockVars, upstreamVars,
       Typed, TypeOK, LockTypeOK, Underway, Asked, HidesKey
  <1>13. QED
    BY <1>1, <1>2, <1>3, <1>4, <1>5, <1>6, <1>7, <1>8, <1>9, <1>10, <1>11, <1>12
       DEF Next, Advance, Joining, Resolve, World

(***************************************************************************)
(* Single flight.                                                          *)
(***************************************************************************)

LEMMA FairIsLock ==
  ASSUME NEW c \in Callers, Fair(Holding)!Enter(c) \/ Fair(Holding)!Leave(c)
  PROVE  Lock!Next
  <1>1. Fair(Holding)!Enter(c) => Lock!Enter(c)
    BY DEF Fair!Enter, Lock!Enter, Fair!Placed, Lock!Placed, Fair!IsIn, Lock!IsIn
  <1>2. Fair(Holding)!Leave(c) => Lock!Leave(c)
    BY DEF Fair!Leave, Lock!Leave, Fair!Placed, Lock!Placed, Fair!IsIn, Lock!IsIn
  <1>3. QED
    BY <1>1, <1>2 DEF Lock!Next

(* What every step is for the line of callers.                             *)
LockStep == FairState(Holding)' /\ (Lock!Next \/ UNCHANGED <<Line, At(Holding)>>)

LEMMA LockStepTaken == Typed /\ FairState(Holding) /\ [Next]_vars => LockStep
  <1> SUFFICES ASSUME Typed, FairState(Holding), [Next]_vars PROVE LockStep
    OBVIOUS
  <1>1. /\ LockTypeOK(Places) /\ "waiting" \notin Holding /\ "locked" \in Holding
        /\ "lookup" \in Holding /\ \A place \in {"idle"} \cup Running : place \notin Holding \cup {"waiting"}
    BY PlacesDistinct DEF Typed, TypeOK
  <1>2. \A c \in Callers : pc[c] \in Holding => c = owner
    BY DEF FairState, Exclusive
  <1>3. LockTypeOK(Places)'
    BY TypedStep DEF FairState, Typed, TypeOK
  <1>4. ASSUME NEW c \in Callers, NEW q, Enter(c, q) PROVE LockStep
    <2>1. pc[c] \notin Holding \cup {"waiting"}
      BY <1>1, <1>4 DEF Enter
    <2>2. CASE PassThrough(c, q)
      BY <1>1, <2>1, <2>2, MoveStutters DEF PassThrough, Running, LockStep
    <2>3. CASE TakeLock(c, q)
      BY <1>1, <1>3, <2>1, <2>3, AcquireEnters, FairIsLock DEF TakeLock, LockStep
    <2>4. CASE WaitForLock(c, q)
      BY <1>1, <1>3, <2>1, <2>4, EnqueueEnters, FairIsLock DEF WaitForLock, LockStep
    <2>5. QED
      BY <1>4, <2>2, <2>3, <2>4 DEF Enter
  <1>5. ASSUME NEW c \in Callers, NEW left \in {"resolved", "idle"}, c = owner,
               PassOn(c, left, "locked")
        PROVE  LockStep
    BY <1>1, <1>3, <1>5, PassOnLeaves, FairIsLock DEF Running, LockStep
  <1>6. ASSUME NEW c \in Callers, NEW place \in {"idle", "querying"}, pc[c] \in Running,
               pc' = [pc EXCEPT ![c] = place], UNCHANGED cacheVars
        PROVE  LockStep
    BY <1>1, <1>6, MoveStutters DEF Running, cacheVars, LockStep
  <1>7. ASSUME NEW c \in Callers, SendLookup(c) PROVE LockStep
    <2>1. c = owner /\ UNCHANGED lockVars /\ pc' = [pc EXCEPT ![c] = "lookup"]
      BY <1>1, <1>2, <1>7 DEF SendLookup, cacheVars
    <2>2. QED
      BY <1>1, <2>1, MoveStutters DEF LockStep
  <1>8. ASSUME NEW c \in Callers, CancelHolder(c) PROVE LockStep
    BY <1>5, <1>8 DEF CancelHolder
  <1>9. ASSUME NEW c \in Callers, CancelWaiter(c) PROVE LockStep
    BY <1>1, <1>3, <1>9, AbandonLeaves, FairIsLock DEF CancelWaiter, LockStep
  <1>10. CASE UNCHANGED <<owner, waiters, pc>>
    BY <1>10 DEF LockStep, FairState, Exclusive, Queued, Line, At
  <1>11. ASSUME NEW c \in Callers, Joining(c) \/ JoinFails(c) PROVE LockStep
    <2>1. CASE SendLookup(c)
      BY <1>7, <2>1
    <2>2. CASE ~SendLookup(c)
      <3>1. pc[c] \in Holding /\ \E left \in {"resolved", "idle"} : PassOn(c, left, "locked")
        BY <1>1, <1>11, <2>2 DEF Joining, Resolve, JoinFails, Serve, StoreParent, LookupFails
      <3>2. QED
        BY <1>2, <1>5, <3>1
    <2>3. QED
      BY <2>1, <2>2
  <1>12. ASSUME NEW c \in Callers,
                RefuseLimit(c) \/ RefuseCursor(c) \/ SendQuery(c) \/ GetRows(c) \/ QueryFails(c)
         PROVE  LockStep
    <2>1. /\ pc[c] \in Running /\ UNCHANGED cacheVars
          /\ \E place \in {"idle", "querying"} : pc' = [pc EXCEPT ![c] = place]
      BY <1>12 DEF RefuseLimit, RefuseCursor, SendQuery, GetRows, QueryFails, Over, Running
    <2>2. QED
      BY <1>6, <2>1
  <1>13. ASSUME NEW c \in Callers, Cancel(c) PROVE LockStep
    BY <1>6, <1>8, <1>9, <1>13 DEF Cancel, CancelJoin, Over, Running
  <1>14. CASE World \/ UNCHANGED vars
    BY <1>10, <1>14 DEF World, Tick, Rescrape, vars, joinVars, cacheVars, lockVars
  <1>15. QED
    BY <1>4, <1>11, <1>12, <1>13, <1>14 DEF Next, Call, Advance

LookupsMiss ==
  \A c \in Callers : pc[c] = "lookup" /\ normalize[Url(c)] \in DOMAIN entries
                      => Entry(Url(c)).expiry <= mono

(* Nobody has just begun a lookup, and the cache is as it was.             *)
LEMMA LookupsGoOn ==
  ASSUME Typed, LookupsMiss, entries' = entries, mono' \in Nat, mono <= mono',
         \A c \in Callers : pc'[c] = "lookup" => pc[c] = "lookup" /\ request'[c] = request[c]
  PROVE  LookupsMiss'
  <1> SUFFICES ASSUME NEW c \in Callers, pc'[c] = "lookup", normalize[Url(c)'] \in DOMAIN entries
               PROVE  entries[normalize[Url(c)']].expiry <= mono'
    BY DEF LookupsMiss, Entry
  <1>1. pc[c] = "lookup" /\ Url(c)' = Url(c)
    BY DEF Url
  <1>2. entries[normalize[Url(c)]].expiry <= mono
    BY <1>1 DEF LookupsMiss, Entry
  <1>3. entries[normalize[Url(c)]].expiry \in Nat /\ mono \in Nat
    BY <1>1 DEF Typed, TypeOK
  <1>4. QED
    BY <1>1, <1>2, <1>3

(* The owner leaves the lock: nobody is left in a lookup.                  *)
LEMMA NobodyLooksUp ==
  ASSUME Typed, Exclusive(Holding), NEW c \in Callers, pc[c] \in Holding,
         NEW left \in {"resolved", "idle"}, PassOn(c, left, "locked")
  PROVE  \A d \in Callers : pc'[d] # "lookup"
  BY PlacesDistinct, PassOnMoves DEF OthersWait, Exclusive

LEMMA LookupsMissStep ==
  Typed /\ Exclusive(Holding) /\ LookupsMiss /\ [Next]_vars => LookupsMiss'
  <1> SUFFICES ASSUME Typed, Exclusive(Holding), LookupsMiss, [Next]_vars PROVE LookupsMiss'
    OBVIOUS
  <1>1. mono \in Nat /\ pc \in [Callers -> Places] /\ DOMAIN request = Callers
    BY DEF Typed, TypeOK, LockTypeOK
  <1>2. ASSUME NEW c \in Callers, NEW q, Enter(c, q) PROVE LookupsMiss'
    <2>1. \A d \in Callers : pc'[d] = "lookup" => pc[d] = "lookup" /\ request'[d] = request[d]
      BY <1>1, <1>2 DEF Enter, PassThrough, TakeLock, WaitForLock
    <2>2. QED
      BY <1>1, <1>2, <2>1, LookupsGoOn DEF Enter
  <1>3. ASSUME NEW c \in Callers, pc[c] \in Holding,
               NEW left \in {"resolved", "idle"}, PassOn(c, left, "locked")
        PROVE  LookupsMiss'
    BY <1>3, NobodyLooksUp DEF LookupsMiss
  <1>4. ASSUME NEW c \in Callers, SendLookup(c) PROVE LookupsMiss'
    <2>1. \A d \in Callers : pc'[d] = "lookup" =>
            \/ d = c
            \/ pc[d] = "lookup"
      BY <1>1, <1>4 DEF SendLookup
    <2>2. \A d \in Callers : Url(d)' = Url(d) /\ Entry(Url(d))' = Entry(Url(d))
      BY <1>4 DEF SendLookup, Url, Entry, cacheVars
    <2>3. normalize[Url(c)] \in DOMAIN entries => Entry(Url(c)).expiry <= mono
      <3>1. normalize[Url(c)] \in DOMAIN entries => Entry(Url(c)).expiry \in Nat
        BY DEF Typed, TypeOK, Entry
      <3>2. QED
        BY <1>1, <1>4, <3>1 DEF SendLookup, Hit
    <2>4. QED
      BY <1>4, <2>1, <2>2, <2>3 DEF SendLookup, LookupsMiss, cacheVars
  <1>5. ASSUME NEW c \in Callers, NEW place \in {"idle", "querying"},
               pc' = [pc EXCEPT ![c] = place], UNCHANGED <<entries, mono>>,
               UNCHANGED request \/ (place = "idle" /\ Forget(c))
        PROVE  LookupsMiss'
    <2>1. \A d \in Callers : pc'[d] = "lookup" => pc[d] = "lookup" /\ request'[d] = request[d]
      BY <1>1, <1>5 DEF Forget
    <2>2. QED
      BY <1>1, <1>5, <2>1, LookupsGoOn
  <1>6. ASSUME NEW c \in Callers, Joining(c) \/ JoinFails(c) PROVE LookupsMiss'
    <2>1. CASE SendLookup(c)
      BY <1>4, <2>1
    <2>2. CASE ~SendLookup(c)
      <3>1. pc[c] \in Holding /\ \E left \in {"resolved", "idle"} : PassOn(c, left, "locked")
        BY <1>6, <2>2, PlacesDistinct DEF Joining, Resolve, JoinFails, Serve, StoreParent, LookupFails
      <3>2. QED
        BY <1>3, <3>1
    <2>3. QED
      BY <2>1, <2>2
  <1>7. ASSUME NEW c \in Callers,
               RefuseLimit(c) \/ RefuseCursor(c) \/ SendQuery(c) \/ GetRows(c) \/ QueryFails(c)
        PROVE  LookupsMiss'
    <2>1. \/ Over(c)
          \/ /\ pc' = [pc EXCEPT ![c] = "querying"]
             /\ UNCHANGED <<cacheVars, request, mono>>
      BY <1>7 DEF RefuseLimit, RefuseCursor, SendQuery, GetRows, QueryFails
    <2>2. QED
      BY <1>5, <2>1 DEF Over, cacheVars
  <1>8. ASSUME NEW c \in Callers, Cancel(c) PROVE LookupsMiss'
    <2>1. CASE CancelHolder(c)
      <3>1. pc[c] \in Holding /\ PassOn(c, "idle", "locked")
        BY <2>1 DEF CancelHolder, Exclusive
      <3>2. QED
        BY <1>3, <3>1
    <2>2. CASE CancelWaiter(c) \/ Over(c)
      BY <1>5, <2>2 DEF CancelWaiter, Over, cacheVars
    <2>3. QED
      BY <1>8, <2>1, <2>2 DEF Cancel, CancelJoin
  <1>9. CASE World
    <2>1. UNCHANGED <<entries, pc, request>> /\ mono' \in {mono, mono + 1}
      BY <1>9 DEF World, Tick, Rescrape, cacheVars
    <2>2. QED
      BY <1>1, <2>1, LookupsGoOn
  <1>10. CASE UNCHANGED vars
    <2>1. UNCHANGED <<entries, pc, request, mono>>
      BY <1>10 DEF vars, joinVars, cacheVars, lockVars
    <2>2. QED
      BY <1>1, <2>1, LookupsGoOn
  <1>11. QED
    BY <1>2, <1>6, <1>7, <1>8, <1>9, <1>10 DEF Next, Call, Advance

(* The invariant of the join.                                              *)
Locked == Typed /\ SingleFlight /\ Queued

LEMMA InitLocked == Init => Locked
  <1> SUFFICES ASSUME Init PROVE Locked
    OBVIOUS
  <1> USE DEF Init, JoinInit
  <1>1. LockTypeOK(Places)
    BY PlacesDistinct DEF LockTypeOK
  <1>2. /\ NoParent \in Answers /\ 0 \in 0 .. MaxChanges /\ 0 \in 0 .. MaxTime /\ -Ttl \in Int
        /\ \A c \in Callers : NoRequest \in Asked(c) /\ NoRequest \in UNION {Asked(d) : d \in Callers}
    BY JoinParameters DEF Answers, Asked
  <1>3. until \in [Urls -> [Answers -> Int]]
    BY <1>2
  <1>4. DOMAIN entries = {} /\ entries \in [DOMAIN entries -> [parent: Answers, expiry: Nat]]
    OBVIOUS
  <1>5. TypeOK
    BY <1>1, <1>2, <1>3, <1>4 DEF TypeOK, HidesKey
  <1>6. Underway
    BY PlacesDistinct DEF Underway
  <1>7. SingleFlight
    BY LockParameters, PlacesDistinct DEF SingleFlight, Exclusive
  <1>8. Queued
    BY PlacesDistinct DEF Queued
  <1>9. QED
    BY <1>5, <1>6, <1>7, <1>8 DEF Typed, Locked

LEMMA LockedStep == Locked /\ [Next]_vars => Locked' /\ LockStep
  BY TypedStep, LockStepTaken, LookupsMissStep
     DEF Locked, SingleFlight, LookupsMiss, FairState, LockStep

LEMMA LockedHolds == Spec => []Locked
  <1>1. Locked /\ [Next]_vars => Locked'
    BY LockedStep
  <1>2. QED
    BY <1>1, InitLocked, PTL DEF Spec

(* The variables keep their types, and no cursor of a joined call carries  *)
(* the key of a document.                                                  *)
THEOREM TypeCorrect == Spec => []TypeOK
  <1>1. Locked => TypeOK
    BY DEF Locked, Typed
  <1>2. QED
    BY <1>1, LockedHolds, PTL

(* At most one call looks a document up, it owns the lock, and only if the *)
(* cache has nothing to serve.                                             *)
THEOREM SingleFlightHolds == Spec => []SingleFlight
  <1>1. Locked => SingleFlight
    BY DEF Locked
  <1>2. QED
    BY <1>1, LockedHolds, PTL

(* The callers are served in the order in which they came, none is         *)
(* forgotten, and none waits for a lock that nobody holds.                 *)
THEOREM ImplementsFairLockHolds == Spec => ImplementsFairLock
  <1>1. Init => Lock!Init
    BY DEF Init, JoinInit, Lock!Init, Lock!Placed, Lock!IsIn, Line, LineOf, At, Standing, Holding
  <1>2. Locked /\ [Next]_vars => [Lock!Next]_(Lock!vars)
    BY LockedStep DEF LockStep, Lock!vars
  <1>3. QED
    BY <1>1, <1>2, LockedHolds, PTL DEF Spec, ImplementsFairLock, Lock!Spec

(***************************************************************************)
(* Resolutions are recent.                                                 *)
(***************************************************************************)

(* Some spelling had the answer that is cached when it was looked up, and  *)
(* has it still or lost it later.                                          *)
Seen(k, v) ==
  /\ normalize[v] = k
  /\ \/ match[v] = entries[k].parent
     \/ entries[k].expiry - Ttl <= until[v][entries[k].parent]

EntriesRecent ==
  \A k \in DOMAIN entries :
    /\ entries[k].expiry <= mono + Ttl
    /\ \E v \in Urls : Seen(k, v)

LEMMA EntriesStay ==
  ASSUME Typed, EntriesRecent, UNCHANGED <<entries, match, until>>, mono' \in Nat, mono <= mono'
  PROVE  EntriesRecent'
  <1> SUFFICES ASSUME NEW k \in DOMAIN entries
               PROVE  entries[k].expiry <= mono' + Ttl /\ \E v \in Urls : Seen(k, v)'
    BY DEF EntriesRecent
  <1>1. entries[k].expiry \in Nat /\ mono \in Nat /\ Ttl \in Nat
    BY JoinParameters DEF Typed, TypeOK
  <1>2. QED
    BY <1>1 DEF EntriesRecent, Seen

LEMMA StoreRecent ==
  ASSUME Typed, EntriesRecent, NEW c \in Callers, StoreParent(c)
  PROVE  EntriesRecent'
  <1>1. PICK u \in Urls : u = Url(c)
    BY UrlIsSpelling, PlacesDistinct DEF StoreParent
  <1>2. UNCHANGED <<match, until, mono>> /\ mono \in Nat /\ Ttl \in Nat
    BY JoinParameters DEF StoreParent, upstreamVars, Typed, TypeOK
  <1>3. entries' = With(u, match[u])
    BY <1>1 DEF StoreParent
  <1>4. /\ DOMAIN entries' = DOMAIN entries \cup {normalize[u]}
        /\ entries'[normalize[u]] = [parent |-> match[u], expiry |-> mono + Ttl]
        /\ \A k \in DOMAIN entries \ {normalize[u]} : entries'[k] = entries[k]
    BY <1>3 DEF With
  <1>5. ASSUME NEW k \in DOMAIN entries'
        PROVE  entries'[k].expiry <= mono + Ttl /\ \E v \in Urls : Seen(k, v)'
    <2>1. CASE k = normalize[u]
      <3>1. entries'[k].parent = match[u] /\ entries'[k].expiry = mono + Ttl
        BY <1>4, <2>1
      <3>2. Seen(k, u)'
        BY <1>2, <2>1, <3>1 DEF Seen
      <3>3. entries'[k].expiry <= mono + Ttl
        BY <1>2, <3>1
      <3>4. QED
        BY <1>1, <3>2, <3>3
    <2>2. CASE k # normalize[u]
      BY <1>2, <1>4, <1>5, <2>2 DEF EntriesRecent, Seen
    <2>3. QED
      BY <2>1, <2>2
  <1>6. QED
    BY <1>2, <1>5 DEF EntriesRecent

(* The answer that a spelling loses now was looked up no later than now.   *)
LEMMA RescrapeRecent ==
  ASSUME Typed, EntriesRecent, NEW u \in Urls, NEW p \in Answers, Rescrape(u, p)
  PROVE  EntriesRecent'
  <1>1. UNCHANGED <<entries, mono>>
    BY DEF Rescrape, cacheVars
  <1>2. /\ \A v \in Urls : match'[v] = IF v = u THEN p ELSE match[v]
        /\ \A v \in Urls, a \in Answers :
             until'[v][a] = IF v = u /\ a = match[u] THEN mono ELSE until[v][a]
    BY DEF Rescrape, Typed, TypeOK
  <1> SUFFICES ASSUME NEW k \in DOMAIN entries
               PROVE  entries[k].expiry <= mono + Ttl /\ \E v \in Urls : Seen(k, v)'
    BY <1>1 DEF EntriesRecent
  <1>3. entries[k].expiry \in Nat /\ entries[k].parent \in Answers /\ mono \in Nat /\ Ttl \in Nat
    BY JoinParameters DEF Typed, TypeOK
  <1>4. entries[k].expiry <= mono + Ttl
    BY DEF EntriesRecent
  <1>5. PICK v \in Urls : Seen(k, v)
    BY DEF EntriesRecent
  <1>6. Seen(k, v)'
    <2>1. CASE v = u /\ match[v] = entries[k].parent
      <3>1. until'[v][entries[k].parent] = mono
        BY <1>2, <1>3, <2>1
      <3>2. QED
        BY <1>1, <1>3, <1>4, <1>5, <3>1 DEF Seen
    <2>2. CASE v # u \/ match[v] # entries[k].parent
      <3>1. until'[v][entries[k].parent] = until[v][entries[k].parent]
        BY <1>2, <1>3, <2>2
      <3>2. match[v] = entries[k].parent => match'[v] = entries[k].parent
        BY <1>2, <2>2
      <3>3. QED
        BY <1>1, <1>5, <3>1, <3>2 DEF Seen
    <2>3. QED
      BY <2>1, <2>2
  <1>7. QED
    BY <1>4, <1>6

LEMMA EntriesRecentStep == Typed /\ EntriesRecent /\ [Next]_vars => EntriesRecent'
  <1> SUFFICES ASSUME Typed, EntriesRecent, [Next]_vars PROVE EntriesRecent'
    OBVIOUS
  <1>1. mono \in Nat
    BY DEF Typed, TypeOK
  <1>2. CASE UNCHANGED <<entries, upstreamVars>> /\ mono' \in {mono, mono + 1}
    BY <1>1, <1>2, EntriesStay DEF upstreamVars
  <1>3. ASSUME NEW c \in Callers, (\E q \in Requests[c] : Call(c, q)) \/ Advance(c) \/ Cancel(c)
        PROVE  EntriesRecent'
    <2>1. CASE StoreParent(c)
      BY <2>1, StoreRecent
    <2>2. CASE Serve(c) \/ SendLookup(c) \/ LookupFails(c) \/ CancelHolder(c) \/ CancelWaiter(c) \/ Over(c)
      BY <1>2, <2>2 DEF Serve, SendLookup, LookupFails, CancelHolder, CancelWaiter, Over, cacheVars
    <2>3. CASE SendQuery(c) \/ \E q \in Requests[c] : Enter(c, q)
      BY <1>2, <2>3 DEF SendQuery, Enter, cacheVars
    <2>4. QED
      BY <1>3, <2>1, <2>2, <2>3
         DEF Call, Advance, Joining, Resolve, JoinFails, RefuseLimit, RefuseCursor, GetRows,
             QueryFails, Cancel, CancelJoin
  <1>4. CASE World
    <2>1. CASE Tick
      BY <1>2, <2>1 DEF Tick, cacheVars
    <2>2. CASE \E u \in Urls, p \in Answers : Rescrape(u, p)
      BY <2>2, RescrapeRecent
    <2>3. QED
      BY <1>4, <2>1, <2>2 DEF World
  <1>5. CASE UNCHANGED vars
    BY <1>2, <1>5 DEF vars, joinVars, cacheVars
  <1>6. QED
    BY <1>3, <1>4, <1>5 DEF Next

(* Only a hit and a stored answer resolve a URL.                           *)
LEMMA ResolvedBy ==
  ASSUME Typed, Exclusive(Holding), [Next]_vars, NEW c \in Callers, Resolves(c)
  PROVE  Serve(c) \/ StoreParent(c)
  <1>1. pc \in [Callers -> Places] /\ pc[c] \in {"locked", "lookup"} /\ pc'[c] = "resolved"
    BY PlacesDistinct DEF Resolves, Typed, TypeOK, LockTypeOK
  <1>2. ASSUME NEW d \in Callers, NEW place,
               pc' = [pc EXCEPT ![d] = place], place = "resolved" => pc[d] = "idle"
        PROVE  FALSE
    BY <1>1, <1>2
  <1>3. ASSUME NEW d \in Callers, NEW left \in {"resolved", "idle"}, PassOn(d, left, "locked"),
               d = c => left = "idle"
        PROVE  FALSE
    BY <1>1, <1>3, PassOnMoves, PlacesDistinct DEF OthersWait
  <1>4. ASSUME UNCHANGED pc PROVE FALSE
    BY <1>1, <1>4
  <1>5. ASSUME NEW d \in Callers, NEW q, Enter(d, q) PROVE FALSE
    BY <1>2, <1>5 DEF Enter, PassThrough, TakeLock, WaitForLock
  <1>6. ASSUME NEW d \in Callers, Advance(d) \/ Cancel(d) PROVE d = c /\ (Serve(c) \/ StoreParent(c))
    <2>1. CASE Serve(d) \/ StoreParent(d)
      BY <1>3, <2>1 DEF Serve, StoreParent
    <2>2. CASE LookupFails(d) \/ CancelHolder(d)
      BY <1>3, <2>2 DEF LookupFails, CancelHolder
    <2>3. CASE SendLookup(d) \/ CancelWaiter(d) \/ Over(d) \/ SendQuery(d)
      BY <1>2, <2>3 DEF SendLookup, CancelWaiter, Over, SendQuery
    <2>4. QED
      BY <1>6, <2>1, <2>2, <2>3
         DEF Advance, Joining, Resolve, JoinFails, RefuseLimit, RefuseCursor, GetRows,
             QueryFails, Cancel, CancelJoin
  <1>7. CASE World \/ UNCHANGED vars
    BY <1>4, <1>7 DEF World, Tick, Rescrape, vars, joinVars
  <1>8. QED
    BY <1>5, <1>6, <1>7 DEF Next, Call

LEMMA ResolutionStep ==
  ASSUME Typed, Exclusive(Holding), EntriesRecent, [Next]_vars,
         NEW c \in Callers, Resolves(c)
  PROVE  \E v \in Spellings(Url(c)) : Recently(v, parent'[c])
  <1>1. Url(c) \in Urls /\ DOMAIN parent = Callers /\ mono \in Nat /\ Ttl \in Nat
    BY UrlIsSpelling, JoinParameters DEF Resolves, Typed, TypeOK
  <1>2. CASE StoreParent(c)
    <2>1. parent'[c] = match[Url(c)] /\ Url(c) \in Spellings(Url(c))
      BY <1>1, <1>2 DEF StoreParent, Spellings
    <2>2. QED
      BY <2>1 DEF Recently
  <1>3. CASE Serve(c)
    <2> DEFINE k == normalize[Url(c)]
    <2>1. /\ k \in DOMAIN entries /\ mono < entries[k].expiry
          /\ parent'[c] = entries[k].parent
      BY <1>1, <1>3 DEF Serve, Hit, Entry
    <2>2. PICK v \in Urls : Seen(k, v)
      BY <2>1 DEF EntriesRecent
    <2>3. entries[k].expiry \in Nat /\ until[v][entries[k].parent] \in Int
      BY <2>1 DEF Typed, TypeOK
    <2>4. Recently(v, parent'[c])
      <3>1. CASE match[v] = entries[k].parent
        BY <2>1, <3>1 DEF Recently
      <3>2. CASE entries[k].expiry - Ttl <= until[v][entries[k].parent]
        <4> HIDE DEF k
        <4>1. mono - until[v][entries[k].parent] < Ttl
          BY <1>1, <2>1, <2>3, <3>2
        <4>2. QED
          BY <2>1, <4>1 DEF Recently
      <3>3. QED
        BY <2>2, <3>1, <3>2 DEF Seen
    <2>5. QED
      BY <2>2, <2>4 DEF Seen, Spellings
  <1>4. QED
    BY <1>2, <1>3, ResolvedBy

(* What a URL resolves to was the upstream's answer for some spelling of   *)
(* it within the TTL, however lookups, re-scrapes and failures interleave. *)
THEOREM ResolutionIsRecentHolds == Spec => ResolutionIsRecent
  <1>1. Init => EntriesRecent
    BY DEF Init, JoinInit, EntriesRecent
  <1>2. Locked /\ EntriesRecent /\ [Next]_vars => EntriesRecent'
    BY EntriesRecentStep DEF Locked
  <1>3. Locked /\ EntriesRecent /\ [Next]_vars =>
          [\A c \in Callers : Resolves(c) => \E v \in Spellings(Url(c)) : Recently(v, parent'[c])]_vars
    BY ResolutionStep DEF Locked, SingleFlight
  <1>4. QED
    BY <1>1, <1>2, <1>3, LockedHolds, PTL DEF Spec, ResolutionIsRecent

(***************************************************************************)
(* The order of the rows.                                                  *)
(***************************************************************************)

(* Row r comes after row s in a list sorted that way.                      *)
After(sort, r, s) == Follows(sort, r, Column(sort, s), s)

LEMMA RowsTyped ==
  ASSUME NEW r \in Rows
  PROVE  /\ r = <<r[1], r[2]>> /\ r[1] \in Parents
         /\ r[1] \in Nat /\ r[2] \in Nat /\ r[2] > 0
         /\ \A sort \in Sorts : Column(sort, r) \in Nat
  <1>1. PICK p \in Parents : r \in {<<p, k>> : k \in 1 .. Fragments[p]}
    BY DEF Rows
  <1>2. PICK k \in 1 .. Fragments[p] : r = <<p, k>> /\ p \in Nat /\ k \in Nat /\ k > 0
    BY <1>1, JoinParameters, TableParameters
  <1>3. rowid[r] \in Nat
    BY TableParameters
  <1>4. QED
    BY <1>1, <1>2, <1>3 DEF Column

(* A strict total order.                                                   *)
LEMMA AfterOrders ==
  ASSUME NEW sort \in Sorts, NEW r \in Rows, NEW s \in Rows
  PROVE  /\ ~After(sort, r, r)
         /\ After(sort, r, s) => ~After(sort, s, r)
         /\ r # s => After(sort, r, s) \/ After(sort, s, r)
         /\ \A t \in Rows : After(sort, r, s) /\ After(sort, s, t) => After(sort, r, t)
  <1>1. \A x \in Rows : /\ x = <<x[1], x[2]>> /\ x[1] \in Nat /\ x[2] \in Nat
                        /\ Column(sort, x) \in Nat
    BY RowsTyped
  <1>2. IdBefore(r, s) \/ IdBefore(s, r) \/ r = s
    BY <1>1 DEF IdBefore
  <1>3. ~IdBefore(r, r) /\ (IdBefore(r, s) => ~IdBefore(s, r))
    BY <1>1 DEF IdBefore
  <1>4. \A t \in Rows : IdBefore(t, s) /\ IdBefore(s, r) => IdBefore(t, r)
    BY <1>1 DEF IdBefore
  <1>5. QED
    BY <1>1, <1>2, <1>3, <1>4 DEF After, Follows

LEMMA LeastNatural ==
  ASSUME NEW T \in SUBSET Nat, T # {}
  PROVE  \E n \in T : \A m \in T : n <= m
  <1> DEFINE R == {ss \in Nat \X Nat : ss[1] < ss[2]}
  <1>1. IsWellFoundedOn(R, Nat)
    BY NatLessThanWellFounded DEF OpToRel
  <1>2. \E n \in T : \A m \in T : ~(<<m, n>> \in R)
    BY <1>1, WFMin
  <1>3. ASSUME NEW n \in T, \A m \in T : ~(<<m, n>> \in R), NEW m \in T PROVE n <= m
    <2>1. m \in Nat /\ n \in Nat /\ ~(<<m, n>> \in R)
      BY <1>3
    <2>2. m < n => <<m, n>> \in R
      BY <2>1
    <2>3. QED
      BY <2>1, <2>2
  <1> HIDE DEF R
  <1>4. QED
    BY <1>2, <1>3

(* How many rows come before r.                                            *)
Place(sort, rows, r) == Cardinality({s \in rows : After(sort, r, s)})

LEMMA PlaceGrows ==
  ASSUME NEW sort \in Sorts, NEW rows \in SUBSET Rows, NEW r \in rows, NEW s \in rows
  PROVE  /\ Place(sort, rows, r) \in Nat
         /\ After(sort, r, s) => Place(sort, rows, s) < Place(sort, rows, r)
  <1> DEFINE Earlier(x) == {t \in rows : After(sort, x, t)}
  <1>1. ASSUME NEW x \in rows PROVE IsFiniteSet(Earlier(x)) /\ Place(sort, rows, x) \in Nat
    <2>1. Earlier(x) \in SUBSET Rows
      OBVIOUS
    <2>2. IsFiniteSet(Earlier(x))
      BY <2>1, TableParameters, FS_Subset
    <2>3. QED
      BY <2>2, FS_CardinalityType DEF Place
  <1>2. ASSUME After(sort, r, s) PROVE Place(sort, rows, s) < Place(sort, rows, r)
    <2>1. Earlier(s) \in SUBSET Earlier(r)
      BY <1>2, AfterOrders
    <2>2. s \in Earlier(r) /\ s \notin Earlier(s)
      BY <1>2, AfterOrders
    <2>3. Earlier(s) # Earlier(r)
      BY <2>2
    <2>4. IsFiniteSet(Earlier(r))
      BY <1>1
    <2> HIDE DEF Earlier
    <2>5. /\ Cardinality(Earlier(s)) <= Cardinality(Earlier(r))
          /\ Cardinality(Earlier(s)) # Cardinality(Earlier(r))
      BY <2>1, <2>3, <2>4, FS_Subset
    <2>6. Cardinality(Earlier(s)) < Cardinality(Earlier(r))
      <3>1. Cardinality(Earlier(s)) \in Nat /\ Cardinality(Earlier(r)) \in Nat
        BY <1>1 DEF Place, Earlier
      <3>2. QED
        BY <2>5, <3>1
    <2>7. QED
      BY <2>6 DEF Place, Earlier
  <1>3. QED
    BY <1>1, <1>2

(***************************************************************************)
(* Pages.                                                                  *)
(***************************************************************************)

(* A page is the beginning of the list, and not empty unless the list is.  *)
LEMMA PageIsPrefix ==
  ASSUME NEW sort \in Sorts, NEW rows \in SUBSET Rows, NEW limit \in Nat \ {0}
  PROVE  /\ Page(sort, rows, limit) \subseteq rows
         /\ \A x \in rows \ Page(sort, rows, limit), y \in Page(sort, rows, limit) : After(sort, x, y)
         /\ rows # {} => Page(sort, rows, limit) # {}
  <1>1. Page(sort, rows, limit) = {r \in rows : Place(sort, rows, r) < limit}
    BY DEF Page, Place, After
  <1>2. ASSUME NEW x \in rows \ Page(sort, rows, limit), NEW y \in Page(sort, rows, limit)
        PROVE  After(sort, x, y)
    <2>1. x \in Rows /\ y \in Rows /\ x # y /\ x \in rows /\ y \in rows
      BY <1>1
    <2>2. After(sort, y, x) => Place(sort, rows, x) < Place(sort, rows, y)
      BY <2>1, PlaceGrows
    <2>3. Place(sort, rows, x) \in Nat /\ Place(sort, rows, y) \in Nat
      BY <2>1, PlaceGrows
    <2>4. ~After(sort, y, x)
      BY <1>1, <2>1, <2>2, <2>3
    <2>5. QED
      BY <2>1, <2>4, AfterOrders
  <1>3. ASSUME rows # {} PROVE Page(sort, rows, limit) # {}
    <2> DEFINE Counts == {Place(sort, rows, r) : r \in rows}
    <2>1. Counts \in SUBSET Nat /\ Counts # {}
      BY <1>3, PlaceGrows
    <2>2. PICK n \in Counts : \A m \in Counts : n <= m
      BY <2>1, LeastNatural
    <2>3. PICK r \in rows : Place(sort, rows, r) = n
      BY <2>2
    <2>4. ASSUME NEW s \in rows, After(sort, r, s) PROVE FALSE
      <3>1. Place(sort, rows, s) < n /\ n <= Place(sort, rows, s)
        BY <2>2, <2>3, <2>4, PlaceGrows
      <3>2. Place(sort, rows, s) \in Nat /\ n \in Nat
        BY <2>1, PlaceGrows
      <3>3. QED
        BY <3>1, <3>2
    <2>5. {s \in rows : After(sort, r, s)} = {}
      BY <2>4
    <2>6. Place(sort, rows, r) = 0
      BY <2>5, FS_EmptySet DEF Place
    <2>7. QED
      BY <1>1, <2>6
  <1>4. QED
    BY <1>1, <1>2, <1>3

(* A page that is not empty has a last row.                                *)
LEMMA LastOfPage ==
  ASSUME NEW sort \in Sorts, NEW rows \in SUBSET Rows, rows # {}
  PROVE  /\ LastOf(sort, rows) \in rows
         /\ \A s \in rows : s = LastOf(sort, rows) \/ After(sort, LastOf(sort, rows), s)
  <1> DEFINE ToEnd(r) == Cardinality(Rows) - Place(sort, rows, r)
             Distances == {ToEnd(r) : r \in rows}
  <1>1. ASSUME NEW r \in rows PROVE ToEnd(r) \in Nat
    <2>1. Cardinality(Rows) \in Nat
      BY TableParameters, FS_CardinalityType
    <2>2. {s \in rows : After(sort, r, s)} \in SUBSET Rows
      OBVIOUS
    <2>3. Place(sort, rows, r) <= Cardinality(Rows)
      BY <2>2, TableParameters, FS_Subset DEF Place
    <2>4. QED
      BY <2>1, <2>3, PlaceGrows
  <1>2. Distances \in SUBSET Nat /\ Distances # {}
    BY <1>1
  <1>3. PICK n \in Distances : \A m \in Distances : n <= m
    BY <1>2, LeastNatural
  <1>4. PICK r \in rows : ToEnd(r) = n
    BY <1>3
  <1>5. ASSUME NEW s \in rows, s # r PROVE After(sort, r, s)
    <2>1. ToEnd(r) <= ToEnd(s)
      BY <1>3, <1>4
    <2>2. Place(sort, rows, s) \in Nat /\ Place(sort, rows, r) \in Nat /\ Cardinality(Rows) \in Nat
      BY PlaceGrows, TableParameters, FS_CardinalityType
    <2>3. ~(Place(sort, rows, r) < Place(sort, rows, s))
      BY <2>1, <2>2
    <2>4. ~After(sort, s, r)
      BY <2>3, PlaceGrows
    <2>5. QED
      BY <1>5, <2>4, AfterOrders
  <1>6. \E x \in rows : \A s \in rows : s = x \/ Follows(sort, x, Column(sort, s), s)
    BY <1>5 DEF After
  <1>7. QED
    BY <1>6 DEF LastOf, After

(***************************************************************************)
(* Cursors.                                                                *)
(***************************************************************************)

AllRequests == UNION {Requests[c] : c \in Callers}

(* What the walk of a cursor has seen, when it stayed with one list: all   *)
(* of the list up to the row the cursor is decoded to.                     *)
Reached(cursor) ==
  LET asked == cursor.walk.asked
      last == Decoded(cursor, asked, cursor.walk.of)
  IN  /\ last \in Rows
      /\ cursor.value = Column(asked.sort, last)
      /\ cursor.walk.seen =
           {r \in Selected(asked, cursor.walk.of) : ~After(asked.sort, r, last)}

Truthful(cursor) ==
  /\ cursor.walk.asked \in AllRequests
  /\ cursor.shape = Shape(cursor.walk.asked, cursor.walk.of)
  /\ cursor.walk.steady => Reached(cursor)

Carries(cursors) ==
  /\ DOMAIN cursors \subseteq {1}
  /\ \A i \in DOMAIN cursors : Truthful(cursors[i])

(* Every cursor tells the truth, and a query is sent only with one that    *)
(* has its shape.                                                          *)
CursorsTruthful ==
  \A c \in Callers :
    /\ Carries(used[c]) /\ Carries(held[c])
    /\ pc[c] = "querying" => InShape(c)

LEMMA RequestTyped ==
  ASSUME NEW q \in AllRequests
  PROVE  /\ q.urls \in Seq(Urls) /\ q.sort \in Sorts
         /\ q.beyond \in Nat /\ q.limit \in Nat \ {0}
         /\ \A n \in Nat : [q EXCEPT !.limit = n].urls = q.urls
                         /\ [q EXCEPT !.limit = n].sort = q.sort
                         /\ [q EXCEPT !.limit = n].beyond = q.beyond
  <1>1. q \in [urls: Seq(Urls), sort: Sorts, beyond: Nat, limit: Nat \ {0}]
    BY TableParameters DEF AllRequests
  <1>2. QED
    BY <1>1

(* A shape tells a joined call from the others, and what is selected.      *)
LEMMA ShapeTells ==
  ASSUME NEW q \in AllRequests, NEW p \in Answers
  PROVE  /\ Joined(q, p) <=> Len(Shape(q, p).urls) = 1
         /\ Joined(q, p) => /\ Shape(q, p).urls[1] = normalize[q.urls[1]]
                            /\ Shape(q, p).beyond = q.beyond
         /\ Selected(q, p) =
              {r \in Rows : /\ Len(Shape(q, p).urls) = 1 => r[1] = p
                            /\ r[2] > Shape(q, p).beyond}
  <1>1. Joined(q, p) => Len(Shape(q, p).urls) = 1 /\ Shape(q, p).beyond = q.beyond
                        /\ Shape(q, p).urls[1] = normalize[q.urls[1]]
    BY DEF Shape
  <1>2. ~Joined(q, p) => Len(Shape(q, p).urls) # 1
    BY DEF Shape, Joined, Dropped, NamesDocument
  <1>3. /\ Dropped(q, p) => Shape(q, p).beyond = 0
        /\ ~Dropped(q, p) => Shape(q, p).beyond = q.beyond
        /\ Joined(q, p) => ~Dropped(q, p)
    BY DEF Shape, Joined, Dropped
  <1>4. \A r \in Rows : r[2] > 0
    BY RowsTyped
  <1>5. QED
    BY <1>1, <1>2, <1>3, <1>4 DEF Selected

(* A shape does not depend on the limit, nor on which document it is.      *)
LEMMA ShapeRepeats ==
  ASSUME NEW q \in AllRequests, NEW asked \in AllRequests, NEW p, NEW of,
         asked = [q EXCEPT !.limit = asked.limit], (of = NoParent) = (p = NoParent)
  PROVE  Shape(asked, of) = Shape(q, p)
  <1>1. asked.urls = q.urls /\ asked.sort = q.sort /\ asked.beyond = q.beyond
    BY RequestTyped
  <1>2. (of = NoParent) <=> (p = NoParent)
    OBVIOUS
  <1>3. QED
    BY <1>1, <1>2 DEF Shape, Joined, Dropped, NamesDocument

(* Decoding undoes encoding.                                               *)
LEMMA DecodedLast ==
  ASSUME NEW q, NEW p, NEW walk, NEW last \in Selected(q, p)
  PROVE  /\ Decoded(Encoded(q, p, last, walk), q, p) = last
         /\ Encoded(q, p, last, walk).value = Column(q.sort, last)
         /\ Encoded(q, p, last, walk).shape = Shape(q, p)
         /\ Encoded(q, p, last, walk).walk = walk
  <1>1. last \in Rows /\ last = <<last[1], last[2]>> /\ (Joined(q, p) => last[1] = p)
    BY RowsTyped DEF Selected
  <1>2. QED
    BY <1>1 DEF Decoded, Encoded

LEMMA QueryingCall ==
  ASSUME Typed, NEW c \in Callers, GetRows(c)
  PROVE  request[c] \in AllRequests /\ parent[c] \in Answers
  BY DEF GetRows, Typed, TypeOK, Underway, AllRequests

(* The rows a query in mid-walk is given come from what the walk has not   *)
(* seen.                                                                   *)
LEMMA LeftOfWalk ==
  ASSUME Typed, CursorsTruthful, NEW c \in Callers, GetRows(c), Walk(c).steady
  PROVE  LET q == request[c]
             seen == UNION {walk.seen : walk \in Before(c)}
         IN  /\ Left(c) = Selected(q, parent[c]) \ seen
             /\ seen \subseteq Selected(q, parent[c])
             /\ \A r \in seen, s \in Left(c) : ~After(q.sort, r, s)
  <1> DEFINE q == request[c]
             p == parent[c]
             seen == UNION {walk.seen : walk \in Before(c)}
  <1>1. q \in AllRequests /\ p \in Answers /\ q.sort \in Sorts
    BY QueryingCall, RequestTyped
  <1>2. Carries(used[c]) /\ InShape(c)
    BY DEF GetRows, CursorsTruthful
  <1>3. CASE DOMAIN used[c] = {}
    <2>1. Before(c) = {} /\ Left(c) = Selected(q, p)
      BY <1>3 DEF Before, Left
    <2>2. QED
      BY <2>1
  <1>4. CASE DOMAIN used[c] = {1}
    <2> DEFINE cursor == used[c][1]
               asked == cursor.walk.asked
               last == Decoded(cursor, asked, cursor.walk.of)
    <2>1. Before(c) = {cursor.walk} /\ seen = cursor.walk.seen
      BY <1>4 DEF Before
    <2>2. Truthful(cursor) /\ cursor.shape = Shape(q, p)
      BY <1>2, <1>4 DEF Carries, InShape
    <2>3. cursor.walk.steady /\ cursor.walk.of = p /\ asked.sort = q.sort
      <3>1. \A walk \in Before(c) : walk.steady /\ SameList(walk, c)
        BY DEF Walk
      <3>2. QED
        BY <2>1, <3>1 DEF SameList
    <2>4. asked \in AllRequests /\ Shape(asked, p) = Shape(q, p)
      BY <2>2, <2>3 DEF Truthful
    <2>5. /\ Selected(asked, p) = Selected(q, p)
          /\ Joined(asked, p) <=> Joined(q, p)
      <3> HIDE DEF q, p, asked
      <3>1. ASSUME NEW one \in {q, asked}
            PROVE  /\ Joined(one, p) <=> Len(Shape(q, p).urls) = 1
                   /\ Selected(one, p) =
                        {r \in Rows : /\ Len(Shape(q, p).urls) = 1 => r[1] = p
                                      /\ r[2] > Shape(q, p).beyond}
        <4>1. one \in AllRequests /\ p \in Answers /\ Shape(one, p) = Shape(q, p)
          BY <1>1, <2>4
        <4>2. QED
          BY <4>1, ShapeTells
      <3>2. QED
        BY <3>1
    <2>6. last = Decoded(cursor, q, p)
      BY <2>3, <2>5 DEF Decoded
    <2>7. /\ last \in Rows /\ cursor.value = Column(q.sort, last)
          /\ seen = {r \in Selected(q, p) : ~After(q.sort, r, last)}
      BY <2>1, <2>2, <2>3, <2>5 DEF Truthful, Reached
    <2>8. Left(c) = {r \in Selected(q, p) : After(q.sort, r, last)}
      BY <1>4, <2>6, <2>7 DEF Left, After
    <2> HIDE DEF q, p, seen, last
    <2>9. ASSUME NEW r \in seen, NEW s \in Left(c) PROVE ~After(q.sort, r, s)
      <3>1. r \in Rows /\ s \in Rows /\ ~After(q.sort, r, last) /\ After(q.sort, s, last)
        BY <2>7, <2>8, <2>9 DEF Selected
      <3>2. QED
        BY <1>1, <2>7, <3>1, AfterOrders
    <2>10. QED
      BY <2>7, <2>8, <2>9 DEF q, p, seen
  <1>5. QED
    BY <1>2, <1>3, <1>4 DEF Carries

(* The page a call is given.                                               *)
LEMMA GivenPage ==
  ASSUME Typed, NEW c \in Callers, GetRows(c)
  PROVE  /\ Given(c) \subseteq Left(c)
         /\ Left(c) \subseteq Selected(request[c], parent[c])
         /\ Left(c) \in SUBSET Rows
         /\ \A x \in Left(c) \ Given(c), y \in Given(c) : After(request[c].sort, x, y)
         /\ Given(c) # Left(c) => Given(c) # {}
  <1>1. /\ Left(c) \subseteq Selected(request[c], parent[c])
        /\ Left(c) \in SUBSET Rows
    BY DEF Left, Selected
  <1>2. request[c].sort \in Sorts /\ request[c].limit \in Nat \ {0}
    BY QueryingCall, RequestTyped
  <1>3. QED
    BY <1>1, <1>2, PageIsPrefix DEF Given

LEMMA NextCursorTruthful ==
  ASSUME Typed, CursorsTruthful, NEW c \in Callers, GetRows(c), Given(c) # Left(c)
  PROVE  Truthful(Encoded(request[c], parent[c], LastOf(request[c].sort, Given(c)), Walk(c)))
  <1> DEFINE q == request[c]
             p == parent[c]
             last == LastOf(q.sort, Given(c))
             seen == UNION {walk.seen : walk \in Before(c)}
             cursor == Encoded(q, p, last, Walk(c))
  <1>1. q \in AllRequests /\ q.sort \in Sorts
    BY QueryingCall, RequestTyped
  <1>2. /\ Given(c) \subseteq Left(c) /\ Left(c) \subseteq Selected(q, p)
        /\ Given(c) \in SUBSET Rows /\ Given(c) # {}
        /\ \A x \in Left(c) \ Given(c), y \in Given(c) : After(q.sort, x, y)
    BY GivenPage
  <1>3. /\ last \in Given(c)
        /\ \A s \in Given(c) : s = last \/ After(q.sort, last, s)
    BY <1>1, <1>2, LastOfPage
  <1>4. last \in Selected(q, p) /\ last \in Rows
    BY <1>2, <1>3
  <1>5. /\ Walk(c).asked = q /\ Walk(c).of = p
        /\ Walk(c).seen = Given(c) \cup seen
    BY DEF Walk
  <1>6. /\ Decoded(cursor, q, p) = last /\ cursor.value = Column(q.sort, last)
        /\ cursor.shape = Shape(q, p) /\ cursor.walk = Walk(c)
    <2> HIDE DEF last, q, p
    <2>1. QED
      BY <1>4, DecodedLast
  <1>7. ASSUME Walk(c).steady
        PROVE  Given(c) \cup seen = {r \in Selected(q, p) : ~After(q.sort, r, last)}
    <2>1. /\ Left(c) = Selected(q, p) \ seen /\ seen \subseteq Selected(q, p)
          /\ \A r \in seen, s \in Left(c) : ~After(q.sort, r, s)
      BY <1>7, LeftOfWalk
    <2> HIDE DEF q, p, last, seen
    <2>2. \A r \in Given(c) : ~After(q.sort, r, last)
      BY <1>1, <1>2, <1>3, AfterOrders
    <2>3. \A r \in seen : ~After(q.sort, r, last)
      BY <1>2, <1>3, <2>1
    <2>4. \A r \in Selected(q, p) \ (Given(c) \cup seen) : After(q.sort, r, last)
      BY <1>2, <1>3, <2>1
    <2>5. QED
      BY <1>2, <2>1, <2>2, <2>3, <2>4
  <1>8. Walk(c).steady => Reached(cursor)
    <2> HIDE DEF q, p, last, seen, cursor
    <2>1. QED
      BY <1>4, <1>5, <1>6, <1>7 DEF Reached
  <1>9. QED
    <2> HIDE DEF q, p, last, seen, cursor
    <2>1. Truthful(cursor)
      BY <1>1, <1>5, <1>6, <1>8 DEF Truthful
    <2>2. QED
      BY <2>1 DEF cursor, last, q, p

LEMMA NextCarries ==
  ASSUME Typed, CursorsTruthful, NEW c \in Callers, GetRows(c)
  PROVE  Carries(held'[c])
  <1> DEFINE next == Encoded(request[c], parent[c], LastOf(request[c].sort, Given(c)), Walk(c))
  <1>1. CASE Given(c) = Left(c)
    <2>1. held'[c] = << >>
      BY <1>1 DEF GetRows, Typed, TypeOK
    <2>2. QED
      BY <2>1 DEF Carries
  <1>2. CASE Given(c) # Left(c)
    <2>1. Truthful(next)
      BY <1>2, NextCursorTruthful
    <2> HIDE DEF next
    <2>2. held'[c] = <<next>>
      BY <1>2 DEF GetRows, Typed, TypeOK, next
    <2>3. QED
      BY <2>1, <2>2 DEF Carries
  <1>3. QED
    BY <1>1, <1>2

(* What a step does to the cursors of a call and to its query.             *)
Moved(c) ==
  /\ used'[c] \in {used[c], << >>, held[c]}
  /\ held'[c] = held[c] \/ GetRows(c)
  /\ pc'[c] = "querying" =>
       /\ pc[c] = "querying" \/ SendQuery(c)
       /\ used'[c] = used[c] /\ request'[c] = request[c] /\ parent'[c] = parent[c]

(* A step of another call.                                                 *)
LEMMA OthersMoved ==
  ASSUME Typed, NEW d \in Callers, OthersWait(d),
         \A c \in Callers \ {d} : used'[c] = used[c] /\ held'[c] = held[c]
                               /\ request'[c] = request[c] /\ parent'[c] = parent[c]
  PROVE  \A c \in Callers \ {d} : Moved(c)
  BY DEF OthersWait, Moved

LEMMA MovedByStep ==
  Typed /\ Exclusive(Holding) /\ [Next]_vars => \A c \in Callers : Moved(c)
  <1> SUFFICES ASSUME Typed, Exclusive(Holding), [Next]_vars PROVE \A c \in Callers : Moved(c)
    OBVIOUS
  <1>1. /\ pc \in [Callers -> Places] /\ DOMAIN request = Callers /\ DOMAIN parent = Callers
        /\ DOMAIN used = Callers /\ DOMAIN held = Callers
    BY DEF Typed, TypeOK, LockTypeOK
  <1>2. ASSUME NEW d \in Callers, NEW q \in Requests[d], Call(d, q) PROVE \A c \in Callers : Moved(c)
    <2>1. pc'[d] \in {"resolved", "locked", "waiting"} /\ OthersWait(d)
      BY <1>1, <1>2 DEF Call, Enter, PassThrough, TakeLock, WaitForLock, OthersWait
    <2>2. /\ held' = held /\ used'[d] \in {<< >>, held[d]}
          /\ \A c \in Callers \ {d} : used'[c] = used[c] /\ request'[c] = request[c]
                                   /\ parent'[c] = parent[c]
      BY <1>1, <1>2 DEF Call, Enter
    <2>3. QED
      BY <2>1, <2>2, OthersMoved DEF Moved
  <1>3. ASSUME NEW d \in Callers, OthersWait(d), pc'[d] # "querying",
               UNCHANGED request \/ Forget(d),
               UNCHANGED parent \/ Forget(d) \/ (\E p : parent' = [parent EXCEPT ![d] = p]),
               UNCHANGED pageVars \/ (DropCursor(d) /\ (UNCHANGED held \/ GetRows(d)))
        PROVE  \A c \in Callers : Moved(c)
    <2>1. \A c \in Callers \ {d} : request'[c] = request[c] /\ parent'[c] = parent[c]
      BY <1>1, <1>3 DEF Forget
    <2>2. /\ \A c \in Callers \ {d} : used'[c] = used[c] /\ held'[c] = held[c]
          /\ used'[d] \in {used[d], << >>}
          /\ held'[d] = held[d] \/ GetRows(d)
      BY <1>1, <1>3 DEF DropCursor, pageVars, GetRows
    <2>3. QED
      BY <1>3, <2>1, <2>2, OthersMoved DEF Moved
  <1>4. ASSUME NEW d \in Callers, NEW place \in Places,
               pc' = [pc EXCEPT ![d] = place]
        PROVE  OthersWait(d) /\ pc'[d] = place
    BY <1>1, <1>4 DEF OthersWait
  <1>5. ASSUME NEW d \in Callers, Joining(d) \/ JoinFails(d) PROVE \A c \in Callers : Moved(c)
    <2>1. CASE SendLookup(d) /\ UNCHANGED pageVars
      BY <1>3, <1>4, <2>1, PlacesDistinct DEF SendLookup
    <2>2. CASE (Serve(d) \/ StoreParent(d)) /\ UNCHANGED pageVars
      <3>1. OthersWait(d) /\ pc'[d] = "resolved"
        BY <2>2, PassOnMoves, PlacesDistinct DEF Serve, StoreParent
      <3>2. QED
        BY <1>3, <2>2, <3>1 DEF Serve, StoreParent
    <2>3. CASE JoinFails(d)
      <3>1. OthersWait(d) /\ pc'[d] = "idle"
        BY <2>3, PassOnMoves, PlacesDistinct DEF JoinFails, LookupFails
      <3>2. QED
        BY <1>3, <2>3, <3>1 DEF JoinFails, LookupFails
    <2>4. QED
      BY <1>5, <2>1, <2>2, <2>3 DEF Joining, Resolve
  <1>6. ASSUME NEW d \in Callers, Over(d), UNCHANGED held \/ GetRows(d) PROVE \A c \in Callers : Moved(c)
    BY <1>3, <1>4, <1>6, PlacesDistinct DEF Over
  <1>7. ASSUME NEW d \in Callers, SendQuery(d) PROVE \A c \in Callers : Moved(c)
    BY <1>1, <1>7 DEF SendQuery, pageVars, Moved
  <1>8. ASSUME NEW d \in Callers, Cancel(d) PROVE \A c \in Callers : Moved(c)
    <2>1. CASE CancelHolder(d) /\ DropCursor(d)
      <3>1. OthersWait(d) /\ pc'[d] = "idle"
        BY <2>1, PassOnMoves, PlacesDistinct DEF CancelHolder
      <3>2. QED
        BY <1>3, <1>8, <2>1, <3>1 DEF CancelHolder, Cancel
    <2>2. CASE CancelWaiter(d) /\ DropCursor(d)
      BY <1>3, <1>4, <1>8, <2>2, PlacesDistinct DEF CancelWaiter, Cancel
    <2>3. CASE Over(d)
      BY <1>6, <1>8, <2>3 DEF Cancel
    <2>4. QED
      BY <1>8, <2>1, <2>2, <2>3 DEF Cancel, CancelJoin
  <1>9. CASE World \/ UNCHANGED vars
    <2>1. UNCHANGED <<pc, request, parent, used, held>>
      BY <1>9 DEF World, Tick, Rescrape, vars, joinVars, pageVars
    <2>2. QED
      BY <2>1 DEF Moved
  <1>10. ASSUME NEW d \in Callers, Advance(d) PROVE \A c \in Callers : Moved(c)
    BY <1>5, <1>6, <1>7, <1>10 DEF Advance, RefuseLimit, RefuseCursor, GetRows, QueryFails
  <1>11. QED
    BY <1>2, <1>8, <1>9, <1>10 DEF Next

LEMMA CursorsTruthfulStep ==
  Typed /\ Exclusive(Holding) /\ CursorsTruthful /\ [Next]_vars => CursorsTruthful'
  <1> SUFFICES ASSUME Typed, Exclusive(Holding), CursorsTruthful, [Next]_vars,
                      NEW c \in Callers
               PROVE  /\ Carries(used'[c]) /\ Carries(held'[c])
                      /\ pc'[c] = "querying" => InShape(c)'
    BY DEF CursorsTruthful, Carries, Truthful, Reached
  <1>1. Moved(c)
    BY MovedByStep
  <1>2. Carries(<< >>)
    BY DEF Carries
  <1>3. Carries(used'[c])
    BY <1>1, <1>2 DEF Moved, CursorsTruthful
  <1>4. Carries(held'[c])
    BY <1>1, NextCarries DEF Moved, CursorsTruthful
  <1>5. ASSUME pc'[c] = "querying" PROVE InShape(c)'
    <2>1. InShape(c)
      BY <1>1, <1>5 DEF Moved, SendQuery, CursorsTruthful
    <2>2. QED
      BY <1>1, <1>5, <2>1 DEF Moved, InShape
  <1>6. QED
    BY <1>3, <1>4, <1>5

LEMMA CursorsHold == Spec => [](Typed /\ SingleFlight /\ CursorsTruthful)
  <1>1. Init => CursorsTruthful
    <2>1. Carries(<< >>)
      BY DEF Carries
    <2>2. QED
      BY <2>1, PlacesDistinct DEF Init, JoinInit, CursorsTruthful
  <1>2. Locked /\ CursorsTruthful /\ [Next]_vars => CursorsTruthful'
    BY CursorsTruthfulStep DEF Locked, SingleFlight
  <1>3. Locked => Typed /\ SingleFlight
    BY DEF Locked
  <1>4. QED
    BY <1>1, <1>2, <1>3, LockedHolds, PTL DEF Spec

(* A page of a walk begins what the walk has not seen yet of its list.     *)
LEMMA WalkStep ==
  ASSUME Typed, CursorsTruthful, NEW c \in Callers, GetRows(c),
         \A walk \in Before(c) : walk.steady /\ SameList(walk, c)
  PROVE  LET q == request[c]
             before == UNION {walk.seen : walk \in Before(c)}
             rest == Selected(q, parent[c]) \ (before \cup Given(c))
         IN  /\ Given(c) \cap before = {}
             /\ \A x \in rest, y \in Given(c) : Follows(q.sort, x, Column(q.sort, y), y)
             /\ held'[c] = << >> => rest = {}
  <1> DEFINE q == request[c]
             before == UNION {walk.seen : walk \in Before(c)}
             rest == Selected(q, parent[c]) \ (before \cup Given(c))
  <1>1. Walk(c).steady
    BY DEF Walk
  <1>2. Left(c) = Selected(q, parent[c]) \ before
    BY <1>1, LeftOfWalk
  <1>3. /\ Given(c) \subseteq Left(c)
        /\ \A x \in Left(c) \ Given(c), y \in Given(c) : After(q.sort, x, y)
    BY GivenPage
  <1>4. rest = Left(c) \ Given(c)
    BY <1>2
  <1>5. held'[c] = << >> => Given(c) = Left(c)
    <2> DEFINE next == Encoded(q, parent[c], LastOf(q.sort, Given(c)), Walk(c))
    <2>1. Given(c) # Left(c) => held'[c] = <<next>>
      BY DEF GetRows, Typed, TypeOK
    <2> HIDE DEF next
    <2>2. <<next>> # << >>
      OBVIOUS
    <2>3. QED
      BY <2>1, <2>2
  <1> HIDE DEF q, before, rest
  <1>6. /\ Given(c) \cap before = {}
        /\ \A x \in rest, y \in Given(c) : Follows(q.sort, x, Column(q.sort, y), y)
        /\ held'[c] = << >> => rest = {}
    BY <1>2, <1>3, <1>4, <1>5 DEF After
  <1>7. QED
    BY <1>6 DEF q, before, rest

(* As long as the document keeps its key and the sort stays the same, the  *)
(* pages of a walk neither overlap nor skip a fragment, and the last one   *)
(* completes it: for any number of fragments, insertion order and limits.  *)
THEOREM WalkIsExactHolds == Spec => WalkIsExact
  <1>1. Typed /\ CursorsTruthful =>
          \A c \in Callers :
            GetRows(c) /\ (\A walk \in Before(c) : walk.steady /\ SameList(walk, c)) =>
              LET q == request[c]
                  before == UNION {walk.seen : walk \in Before(c)}
                  rest == Selected(q, parent[c]) \ (before \cup Given(c))
              IN  /\ Given(c) \cap before = {}
                  /\ \A x \in rest, y \in Given(c) : Follows(q.sort, x, Column(q.sort, y), y)
                  /\ held'[c] = << >> => rest = {}
    BY WalkStep
  <1>2. QED
    BY <1>1, CursorsHold, PTL DEF WalkIsExact

LEMMA BindsStep ==
  ASSUME Typed, CursorsTruthful, NEW c \in Callers,
         GetRows(c), Joined(request[c], parent[c]), NEW walk \in Before(c)
  PROVE  /\ NamesDocument(walk.asked)
         /\ SameDocument(request[c], walk.asked)
         /\ request[c].beyond = walk.asked.beyond
  <1>1. PICK i \in DOMAIN used[c] : walk = used[c][i].walk
    BY DEF Before
  <1>2. /\ Truthful(used[c][i])
        /\ used[c][i].shape = Shape(request[c], parent[c])
    BY DEF CursorsTruthful, Carries, GetRows, InShape
  <1>3. /\ walk.asked \in AllRequests
        /\ Shape(walk.asked, walk.of) = Shape(request[c], parent[c])
    BY <1>1, <1>2 DEF Truthful
  <1>4. Shape(request[c], parent[c]) =
          [sort |-> "none", urls |-> <<normalize[request[c].urls[1]]>>, beyond |-> request[c].beyond]
    BY DEF Shape
  <1>5. Joined(walk.asked, walk.of)
    <2>1. Len(Shape(walk.asked, walk.of).urls) = 1
      BY <1>3, <1>4
    <2>2. QED
      BY <2>1 DEF Shape, Joined, Dropped, NamesDocument
  <1>6. Shape(walk.asked, walk.of) =
          [sort |-> "none", urls |-> <<normalize[walk.asked.urls[1]]>>, beyond |-> walk.asked.beyond]
    BY <1>5 DEF Shape
  <1>7. QED
    BY <1>3, <1>4, <1>5, <1>6 DEF Joined, SameDocument

(* A cursor that a joined call gets rows with was made for the same        *)
(* document's URL and the same other filters; the one it is given has no   *)
(* key of a document.                                                      *)
THEOREM CursorBindsFiltersHolds == Spec => CursorBindsFilters
  <1>1. Typed' => \A c \in Callers : HidesKey(held'[c])
    BY DEF Typed, TypeOK, HidesKey
  <1>2. Typed /\ CursorsTruthful /\ Typed' =>
          \A c \in Callers : GetRows(c) /\ Joined(request[c], parent[c]) =>
            /\ \A walk \in Before(c) :
                 /\ NamesDocument(walk.asked)
                 /\ SameDocument(request[c], walk.asked)
                 /\ request[c].beyond = walk.asked.beyond
            /\ HidesKey(held'[c])
    BY <1>1, BindsStep
  <1>3. QED
    BY <1>2, CursorsHold, PTL DEF CursorBindsFilters

LEMMA RefusalStep ==
  ASSUME Typed, CursorsTruthful, NEW c \in Callers, RefuseCursor(c)
  PROVE  \E walk \in Before(c) :
           \/ walk.asked # [request[c] EXCEPT !.limit = walk.asked.limit]
           \/ (walk.of = NoParent) # (parent[c] = NoParent)
  <1>1. PICK i \in DOMAIN used[c] : used[c][i].shape # Shape(request[c], parent[c])
    BY DEF RefuseCursor, InShape
  <1>2. Truthful(used[c][i]) /\ used[c][i].walk \in Before(c)
    BY DEF CursorsTruthful, Carries, Before
  <1>3. request[c] \in AllRequests
    BY DEF RefuseCursor, Typed, Underway, AllRequests
  <1>4. \/ used[c][i].walk.asked # [request[c] EXCEPT !.limit = used[c][i].walk.asked.limit]
        \/ (used[c][i].walk.of = NoParent) # (parent[c] = NoParent)
    BY <1>1, <1>2, <1>3, ShapeRepeats DEF Truthful
  <1>5. QED
    BY <1>2, <1>4

(* A cursor is only refused to a call that asks for something else, or     *)
(* whose document appeared or disappeared.                                 *)
THEOREM InvalidCursorMeansOtherRequestHolds == Spec => InvalidCursorMeansOtherRequest
  <1>1. Typed /\ CursorsTruthful =>
          \A c \in Callers : RefuseCursor(c) =>
            \E walk \in Before(c) :
              \/ walk.asked # [request[c] EXCEPT !.limit = walk.asked.limit]
              \/ (walk.of = NoParent) # (parent[c] = NoParent)
    BY RefusalStep
  <1>2. QED
    BY <1>1, CursorsHold, PTL DEF InvalidCursorMeansOtherRequest
=============================================================================
