------------------------ MODULE MetadataCacheProofs ------------------------
(***************************************************************************)
(* For every set of callers, every TTL and every upstream history: the     *)
(* lock protects the refresh, the data never regresses, a caller gets None *)
(* only because of a failure, and a forced refresh gets what it asks for.  *)
(***************************************************************************)
EXTENDS MetadataCacheProperties, AnyioLockProofs

(***************************************************************************)
(* Typing.                                                                 *)
(***************************************************************************)

LEMMA LeaveTyped ==
  ASSUME TypeOK, NEW p \in Callers, NEW calls \in [Callers -> Calls], Leave(p, calls)
  PROVE  /\ LockTypeOK(Places)'
         /\ answer' \in [Callers -> Nat]
         /\ call' \in [Callers -> Calls]
  <1>1. LockTypeOK(Places)'
    BY PassOnTyped DEF TypeOK, LockTypeOK, Leave, PassOn, Places
  <1>2. answer' \in [Callers -> Nat]
    BY DEF TypeOK, LockTypeOK, Leave, PassOn, NoData
  <1>3. call' \in [Callers -> Calls]
    BY DEF Leave, PassOn, NoCall, Calls
  <1>4. QED
    BY <1>1, <1>2, <1>3

LEMMA SpoiledTyped == TypeOK => Spoiled \in [Callers -> Calls]
  BY DEF TypeOK, LockTypeOK, Spoiled, Calls

LEMMA EnsureFreshTyped ==
  ASSUME TypeOK, NEW p \in Callers, NEW kind \in {"lookup", "force"}, NEW last \in Nat,
         EnsureFresh(p, kind, last)
  PROVE  TypeOK'
  <1> DEFINE c == [kind |-> kind, asked |-> upstream, spoiled |-> FALSE,
                   busy |-> owner # NoOne, aged |-> mono >= Ttl,
                   behind |-> owner # NoOne /\ pc[owner] = "granted"]
  <1>1. c \in Calls
    BY DEF TypeOK, LockTypeOK, Calls
  <1>2. /\ {data', lastFetch', upstream', mono', loadedAt'} \subseteq Nat
        /\ answer' \in [Callers -> Nat]
    BY DEF TypeOK, LockTypeOK, EnsureFresh
  <1>3. CASE ServeCached(p, c, last)
    BY <1>2, <1>3 DEF TypeOK, LockTypeOK, ServeCached
  <1>4. CASE WaitForFirstLoad(p, c, last)
    <2>1. waiters' \in Seq(Callers)
      BY <1>4 DEF TypeOK, LockTypeOK, WaitForFirstLoad, Enqueue
    <2>2. pc' \in [Callers -> Places] /\ call' \in [Callers -> Calls] /\ owner' = owner
      BY <1>1, <1>4 DEF TypeOK, LockTypeOK, WaitForFirstLoad, Enqueue, Places
    <2>3. QED
      BY <1>2, <2>1, <2>2 DEF TypeOK, LockTypeOK
  <1>5. CASE TakeLock(p, c, last)
    <2>1. pc' \in [Callers -> Places] /\ call' \in [Callers -> Calls]
      BY <1>1, <1>5 DEF TypeOK, LockTypeOK, TakeLock, Acquire, Places
    <2>2. owner' \in Callers \cup {NoOne} /\ waiters' \in Seq(Callers)
      BY <1>5 DEF TypeOK, LockTypeOK, TakeLock, Acquire
    <2>3. QED
      BY <1>2, <2>1, <2>2 DEF TypeOK, LockTypeOK
  <1>6. QED
    BY <1>3, <1>4, <1>5 DEF EnsureFresh

LEMMA TypeOKStep == TypeOK /\ [Next]_vars => TypeOK'
  <1> SUFFICES ASSUME TypeOK, [Next]_vars PROVE TypeOK'
    OBVIOUS
  <1>1. ASSUME NEW p \in Callers, Lookup(p) PROVE TypeOK'
    <2>1. lastFetch \in Nat
      BY DEF TypeOK, LockTypeOK
    <2>2. QED
      BY <1>1, <2>1, EnsureFreshTyped DEF Lookup
  <1>2. ASSUME NEW p \in Callers, ForceRefresh(p) PROVE TypeOK'
    BY <1>2, EnsureFreshTyped DEF ForceRefresh
  <1>3. ASSUME NEW p \in Callers, DoubleCheck(p) PROVE TypeOK'
    <2>1. CASE Fresh(lastFetch)
      <3>1. Leave(p, call) /\ UNCHANGED <<data, lastFetch, upstream, mono, loadedAt>>
        BY <1>3, <2>1 DEF DoubleCheck
      <3>2. call \in [Callers -> Calls]
        BY DEF TypeOK, LockTypeOK
      <3>3. QED
        BY <3>1, <3>2, LeaveTyped DEF TypeOK, LockTypeOK
    <2>2. CASE ~Fresh(lastFetch)
      BY <1>3, <2>2 DEF DoubleCheck, TypeOK, LockTypeOK, Places
    <2>3. QED
      BY <2>1, <2>2
  <1>4. ASSUME NEW p \in Callers, Answer(p) PROVE TypeOK'
    BY <1>4 DEF Answer, TypeOK, LockTypeOK, Places
  <1>5. ASSUME NEW p \in Callers, StoreAnswer(p) PROVE TypeOK'
    <2>1. call \in [Callers -> Calls] /\ answer[p] \in Nat /\ mono \in Nat
      BY DEF TypeOK, LockTypeOK
    <2>2. QED
      BY <1>5, <2>1, LeaveTyped DEF StoreAnswer, TypeOK, LockTypeOK
  <1>6. ASSUME NEW p \in Callers, FetchFails(p) PROVE TypeOK'
    BY <1>6, SpoiledTyped, LeaveTyped DEF FetchFails, TypeOK, LockTypeOK
  <1>7. ASSUME NEW p \in Callers, WaiterReturns(p) PROVE TypeOK'
    <2>1. call \in [Callers -> Calls]
      BY DEF TypeOK, LockTypeOK
    <2>2. QED
      BY <1>7, <2>1, LeaveTyped DEF WaiterReturns, TypeOK, LockTypeOK
  <1>8. ASSUME NEW p \in Callers, CancelHolder(p) PROVE TypeOK'
    <2>1. (IF pc[p] = "granted" THEN call ELSE Spoiled) \in [Callers -> Calls]
      BY SpoiledTyped DEF TypeOK, LockTypeOK
    <2>2. QED
      BY <1>8, <2>1, LeaveTyped DEF CancelHolder, TypeOK, LockTypeOK
  <1>9. ASSUME NEW p \in Callers, CancelWaiter(p) PROVE TypeOK'
    <2>1. waiters' \in Seq(Callers)
      BY <1>9, WithoutTyped DEF CancelWaiter, Abandon, TypeOK, LockTypeOK
    <2>2. QED
      BY <1>9, <2>1 DEF CancelWaiter, Abandon, TypeOK, LockTypeOK, Places, Calls, NoCall
  <1>10. CASE Publish
    BY <1>10 DEF Publish, TypeOK, LockTypeOK
  <1>11. CASE Tick
    BY <1>11 DEF Tick, TypeOK, LockTypeOK
  <1>12. CASE UNCHANGED vars
    BY <1>12 DEF vars, TypeOK, LockTypeOK
  <1>13. QED
    BY <1>1, <1>2, <1>3, <1>4, <1>5, <1>6, <1>7, <1>8, <1>9, <1>10, <1>11, <1>12
       DEF Next, Resume, Cancel

(* The variables keep their types.                                         *)
THEOREM TypeCorrect == Spec => []TypeOK
  <1>1. Init => TypeOK
    BY CacheParameters, LockParameters DEF Init, TypeOK, LockTypeOK, NoData, Places, Calls, NoCall
  <1>2. QED
    BY <1>1, TypeOKStep, PTL DEF Spec

(***************************************************************************)
(* Single flight.                                                          *)
(***************************************************************************)

LEMMA FairIsLock ==
  ASSUME NEW c \in Callers, Fair(Holding)!Enter(c) \/ Fair(Holding)!Leave(c)
  PROVE  Lock!Next
  <1>1. Fair(Holding)!Enter(c) => Lock!Enter(c)
    BY DEF Fair!Enter, Lock!Enter, Fair!Placed, Lock!Placed, Fair!IsIn, Lock!IsIn
  <1>2. Fair(Holding)!Leave(c) => Lock!Leave(c)
    BY DEF Fair!Leave, Lock!Leave, Fair!Placed, Lock!Placed, Fair!IsIn, Lock!IsIn
  <1>3. QED
    BY <1>1, <1>2 DEF Lock!Next

(* Whoever resumes and leaves the lock owns it.                            *)
LEMMA HolderOwns ==
  ASSUME TypeOK, SingleFlight, NEW p \in Callers, pc[p] \in Holding
  PROVE  p = owner
  BY DEF SingleFlight, Exclusive

(* What every step is for the line of requests.                            *)
LockStep == FairState(Holding)' /\ (Lock!Next \/ UNCHANGED <<Line, At(Holding)>>)

LEMMA LockStepTaken == TypeOK /\ FairState(Holding) /\ [Next]_vars => LockStep
  <1> SUFFICES ASSUME TypeOK, FairState(Holding), [Next]_vars PROVE LockStep
    OBVIOUS
  <1>1. /\ LockTypeOK(Places) /\ LockTypeOK(Places)' /\ "waiting" \notin Holding
        /\ "idle" \notin Holding /\ {"acquired", "fetching", "answered", "granted"} \subseteq Holding
    BY TypeOKStep DEF TypeOK, Holding
  <1>2. \A p \in Callers : pc[p] \in Holding => p = owner
    BY DEF FairState, Exclusive
  <1>3. CASE UNCHANGED <<owner, waiters, pc>>
    BY <1>3 DEF LockStep, FairState, Exclusive, Queued, Line, At
  <1>4. ASSUME NEW p \in Callers, Lookup(p) \/ ForceRefresh(p) PROVE LockStep
    <2>1. PICK c, last : \/ ServeCached(p, c, last)
                         \/ WaitForFirstLoad(p, c, last)
                         \/ TakeLock(p, c, last)
      BY <1>4 DEF Lookup, ForceRefresh, EnsureFresh
    <2>2. pc[p] = "idle"
      BY <1>4 DEF Lookup, ForceRefresh, EnsureFresh
    <2>3. CASE ServeCached(p, c, last)
      BY <1>3, <2>3 DEF ServeCached
    <2>4. CASE WaitForFirstLoad(p, c, last)
      BY <1>1, <2>2, <2>4, EnqueueEnters, FairIsLock DEF WaitForFirstLoad, LockStep
    <2>5. CASE TakeLock(p, c, last)
      BY <1>1, <2>2, <2>5, AcquireEnters, FairIsLock DEF TakeLock, LockStep
    <2>6. QED
      BY <2>1, <2>3, <2>4, <2>5
  <1>5. ASSUME NEW p \in Callers, p = owner, NEW calls, Leave(p, calls) PROVE LockStep
    BY <1>1, <1>5, PassOnLeaves, FairIsLock DEF Leave, LockStep
  <1>6. ASSUME NEW p \in Callers, DoubleCheck(p) PROVE LockStep
    <2>1. p = owner
      BY <1>1, <1>2, <1>6 DEF DoubleCheck
    <2>2. CASE Fresh(lastFetch)
      BY <1>5, <1>6, <2>1, <2>2 DEF DoubleCheck
    <2>3. CASE ~Fresh(lastFetch)
      BY <1>1, <1>6, <2>1, <2>3, MoveStutters DEF DoubleCheck, lockVars, LockStep
    <2>4. QED
      BY <2>2, <2>3
  <1>7. ASSUME NEW p \in Callers, Answer(p) PROVE LockStep
    <2>1. p = owner
      BY <1>1, <1>2, <1>7 DEF Answer
    <2>2. QED
      BY <1>1, <1>7, <2>1, MoveStutters DEF Answer, lockVars, LockStep
  <1>8. ASSUME NEW p \in Callers,
               StoreAnswer(p) \/ FetchFails(p) \/ WaiterReturns(p) \/ CancelHolder(p)
        PROVE  LockStep
    <2>1. p = owner
      BY <1>1, <1>2, <1>8 DEF StoreAnswer, FetchFails, WaiterReturns, CancelHolder
    <2>2. \E calls : Leave(p, calls)
      BY <1>8 DEF StoreAnswer, FetchFails, WaiterReturns, CancelHolder
    <2>3. QED
      BY <1>5, <2>1, <2>2
  <1>9. ASSUME NEW p \in Callers, CancelWaiter(p) PROVE LockStep
    BY <1>1, <1>9, AbandonLeaves, FairIsLock DEF CancelWaiter, LockStep
  <1>10. CASE Publish \/ Tick \/ UNCHANGED vars
    BY <1>3, <1>10 DEF Publish, Tick, vars
  <1>11. QED
    BY <1>4, <1>6, <1>7, <1>8, <1>9, <1>10 DEF Next, Resume, Cancel

LEMMA FairStateHolds == Spec => []FairState(Holding)
  <1>1. Init => FairState(Holding)
    BY LockParameters DEF Init, FairState, Exclusive, Queued, Holding
  <1>2. TypeOK /\ FairState(Holding) /\ [Next]_vars => FairState(Holding)'
    BY LockStepTaken DEF LockStep
  <1>3. QED
    BY <1>1, <1>2, TypeCorrect, PTL DEF Spec

(* At most one request refreshes at a time, and it owns the lock.          *)
THEOREM SingleFlightHolds == Spec => []SingleFlight
  <1>1. FairState(Holding) => SingleFlight
    BY DEF FairState, SingleFlight
  <1>2. QED
    BY <1>1, FairStateHolds, PTL

(* The requests are served in the order in which they came, none is        *)
(* forgotten, and none waits for a lock that nobody holds.                 *)
THEOREM ImplementsFairLockHolds == Spec => ImplementsFairLock
  <1>1. Init => Lock!Init
    BY DEF Init, Lock!Init, Lock!Placed, Lock!IsIn, Line, LineOf, At, Standing, Holding
  <1>2. TypeOK /\ FairState(Holding) /\ [Next]_vars => [Lock!Next]_(Lock!vars)
    BY LockStepTaken DEF LockStep, Lock!vars
  <1>3. QED
    BY <1>1, <1>2, TypeCorrect, FairStateHolds, PTL DEF Spec, ImplementsFairLock, Lock!Spec

(***************************************************************************)
(* The data never regresses.                                               *)
(***************************************************************************)

LEMMA VersionsInOrderStep ==
  TypeOK /\ SingleFlight /\ VersionsInOrder /\ [Next]_vars => VersionsInOrder' /\ data' >= data
  <1> SUFFICES ASSUME TypeOK, SingleFlight, VersionsInOrder, [Next]_vars
               PROVE  VersionsInOrder' /\ data' >= data
    OBVIOUS
  <1> USE DEF VersionsInOrder
  <1>1. /\ data \in Nat /\ upstream \in Nat /\ pc \in [Callers -> Places]
        /\ answer \in [Callers -> Nat]
    BY DEF TypeOK, LockTypeOK
  (* A task that leaves the lock answers nothing any more.                 *)
  <1>2. ASSUME NEW p \in Callers, NEW calls, Leave(p, calls), UNCHANGED <<data, upstream>>
        PROVE  VersionsInOrder' /\ data' >= data
    <2>1. \A q \in Callers : pc'[q] = "answered" => q # p /\ pc[q] = "answered"
      BY <1>1, <1>2 DEF Leave, PassOn
    <2>2. \A q \in Callers \ {p} : answer'[q] = answer[q]
      BY <1>1, <1>2 DEF Leave, PassOn
    <2>3. QED
      BY <1>1, <1>2, <2>1, <2>2
  <1>3. ASSUME NEW p \in Callers, Lookup(p) \/ ForceRefresh(p)
        PROVE  VersionsInOrder' /\ data' >= data
    <2>1. UNCHANGED <<data, answer, upstream>>
      BY <1>3 DEF Lookup, ForceRefresh, EnsureFresh
    <2>2. \A q \in Callers : pc'[q] = "answered" => pc[q] = "answered"
      BY <1>1, <1>3 DEF Lookup, ForceRefresh, EnsureFresh, ServeCached,
                        WaitForFirstLoad, Enqueue, TakeLock, Acquire
    <2>3. QED
      BY <1>1, <2>1, <2>2
  <1>4. ASSUME NEW p \in Callers, DoubleCheck(p) PROVE VersionsInOrder' /\ data' >= data
    <2>1. CASE Fresh(lastFetch)
      BY <1>2, <1>4, <2>1 DEF DoubleCheck
    <2>2. CASE ~Fresh(lastFetch)
      BY <1>1, <1>4, <2>2 DEF DoubleCheck
    <2>3. QED
      BY <2>1, <2>2
  <1>5. ASSUME NEW p \in Callers, Answer(p) PROVE VersionsInOrder' /\ data' >= data
    BY <1>1, <1>5 DEF Answer
  <1>6. ASSUME NEW p \in Callers, StoreAnswer(p) PROVE VersionsInOrder' /\ data' >= data
    <2>1. /\ pc[p] = "answered" /\ data' = answer[p] /\ upstream' = upstream
          /\ Leave(p, call)
      BY <1>6 DEF StoreAnswer
    <2>2. \A q \in Callers : pc[q] = "answered" => q = p
      BY <2>1, HolderOwns DEF Holding
    <2>3. \A q \in Callers : pc'[q] # "answered"
      BY <1>1, <2>1, <2>2 DEF Leave, PassOn
    <2>4. QED
      BY <1>1, <2>1, <2>3
  <1>7. ASSUME NEW p \in Callers, FetchFails(p) \/ WaiterReturns(p) \/ CancelHolder(p)
        PROVE  VersionsInOrder' /\ data' >= data
    BY <1>2, <1>7 DEF FetchFails, WaiterReturns, CancelHolder
  <1>8. ASSUME NEW p \in Callers, CancelWaiter(p) PROVE VersionsInOrder' /\ data' >= data
    BY <1>1, <1>8 DEF CancelWaiter, Abandon
  <1>9. CASE Publish
    BY <1>1, <1>9 DEF Publish
  <1>10. CASE Tick \/ UNCHANGED vars
    BY <1>1, <1>10 DEF Tick, vars
  <1>11. QED
    BY <1>3, <1>4, <1>5, <1>6, <1>7, <1>8, <1>9, <1>10 DEF Next, Resume, Cancel

LEMMA VersionsInOrderHolds == Spec => []VersionsInOrder
  <1>1. Init => VersionsInOrder
    BY DEF Init, VersionsInOrder, NoData
  <1>2. QED
    BY <1>1, VersionsInOrderStep, TypeCorrect, SingleFlightHolds, PTL DEF Spec

(* A late or lost answer never takes data back.                            *)
THEOREM DataNeverRegressesHolds == Spec => DataNeverRegresses
  <1>1. TypeOK /\ SingleFlight /\ VersionsInOrder /\ [Next]_vars => [data' >= data]_data
    BY VersionsInOrderStep
  <1>2. QED
    BY <1>1, TypeCorrect, SingleFlightHolds, VersionsInOrderHolds, PTL
       DEF Spec, DataNeverRegresses

(***************************************************************************)
(* None only after a failure.                                              *)
(***************************************************************************)

LEMMA NoneStep ==
  /\ TypeOK /\ SingleFlight /\ VersionsInOrder /\ WaitersHaveReason /\ [Next]_vars
  => WaitersHaveReason' /\ (NoneOnlyAfterFailure => NoneOnlyAfterFailure')
  <1> SUFFICES ASSUME TypeOK, SingleFlight, VersionsInOrder, WaitersHaveReason, [Next]_vars
               PROVE  WaitersHaveReason' /\ (NoneOnlyAfterFailure => NoneOnlyAfterFailure')
    OBVIOUS
  <1> DEFINE Refreshing(q) == pc[q] \in {"acquired", "fetching", "answered"}
             Excused(q) == call[q].spoiled \/ call[q].behind
  <1>1. /\ data \in Nat /\ pc \in [Callers -> Places] /\ call \in [Callers -> Calls]
    BY DEF TypeOK, LockTypeOK
  <1>2. Quiet => NoneOnlyAfterFailure'
    BY DEF Quiet, NoneOnlyAfterFailure
  <1>3. \A p, c, value :
          Reply(p, c, value) /\ (value = NoData => c.spoiled \/ c.behind) => NoneOnlyAfterFailure'
    BY DEF Reply, NoneOnlyAfterFailure
  (* The holder leaves the lock with data in place.                        *)
  <1>4. data' # NoData => WaitersHaveReason'
    BY DEF WaitersHaveReason
  (* A refresh ends without storing anything: every running call is told.  *)
  <1>5. ASSUME NEW p \in Callers, Leave(p, Spoiled) PROVE WaitersHaveReason'
    <2>1. \A q \in Callers : pc'[q] # "idle" => q # p /\ pc[q] # "idle"
      <3>1. waiters # << >> => Head(waiters) \in Callers /\ pc[Head(waiters)] = "waiting"
        BY HeadTailProperties, EmptySeq DEF TypeOK, LockTypeOK, SingleFlight, Exclusive
      <3>2. QED
        BY <1>1, <1>5, <3>1 DEF Leave, PassOn
    <2>2. \A q \in Callers \ {p} : call'[q].spoiled = (pc[q] # "idle")
      BY <1>1, <1>5 DEF Leave, PassOn, Spoiled, Calls
    <2>3. QED
      BY <2>1, <2>2 DEF WaitersHaveReason
  (* A task that was handed the lock passes it on.                         *)
  <1>6. ASSUME NEW p \in Callers, pc[p] = "granted", Leave(p, call), data' = data
        PROVE  WaitersHaveReason'
    <2>1. SUFFICES ASSUME data = NoData PROVE WaitersHaveReason'
      BY <1>4, <1>6
    <2>2. \A q \in Callers : ~Refreshing(q)
      BY <1>6, HolderOwns DEF Holding
    <2>3. \A q \in Callers : pc[q] \in {"waiting", "granted"} => Excused(q)
      BY <2>1, <2>2 DEF WaitersHaveReason
    <2>4. \A q \in Callers :
            pc'[q] \in {"waiting", "granted"} => q # p /\ pc[q] \in {"waiting", "granted"}
      <3>1. waiters # << >> => Head(waiters) \in Callers /\ pc[Head(waiters)] = "waiting"
        BY HeadTailProperties, EmptySeq DEF TypeOK, LockTypeOK, SingleFlight, Exclusive
      <3>2. QED
        BY <1>1, <1>6, <3>1 DEF Leave, PassOn
    <2>5. \A q \in Callers \ {p} : call'[q] = call[q]
      BY <1>1, <1>6 DEF Leave, PassOn
    <2>6. QED
      BY <2>3, <2>4, <2>5 DEF WaitersHaveReason
  <1>7. ASSUME NEW p \in Callers, NEW kind, NEW last, EnsureFresh(p, kind, last)
        PROVE  WaitersHaveReason' /\ NoneOnlyAfterFailure'
    <2> DEFINE c == [kind |-> kind, asked |-> upstream, spoiled |-> FALSE,
                     busy |-> owner # NoOne, aged |-> mono >= Ttl,
                     behind |-> owner # NoOne /\ pc[owner] = "granted"]
    <2>1. data' = data /\ pc[p] = "idle"
      BY <1>7 DEF EnsureFresh
    <2>2. CASE ServeCached(p, c, last)
      <3>1. data # NoData
        BY <2>2 DEF ServeCached, Fresh
      <3>2. QED
        BY <1>3, <1>4, <2>1, <2>2, <3>1 DEF ServeCached
    <2>3. CASE WaitForFirstLoad(p, c, last)
      <3>1. /\ \A q \in Callers : pc'[q] = IF q = p THEN "waiting" ELSE pc[q]
            /\ \A q \in Callers : call'[q] = IF q = p THEN c ELSE call[q]
        BY <1>1, <2>3 DEF WaitForFirstLoad, Enqueue
      <3>2. owner # NoOne /\ owner \in Callers
        BY <2>3 DEF WaitForFirstLoad, Enqueue, TypeOK, LockTypeOK
      <3>3. Refreshing(owner) \/ pc[owner] = "granted"
        BY <3>2 DEF SingleFlight, Exclusive, Holding
      <3>4. c.behind \/ Refreshing(owner)
        BY <3>2, <3>3
      <3>5. \A q \in Callers : Refreshing(q) => q # p /\ pc'[q] = pc[q]
        BY <2>1, <3>1
      <3>6. QED
        BY <1>2, <2>1, <2>3, <3>1, <3>2, <3>4, <3>5 DEF WaitersHaveReason, WaitForFirstLoad, Enqueue
    <2>4. CASE TakeLock(p, c, last)
      <3>1. /\ \A q \in Callers : pc'[q] = IF q = p THEN "acquired" ELSE pc[q]
            /\ \A q \in Callers : call'[q] = IF q = p THEN c ELSE call[q]
        BY <1>1, <2>4 DEF TakeLock, Acquire
      <3>2. QED
        BY <1>2, <2>1, <2>4, <3>1 DEF WaitersHaveReason, TakeLock, Acquire
    <2>5. QED
      BY <1>7, <2>2, <2>3, <2>4 DEF EnsureFresh
  <1>8. ASSUME NEW p \in Callers, DoubleCheck(p)
        PROVE  WaitersHaveReason' /\ NoneOnlyAfterFailure'
    <2>1. CASE Fresh(lastFetch)
      BY <1>3, <1>4, <1>8, <2>1 DEF DoubleCheck, Fresh
    <2>2. CASE ~Fresh(lastFetch)
      BY <1>1, <1>2, <1>8, <2>2 DEF DoubleCheck, WaitersHaveReason
    <2>3. QED
      BY <2>1, <2>2
  <1>9. ASSUME NEW p \in Callers, Answer(p) PROVE WaitersHaveReason' /\ NoneOnlyAfterFailure'
    BY <1>1, <1>2, <1>9 DEF Answer, WaitersHaveReason
  <1>10. ASSUME NEW p \in Callers, StoreAnswer(p)
         PROVE  WaitersHaveReason' /\ NoneOnlyAfterFailure'
    <2>1. answer[p] # NoData /\ data' = answer[p] /\ Reply(p, call[p], answer[p])
      BY <1>10 DEF StoreAnswer, VersionsInOrder, NoData
    <2>2. QED
      BY <1>3, <1>4, <2>1
  <1>11. ASSUME NEW p \in Callers, FetchFails(p)
         PROVE  WaitersHaveReason' /\ NoneOnlyAfterFailure'
    <2>1. Spoiled[p].spoiled
      BY <1>1, <1>11 DEF FetchFails, Spoiled, Calls
    <2>2. QED
      BY <1>3, <1>5, <1>11, <2>1 DEF FetchFails
  <1>12. ASSUME NEW p \in Callers, WaiterReturns(p)
         PROVE  WaitersHaveReason' /\ NoneOnlyAfterFailure'
    <2>1. data = NoData => Excused(p)
      BY <1>12 DEF WaiterReturns, WaitersHaveReason
    <2>2. QED
      BY <1>3, <1>6, <1>12, <2>1 DEF WaiterReturns
  <1>13. ASSUME NEW p \in Callers, CancelHolder(p)
         PROVE  WaitersHaveReason' /\ NoneOnlyAfterFailure'
    BY <1>2, <1>5, <1>6, <1>13 DEF CancelHolder
  <1>14. ASSUME NEW p \in Callers, CancelWaiter(p)
         PROVE  WaitersHaveReason' /\ NoneOnlyAfterFailure'
    <2>1. pc[p] = "waiting"
      BY <1>14 DEF CancelWaiter, Abandon, SingleFlight, Exclusive
    <2>2. QED
      BY <1>1, <1>2, <1>14, <2>1 DEF CancelWaiter, Abandon, WaitersHaveReason
  <1>15. CASE Publish \/ Tick
    BY <1>2, <1>15 DEF Publish, Tick, WaitersHaveReason
  <1>16. CASE UNCHANGED vars
    BY <1>16 DEF vars, WaitersHaveReason, NoneOnlyAfterFailure
  <1>17. QED
    BY <1>7, <1>8, <1>9, <1>10, <1>11, <1>12, <1>13, <1>14, <1>15, <1>16
       DEF Next, Resume, Cancel, Lookup, ForceRefresh

(* A lookup returns None only because of a failure while it was running,   *)
(* or behind tasks that waited for one.                                    *)
THEOREM NoneOnlyAfterFailureHolds == Spec => []NoneOnlyAfterFailure
  <1>1. Init => WaitersHaveReason /\ NoneOnlyAfterFailure
    BY DEF Init, WaitersHaveReason, NoneOnlyAfterFailure
  <1>2. QED
    BY <1>1, NoneStep, TypeCorrect, SingleFlightHolds, VersionsInOrderHolds, PTL DEF Spec

(***************************************************************************)
(* The re-check under the lock.                                            *)
(***************************************************************************)

LEMMA RecheckStep ==
  TypeOK /\ SingleFlight /\ RecheckNeverHits /\ [Next]_vars => RecheckNeverHits'
  <1> SUFFICES ASSUME TypeOK, SingleFlight, RecheckNeverHits, [Next]_vars
               PROVE  RecheckNeverHits'
    OBVIOUS
  <1>a. TypeOK'
    BY TypeOKStep
  <1>b. {data', lastFetch', mono'} \subseteq Nat /\ Ttl \in Nat
    BY <1>a, CacheParameters, LockParameters DEF TypeOK, LockTypeOK
  <1> SUFFICES ASSUME NEW q \in Callers, pc'[q] = "acquired"
               PROVE  data' = NoData \/ mono' - lastFetch' >= Ttl
    BY <1>b DEF RecheckNeverHits, Fresh
  <1>1. /\ {data, lastFetch, mono} \subseteq Nat /\ pc \in [Callers -> Places]
        /\ Ttl \in Nat
    BY CacheParameters, LockParameters DEF TypeOK, LockTypeOK
  <1>2. pc[q] = "acquired" => data = NoData \/ mono - lastFetch >= Ttl
    BY <1>1 DEF RecheckNeverHits, Fresh
  <1>3. ASSUME NEW p \in Callers, NEW kind, NEW last \in {0, lastFetch}, EnsureFresh(p, kind, last)
        PROVE  data' = NoData \/ mono' - lastFetch' >= Ttl
    <2>1. UNCHANGED <<data, mono>> /\ lastFetch' = last
      BY <1>3 DEF EnsureFresh
    <2>2. pc[q] = "acquired" \/ ~Fresh(last)
      BY <1>1, <1>3 DEF EnsureFresh, ServeCached, WaitForFirstLoad, Enqueue, TakeLock, Acquire
    <2>3. QED
      BY <1>1, <1>2, <2>1, <2>2 DEF Fresh
  <1>4. ASSUME NEW p \in Callers, NEW calls, Leave(p, calls) PROVE pc[q] = "acquired" /\ q # p
    BY <1>1, <1>4 DEF Leave, PassOn
  <1>5. ASSUME NEW p \in Callers, StoreAnswer(p) PROVE FALSE
    <2>1. pc[p] = "answered" /\ pc[q] = "acquired"
      BY <1>4, <1>5 DEF StoreAnswer
    <2>2. QED
      BY <2>1, HolderOwns DEF Holding
  <1>6. ASSUME NEW p \in Callers,
               \/ DoubleCheck(p) \/ FetchFails(p) \/ WaiterReturns(p) \/ CancelHolder(p)
        PROVE  pc[q] = "acquired" /\ UNCHANGED <<data, mono, lastFetch>>
    <2>1. UNCHANGED <<data, mono, lastFetch>>
      BY <1>6 DEF DoubleCheck, FetchFails, WaiterReturns, CancelHolder
    <2>2. CASE \E calls : Leave(p, calls)
      BY <1>4, <2>1, <2>2
    <2>3. CASE pc' = [pc EXCEPT ![p] = "fetching"]
      BY <1>1, <2>1, <2>3
    <2>4. QED
      BY <1>6, <2>2, <2>3 DEF DoubleCheck, FetchFails, WaiterReturns, CancelHolder
  <1>7. ASSUME NEW p \in Callers, Answer(p) \/ CancelWaiter(p)
        PROVE  pc[q] = "acquired" /\ UNCHANGED <<data, mono, lastFetch>>
    BY <1>1, <1>7 DEF Answer, CancelWaiter, Abandon
  <1>8. CASE Publish \/ UNCHANGED vars
    BY <1>2, <1>8 DEF Publish, vars
  <1>9. CASE Tick
    BY <1>1, <1>2, <1>9 DEF Tick
  <1>10. ASSUME NEW p \in Callers, Lookup(p) \/ ForceRefresh(p)
         PROVE  data' = NoData \/ mono' - lastFetch' >= Ttl
    BY <1>3, <1>10 DEF Lookup, ForceRefresh
  <1>11. ASSUME NEW p \in Callers, Resume(p) \/ Cancel(p)
         PROVE  data' = NoData \/ mono' - lastFetch' >= Ttl
    <2>1. pc[q] = "acquired" /\ UNCHANGED <<data, mono, lastFetch>>
      BY <1>5, <1>6, <1>7, <1>11 DEF Resume, Cancel
    <2>2. QED
      BY <1>2, <2>1
  <1>12. QED
    BY <1>8, <1>9, <1>10, <1>11 DEF Next

(* The re-check under the lock can never find the data fresh.              *)
THEOREM RecheckNeverHitsHolds == Spec => []RecheckNeverHits
  <1>1. Init => RecheckNeverHits
    BY DEF Init, RecheckNeverHits, Fresh
  <1>2. QED
    BY <1>1, RecheckStep, TypeCorrect, SingleFlightHolds, PTL DEF Spec

(***************************************************************************)
(* Calls that find the lock free.                                          *)
(***************************************************************************)

LEMMA StampStep == TypeOK /\ StampNotAhead /\ [Next]_vars => StampNotAhead'
  <1> SUFFICES ASSUME TypeOK, StampNotAhead, [Next]_vars PROVE StampNotAhead'
    OBVIOUS
  <1>1. {lastFetch, loadedAt, mono} \subseteq Nat
    BY DEF TypeOK
  <1>2. ASSUME UNCHANGED <<data, loadedAt>>, lastFetch' \in {lastFetch, 0} PROVE StampNotAhead'
    BY <1>1, <1>2 DEF StampNotAhead
  <1>3. ASSUME NEW p \in Callers, Lookup(p) \/ ForceRefresh(p) PROVE StampNotAhead'
    BY <1>2, <1>3 DEF Lookup, ForceRefresh, EnsureFresh
  <1>4. ASSUME NEW p \in Callers, StoreAnswer(p) PROVE StampNotAhead'
    BY <1>1, <1>4 DEF StoreAnswer, StampNotAhead
  <1>5. ASSUME NEW p \in Callers,
               \/ DoubleCheck(p) \/ Answer(p) \/ FetchFails(p) \/ WaiterReturns(p)
               \/ CancelHolder(p) \/ CancelWaiter(p)
        PROVE  StampNotAhead'
    BY <1>2, <1>5 DEF DoubleCheck, Answer, FetchFails, WaiterReturns, CancelHolder, CancelWaiter
  <1>6. CASE Publish \/ Tick \/ UNCHANGED vars
    BY <1>2, <1>6 DEF Publish, Tick, vars
  <1>7. QED
    BY <1>3, <1>4, <1>5, <1>6 DEF Next, Resume, Cancel

Honest == ForceRefetchesWhenClear /\ StaleOnlyWhileRefreshing

LEMMA ClearStep ==
  /\ TypeOK /\ SingleFlight /\ RecheckNeverHits /\ StampNotAhead /\ ClearCallsFetch
  /\ [Next]_vars
  => ClearCallsFetch' /\ (Honest => Honest')
  <1> SUFFICES ASSUME TypeOK, SingleFlight, RecheckNeverHits, StampNotAhead, ClearCallsFetch,
                      [Next]_vars
               PROVE  ClearCallsFetch' /\ (Honest => Honest')
    OBVIOUS
  <1>1. /\ {upstream, mono, loadedAt, lastFetch} \subseteq Nat /\ Ttl \in Nat \ {0} /\ pc \in [Callers -> Places]
        /\ answer \in [Callers -> Nat] /\ call \in [Callers -> Calls]
        /\ \A q \in Callers : call[q].asked \in Nat
    BY CacheParameters DEF TypeOK, LockTypeOK, Calls
  (* A task that leaves the lock has no call any more; the others keep     *)
  (* theirs, and none of them moves but the one that gets the lock.        *)
  <1>2. ASSUME NEW p \in Callers, NEW calls, calls \in {call, Spoiled}, Leave(p, calls),
               upstream' = upstream
        PROVE  ClearCallsFetch'
    <2>1. SUFFICES ASSUME NEW q \in Callers, ~call'[q].busy
                   PROVE  /\ pc'[q] \in {"acquired", "fetching", "answered"}
                          /\ call'[q].asked <= upstream
                          /\ pc'[q] = "answered" => call'[q].asked <= answer'[q]
      BY <1>2 DEF ClearCallsFetch
    <2>2. q # p
      BY <1>1, <1>2, <2>1, SpoiledTyped DEF Leave, NoCall
    <2>3. call'[q].busy = call[q].busy /\ call'[q].asked = call[q].asked
      BY <1>1, <1>2, <2>2, SpoiledTyped DEF Leave, Spoiled, Calls
    <2>4. answer'[q] = answer[q] /\ pc'[q] \in {pc[q], "granted"}
      BY <1>1, <1>2, <2>2 DEF Leave, PassOn
    <2>5. pc[q] \in {"acquired", "fetching", "answered"}
      BY <2>1, <2>3 DEF ClearCallsFetch
    <2>6. pc'[q] = pc[q]
      <3>1. CASE waiters = << >>
        BY <1>1, <1>2, <2>2, <3>1 DEF Leave, PassOn
      <3>2. CASE waiters # << >>
        <4>1. Head(waiters) = waiters[1] /\ 1 \in 1 .. Len(waiters)
          BY <3>2, EmptySeq, HeadTailProperties DEF TypeOK, LockTypeOK
        <4>2. pc[Head(waiters)] = "waiting"
          BY <4>1 DEF SingleFlight, Exclusive
        <4>3. QED
          BY <1>1, <1>2, <2>2, <2>5, <4>2 DEF Leave, PassOn
      <3>3. QED
        BY <3>1, <3>2
    <2>7. QED
      BY <2>1, <2>3, <2>4, <2>6 DEF ClearCallsFetch
  <1>3. ASSUME Quiet PROVE Honest'
    BY <1>3 DEF Quiet, Honest, ForceRefetchesWhenClear, StaleOnlyWhileRefreshing
  <1>4. ASSUME NEW p \in Callers, NEW kind, NEW last, EnsureFresh(p, kind, last),
               last = 0 \/ (kind # "force" /\ last = lastFetch)
        PROVE  ClearCallsFetch' /\ Honest'
    <2> DEFINE c == [kind |-> kind, asked |-> upstream, spoiled |-> FALSE,
                     busy |-> owner # NoOne, aged |-> mono >= Ttl,
                     behind |-> owner # NoOne /\ pc[owner] = "granted"]
    <2>1. /\ ServeCached(p, c, last) \/ WaitForFirstLoad(p, c, last) \/ TakeLock(p, c, last)
          /\ UNCHANGED <<answer, upstream, mono, loadedAt>> /\ pc[p] = "idle"
      BY <1>4 DEF EnsureFresh
    <2>2. (c.busy <=> owner # NoOne) /\ (c.aged <=> mono >= Ttl)
      OBVIOUS
    <2>3. c.kind = kind /\ c.asked = upstream
      OBVIOUS
    <2> HIDE DEF c
    <2>4. CASE ServeCached(p, c, last)
      <3>1. UNCHANGED <<pc, call>>
        BY <2>4 DEF ServeCached
      <3>2. ClearCallsFetch'
        BY <2>1, <3>1 DEF ClearCallsFetch
      <3>3. ~c.busy => Fresh(last)
        BY <2>2, <2>4 DEF ServeCached
      <3>4. \A r \in replies' : r.kind = kind /\ r.busy = c.busy /\ r.aged = c.aged
        BY <2>3, <2>4 DEF ServeCached, Reply
      <3>5. ForceRefetchesWhenClear'
        BY <1>1, <1>4, <2>2, <3>3, <3>4 DEF Fresh, ForceRefetchesWhenClear
      <3>6. ~c.busy => mono - loadedAt < Ttl
        BY <1>1, <1>4, <3>3 DEF Fresh, StampNotAhead
      <3>7. StaleOnlyWhileRefreshing'
        BY <2>1, <3>4, <3>6 DEF StaleOnlyWhileRefreshing
      <3>8. QED
        BY <3>2, <3>5, <3>7 DEF Honest
    <2>5. CASE WaitForFirstLoad(p, c, last)
      <3>1. pc' = [pc EXCEPT ![p] = "waiting"] /\ call' = [call EXCEPT ![p] = c] /\ Quiet
        BY <2>5 DEF WaitForFirstLoad
      <3>2. c.busy
        BY <2>2, <2>5 DEF WaitForFirstLoad, Enqueue
      <3>3. ClearCallsFetch'
        BY <1>1, <2>1, <3>1, <3>2 DEF ClearCallsFetch
      <3>4. QED
        BY <1>3, <3>1, <3>3
    <2>6. CASE TakeLock(p, c, last)
      <3>1. pc' = [pc EXCEPT ![p] = "acquired"] /\ call' = [call EXCEPT ![p] = c] /\ Quiet
        BY <2>6 DEF TakeLock
      <3>2. ClearCallsFetch'
        BY <1>1, <2>1, <2>3, <3>1 DEF ClearCallsFetch
      <3>3. QED
        BY <1>3, <3>1, <3>2
    <2>7. QED
      BY <2>1, <2>4, <2>5, <2>6
  <1>5. ASSUME NEW p \in Callers, Lookup(p) \/ ForceRefresh(p)
        PROVE  ClearCallsFetch' /\ Honest'
    BY <1>4, <1>5 DEF Lookup, ForceRefresh
  <1>6. ASSUME NEW p \in Callers, DoubleCheck(p)
        PROVE  ClearCallsFetch' /\ Honest'
    <2>1. ~Fresh(lastFetch) /\ pc[p] = "acquired"
      BY <1>6 DEF DoubleCheck, RecheckNeverHits
    <2>2. /\ pc' = [pc EXCEPT ![p] = "fetching"] /\ Quiet
          /\ UNCHANGED <<call, answer, upstream>>
      BY <1>6, <2>1 DEF DoubleCheck
    <2>3. ClearCallsFetch'
      BY <1>1, <2>1, <2>2 DEF ClearCallsFetch
    <2>4. QED
      BY <1>3, <2>2, <2>3
  <1>7. ASSUME NEW p \in Callers, Answer(p)
        PROVE  ClearCallsFetch' /\ Honest'
    <2>1. ClearCallsFetch'
      BY <1>1, <1>7 DEF Answer, ClearCallsFetch
    <2>2. QED
      BY <1>3, <1>7, <2>1 DEF Answer
  <1>8. ASSUME NEW p \in Callers, StoreAnswer(p)
        PROVE  ClearCallsFetch' /\ Honest'
    <2>1. Leave(p, call) /\ upstream' = upstream /\ pc[p] = "answered"
          /\ Reply(p, call[p], answer[p])
      BY <1>8 DEF StoreAnswer
    <2>2. ClearCallsFetch'
      BY <1>2, <2>1
    <2>3. \A r \in replies' :
             r.busy = call[p].busy /\ r.asked = call[p].asked /\ r.value = answer[p]
      BY <2>1 DEF Reply
    <2>4. ~call[p].busy => answer[p] >= call[p].asked
      BY <1>1, <2>1 DEF ClearCallsFetch
    <2>5. mono' - loadedAt' = 0
      BY <1>1, <1>8 DEF StoreAnswer
    <2>6. QED
      BY <1>1, <2>2, <2>3, <2>4, <2>5
         DEF Honest, ForceRefetchesWhenClear, StaleOnlyWhileRefreshing
  <1>9. ASSUME NEW p \in Callers, FetchFails(p)
        PROVE  ClearCallsFetch' /\ Honest'
    <2>1. Leave(p, Spoiled) /\ upstream' = upstream /\ Reply(p, Spoiled[p], data)
          /\ pc[p] # "idle"
      BY <1>9 DEF FetchFails
    <2>2. Spoiled[p].spoiled
      BY <1>1, <2>1 DEF Spoiled, Calls
    <2>3. \A r \in replies' : r.spoiled
      BY <2>1, <2>2 DEF Reply
    <2>4. QED
      BY <1>2, <2>1, <2>3 DEF Honest, ForceRefetchesWhenClear, StaleOnlyWhileRefreshing
  <1>10. ASSUME NEW p \in Callers, WaiterReturns(p)
         PROVE  ClearCallsFetch' /\ Honest'
    <2>1. Leave(p, call) /\ upstream' = upstream /\ Reply(p, call[p], data)
          /\ pc[p] = "granted"
      BY <1>10 DEF WaiterReturns
    <2>2. \A r \in replies' : r.busy
      BY <2>1 DEF Reply, ClearCallsFetch
    <2>3. QED
      BY <1>2, <2>1, <2>2 DEF Honest, ForceRefetchesWhenClear, StaleOnlyWhileRefreshing
  <1>11. ASSUME NEW p \in Callers, CancelHolder(p)
         PROVE  ClearCallsFetch' /\ Honest'
    BY <1>2, <1>3, <1>11 DEF CancelHolder
  <1>12. ASSUME NEW p \in Callers, CancelWaiter(p)
         PROVE  ClearCallsFetch' /\ Honest'
    <2>1. pc' = [pc EXCEPT ![p] = "idle"] /\ call' = [call EXCEPT ![p] = NoCall] /\ Quiet
          /\ UNCHANGED <<answer, upstream>>
      BY <1>12 DEF CancelWaiter
    <2>2. ClearCallsFetch'
      BY <1>1, <2>1 DEF ClearCallsFetch, NoCall
    <2>3. QED
      BY <1>3, <2>1, <2>2
  <1>13. ASSUME Publish \/ Tick
         PROVE  ClearCallsFetch' /\ Honest'
    <2>1. UNCHANGED <<pc, call, answer>> /\ Quiet /\ upstream' \in Nat /\ upstream <= upstream'
      BY <1>1, <1>13 DEF Publish, Tick
    <2>2. ClearCallsFetch'
      BY <1>1, <2>1 DEF ClearCallsFetch
    <2>3. QED
      BY <1>3, <2>1, <2>2
  <1>14. CASE UNCHANGED vars
    BY <1>14 DEF vars, ClearCallsFetch, Honest, ForceRefetchesWhenClear, StaleOnlyWhileRefreshing
  <1>15. QED
    BY <1>5, <1>6, <1>7, <1>8, <1>9, <1>10, <1>11, <1>12, <1>13, <1>14
       DEF Next, Resume, Cancel

LEMMA SpecHonest == Spec => []Honest
  <1>1. Init => StampNotAhead /\ ClearCallsFetch /\ Honest
    BY DEF Init, StampNotAhead, ClearCallsFetch, NoCall, Honest,
           ForceRefetchesWhenClear, StaleOnlyWhileRefreshing
  <1>2. QED
    BY <1>1, StampStep, ClearStep, TypeCorrect, SingleFlightHolds, RecheckNeverHitsHolds, PTL
       DEF Spec

(* A forced refresh that finds no other in flight, long enough after boot, *)
(* returns data at least as new as its call, or a refresh has failed.      *)
THEOREM ForceRefetchesHolds == Spec => []ForceRefetchesWhenClear
  <1>1. Honest => ForceRefetchesWhenClear
    BY DEF Honest
  <1>2. QED
    BY <1>1, SpecHonest, PTL

(* Data older than the TTL is only returned by calls during which a        *)
(* refresh was in flight or failed.                                        *)
THEOREM StaleOnlyWhileRefreshingHolds == Spec => []StaleOnlyWhileRefreshing
  <1>1. Honest => StaleOnlyWhileRefreshing
    BY DEF Honest
  <1>2. QED
    BY <1>1, SpecHonest, PTL
=============================================================================
