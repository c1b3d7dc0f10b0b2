---------------------------- MODULE SearchProofs ----------------------------
(***************************************************************************)
(* For every set of databases, every call and every number of slots: what  *)
(* a search returns is visible and indexed, its errors mean what they say, *)
(* and the slots of its fan-out are conserved.                             *)
(***************************************************************************)
EXTENDS SearchProperties, FiniteSetTheorems, TLAPS

(***************************************************************************)
(* Typing.                                                                 *)
(***************************************************************************)

LEMMA RequestTyped ==
  ASSUME NEW r \in Requests
  PROVE  /\ r.blank \in BOOLEAN /\ r.limit \in Nat /\ r.databases \in Seq(Nat)
         /\ DOMAIN r.databases = 1 .. Len(r.databases)
  BY SearchParameters

(* The candidates of a database are tables.                                *)
LEMMA CandidateTyped ==
  ASSUME NEW d \in Databases, NEW k \in 1 .. Len(TablesOf[d])
  PROVE  TablesOf[d][k] \in Tables
  BY SearchParameters

(* What holds of the discovery: the databases left are known, and the      *)
(* candidates are positions in the list of the first of them.              *)
Discovering == phase \in {"summary", "visible", "columns"}

DiscoveryOK ==
  /\ phase \in {"summary", "visible", "columns", "discovered"} =>
       \A i \in left : request.databases[i] \in Databases
  /\ phase \in {"visible", "columns"} =>
       \A i \in left : FirstLeft(i) => found \subseteq 1 .. Len(TablesOf[request.databases[i]])

Typed == TypeOK /\ DiscoveryOK

(* One position is first.                                                  *)
LEMMA FirstLeftUnique ==
  ASSUME TypeOK, NEW i, NEW j, FirstLeft(i), FirstLeft(j)
  PROVE  i = j
  <1>1. request.databases \in Seq(Nat) /\ left \subseteq 1 .. Len(request.databases)
    BY RequestTyped DEF TypeOK
  <1>2. i \in left /\ j \in left
    BY DEF FirstLeft
  <1>3. /\ request.databases[i] \in Nat /\ request.databases[j] \in Nat
        /\ i \in Nat /\ j \in Nat
    BY <1>1, <1>2
  <1>4. QED
    BY <1>2, <1>3 DEF FirstLeft

LEMMA FinishTyped ==
  ASSUME TypeOK, NEW i, NEW state \in Ended, Finish(i, state)
  PROVE  /\ DOMAIN task' = DOMAIN task
         /\ task' \in [DOMAIN task -> Running \cup Ended]
  BY DEF TypeOK, Finish, Running

LEMMA CancelledTyped ==
  TypeOK => Cancelled \in [DOMAIN task -> Running \cup Ended]
  BY DEF TypeOK, Cancelled, Ended

LEMMA MergedTyped ==
  TypeOK => Merged \subseteq Tables \X Nat
  <1> SUFFICES ASSUME TypeOK, NEW x \in Merged PROVE x \in Tables \X Nat
    OBVIOUS
  <1>1. x \in OutRows
    BY DEF Merged
  <1>2. PICK i \in DOMAIN targets : x \in {<<targets[i], r>> : r \in 1 .. outRows[targets[i]]}
    BY <1>1 DEF OutRows
  <1>3. targets[i] \in Tables
    BY <1>2 DEF TypeOK
  <1>4. QED
    BY <1>2, <1>3 DEF TypeOK

LEMMA InitTyped == Init => Typed
  <1> SUFFICES ASSUME Init PROVE Typed
    OBVIOUS
  <1>1. upstream \in [Tables -> Kinds]
    BY SearchParameters DEF Init
  <1>2. changes \in 0 .. MaxChanges
    BY SearchParameters DEF Init
  <1>3. DOMAIN task = {} /\ task = [i \in {} |-> "queued"]
    BY DEF Init
  <1>4. DOMAIN last = {} /\ last = [i \in {} |-> "body"]
    BY DEF Init
  <1>5. DOMAIN totals = {} /\ totals = [i \in {} |-> 0]
    BY DEF Init
  <1>6. task \in [DOMAIN task -> Running \cup Ended] /\ last \in [DOMAIN task -> Replies]
    BY <1>3, <1>4
  <1>7. DOMAIN totals \subseteq Tables /\ totals \in [DOMAIN totals -> Nat]
    BY <1>5
  <1>8. targets \in Seq(Tables) /\ found \subseteq Nat
    BY DEF Init
  <1>9. during \in [Tables -> SUBSET Kinds]
    BY <1>1 DEF Init
  <1>10. QED
    BY <1>1, <1>2, <1>6, <1>7, <1>8, <1>9
       DEF Init, Typed, TypeOK, DiscoveryOK, Phases, Outcomes

LEMMA ValidateTyped ==
  ASSUME Typed, Validate PROVE Typed'
  <1>1. \A i \in left : request.databases[i] \in Databases \/ phase' # "summary"
    BY DEF Validate, End
  <1>2. phase' \in {"summary", "done"} /\ outcome' \in Outcomes
    BY DEF Validate, End, Typed, TypeOK, Outcomes, ToolErrors
  <1>3. TypeOK'
    BY <1>2 DEF Validate, Typed, TypeOK, world, discovery, fanOut, Phases
  <1>4. DiscoveryOK'
    BY <1>1, <1>2 DEF Validate, DiscoveryOK, world, discovery, fanOut
  <1>5. QED
    BY <1>3, <1>4 DEF Typed

LEMMA ReadSummaryTyped ==
  ASSUME Typed, NEW i \in left, ReadSummary(i) PROVE Typed'
  <1>1. request.databases[i] \in Databases
    BY DEF ReadSummary, Typed, DiscoveryOK
  <1>2. found' \subseteq 1 .. Len(TablesOf[request.databases[i]]) /\ found' \subseteq Nat
    BY <1>1, SearchParameters DEF ReadSummary, Candidates
  <1>3. TypeOK'
    BY <1>2 DEF ReadSummary, Typed, TypeOK, world, fanOut, Phases
  <1>4. \A j \in left' : FirstLeft(j)' => j = i
    BY FirstLeftUnique DEF ReadSummary, Typed, FirstLeft
  <1>5. DiscoveryOK'
    BY <1>2, <1>4 DEF ReadSummary, Typed, DiscoveryOK
  <1>6. QED
    BY <1>3, <1>5 DEF Typed

(* Going on to the next database keeps the typing.                         *)
LEMMA NextDatabaseTyped ==
  ASSUME Typed, Discovering, NEW i \in left, NextDatabase(i), request' = request
  PROVE  /\ left' \subseteq DOMAIN request.databases
         /\ phase' \in {"summary", "discovered"}
         /\ DiscoveryOK'
  BY DEF Typed, TypeOK, DiscoveryOK, NextDatabase, Discovering

LEMMA ReadVisibleTyped ==
  ASSUME Typed, NEW i \in left, ReadVisible(i) PROVE Typed'
  <1>1. found' \subseteq found /\ found' \subseteq Nat
    BY DEF ReadVisible, Typed, TypeOK
  <1>2. CASE found' = {}
    <2>1. NextDatabase(i) /\ request' = request /\ Discovering
      BY <1>2 DEF ReadVisible, Discovering
    <2>2. QED
      BY <1>1, <2>1, NextDatabaseTyped DEF ReadVisible, Typed, TypeOK, world, fanOut, Phases
  <1>3. CASE found' # {}
    <2>1. phase' = "columns" /\ left' = left /\ request' = request /\ phase = "visible"
      BY <1>3 DEF ReadVisible
    <2>2. \A j \in left : FirstLeft(j)' <=> FirstLeft(j)
      BY <2>1 DEF FirstLeft
    <2>3. DiscoveryOK'
      BY <1>1, <2>1, <2>2 DEF Typed, DiscoveryOK
    <2>4. TypeOK'
      BY <1>1, <2>1 DEF ReadVisible, Typed, TypeOK, world, fanOut, Phases
    <2>5. QED
      BY <2>3, <2>4 DEF Typed
  <1>4. QED
    BY <1>2, <1>3

LEMMA ReadColumnsTyped ==
  ASSUME Typed, NEW i \in left, NEW k \in found, ReadColumns(i, k) PROVE Typed'
  <1> DEFINE t == TablesOf[request.databases[i]][k]
  <1>1. request.databases[i] \in Databases /\ k \in 1 .. Len(TablesOf[request.databases[i]])
    BY DEF ReadColumns, Typed, DiscoveryOK
  <1>2. t \in Tables
    BY <1>1, CandidateTyped
  <1>3. CASE upstream[t] = "gone"
    BY <1>3 DEF ReadColumns, End, Typed, TypeOK, DiscoveryOK, world, fanOut, Phases, Outcomes,
                Uncaught
  <1>4. CASE upstream[t] # "gone"
    <2>1. targets' \in Seq(Tables) /\ found' \subseteq found /\ found' \subseteq Nat
      <3>1. targets' = IF HasPreview(t) THEN Append(targets, t) ELSE targets
        BY <1>4 DEF ReadColumns
      <3>2. targets \in Seq(Tables) /\ Append(targets, t) \in Seq(Tables)
        BY <1>2 DEF Typed, TypeOK
      <3>3. found' = found \ {k} /\ found \subseteq Nat
        BY <1>4 DEF ReadColumns, Typed, TypeOK
      <3>4. QED
        BY <3>1, <3>2, <3>3
    <2>2. request' = request /\ phase = "columns" /\ Discovering /\ outcome' = outcome
      BY <1>4 DEF ReadColumns, Discovering
    <2>3. CASE found = {k}
      <3>1. NextDatabase(i)
        BY <1>4, <2>3 DEF ReadColumns
      <3>2. QED
        BY <2>1, <2>2, <3>1, NextDatabaseTyped DEF ReadColumns, Typed, TypeOK, world, Phases
    <2>4. CASE found # {k}
      <3>1. left' = left /\ phase' = phase
        BY <1>4, <2>4 DEF ReadColumns
      <3>2. \A j \in left : FirstLeft(j)' <=> FirstLeft(j)
        BY <2>2, <3>1 DEF FirstLeft
      <3>3. DiscoveryOK'
        BY <2>1, <2>2, <3>1, <3>2 DEF Typed, DiscoveryOK
      <3>4. TypeOK'
        BY <2>1, <2>2, <3>1 DEF ReadColumns, Typed, TypeOK, world
      <3>5. QED
        BY <3>3, <3>4 DEF Typed
    <2>5. QED
      BY <2>3, <2>4
  <1>5. QED
    BY <1>3, <1>4

LEMMA DispatchTyped ==
  ASSUME Typed, Dispatch PROVE Typed'
  <1>1. CASE targets = << >>
    BY <1>1 DEF Dispatch, End, Typed, TypeOK, DiscoveryOK, world, discovery, Phases, Outcomes
  <1>2. CASE targets # << >>
    <2>1. /\ phase' = "searching" /\ outcome' = outcome
          /\ DOMAIN task' = DOMAIN targets /\ DOMAIN last' = DOMAIN targets
          /\ task' \in [DOMAIN targets -> Running \cup Ended]
          /\ last' \in [DOMAIN targets -> Replies]
          /\ outRows' \in [Tables -> Nat]
      BY <1>2 DEF Dispatch, Started, Running, Replies
    <2>2. QED
      BY <2>1 DEF Dispatch, Typed, TypeOK, DiscoveryOK, world, discovery, Phases
  <1>3. QED
    BY <1>1, <1>2

(* No step of the fan-out touches the discovery.                           *)
LEMMA FanOutTyped ==
  ASSUME Typed, phase = "searching", UNCHANGED <<world, discovery, targets, rows, checked, seen>>,
         phase' \in {"searching", "done"}, outcome' \in Outcomes,
         DOMAIN task' = DOMAIN task, task' \in [DOMAIN task -> Running \cup Ended],
         last' \in [DOMAIN task -> Replies], outRows' \in [Tables -> Nat],
         DOMAIN totals' \subseteq Tables, totals' \in [DOMAIN totals' -> Nat]
  PROVE  Typed'
  BY DEF Typed, TypeOK, DiscoveryOK, world, discovery, Phases

LEMMA TargetTyped ==
  ASSUME Typed, phase = "searching", NEW i \in DOMAIN task
  PROVE  targets[i] \in Tables /\ request.limit \in Nat
  BY RequestTyped DEF Typed, TypeOK

LEMMA OneTableTyped ==
  ASSUME Typed, NEW i \in DOMAIN task, OneTable(i) PROVE Typed'
  <1>1. CASE BackOff(i)
    <2>1. task' \in [DOMAIN task -> Running \cup Ended] /\ DOMAIN task' = DOMAIN task
      BY <1>1 DEF BackOff, Typed, TypeOK, Running
    <2>2. QED
      BY <1>1, <2>1, FanOutTyped DEF BackOff, Sent, Typed, TypeOK
  <1>2. CASE SendAgain(i)
    <2>1. task' \in [DOMAIN task -> Running \cup Ended] /\ DOMAIN task' = DOMAIN task
      BY <1>2 DEF SendAgain, Typed, TypeOK, Running
    <2>2. QED
      BY <1>2, <2>1, FanOutTyped DEF SendAgain, Typed, TypeOK
  <1>3. CASE Garbled(i)
    <2>1. task' \in [DOMAIN task -> Running \cup Ended] /\ DOMAIN task' = DOMAIN task
      BY <1>3, CancelledTyped DEF Garbled, Typed, Ended
    <2>2. last' \in [DOMAIN task -> Replies]
      BY <1>3 DEF Garbled, Typed, TypeOK, Replies
    <2>3. phase' = "done" /\ outcome' \in Outcomes
      BY <1>3 DEF Garbled, End, Outcomes, Uncaught
    <2>4. QED
      BY <1>3, <2>1, <2>2, <2>3, FanOutTyped DEF Garbled, Sent, Typed, TypeOK
  <1>4. ASSUME NEW hits \in 0 .. MaxHits, GetRows(i, hits) PROVE Typed'
    <2>1. targets[i] \in Tables /\ request.limit \in Nat /\ hits \in Nat /\ phase = "searching"
      BY <1>4, TargetTyped, SearchParameters DEF GetRows, Sent
    <2>2. task' \in [DOMAIN task -> Running \cup Ended] /\ DOMAIN task' = DOMAIN task
      BY <1>4, FinishTyped DEF GetRows, Typed, Ended
    <2>3. last' \in [DOMAIN task -> Replies]
      BY <1>4 DEF GetRows, Typed, TypeOK, Replies
    <2>4. outRows' \in [Tables -> Nat]
      BY <1>4, <2>1 DEF GetRows, Typed, TypeOK
    <2>5. DOMAIN totals' \subseteq Tables /\ totals' \in [DOMAIN totals' -> Nat]
      BY <1>4, <2>1 DEF GetRows, Typed, TypeOK
    <2>6. QED
      BY <1>4, <2>1, <2>2, <2>3, <2>4, <2>5, FanOutTyped DEF GetRows, Typed, TypeOK
  <1>5. ASSUME NEW reply \in Failures, Fail(i, reply) PROVE Typed'
    <2>1. task' \in [DOMAIN task -> Running \cup Ended] /\ DOMAIN task' = DOMAIN task
      BY <1>5, FinishTyped DEF Fail, Typed, Ended
    <2>2. last' \in [DOMAIN task -> Replies]
      BY <1>5 DEF Fail, Typed, TypeOK, Failures
    <2>3. QED
      BY <1>5, <2>1, <2>2, FanOutTyped DEF Fail, Sent, Typed, TypeOK
  <1>6. QED
    BY <1>1, <1>2, <1>3, <1>4, <1>5 DEF OneTable

LEMMA DeadlineTyped ==
  ASSUME Typed, Deadline PROVE Typed'
  <1>1. task' \in [DOMAIN task -> Running \cup Ended] /\ DOMAIN task' = DOMAIN task
    BY CancelledTyped DEF Deadline, Typed
  <1>2. QED
    BY <1>1, FanOutTyped DEF Deadline, Typed, TypeOK

LEMMA ConcludeTyped ==
  ASSUME Typed, Conclude PROVE Typed'
  <1>1. CASE Gather
    <2>1. phase' \in {"rechecking", "done"} /\ outcome' \in Outcomes
      BY <1>1 DEF Gather, End, Typed, TypeOK, Outcomes, ToolErrors
    <2>2. rows' \subseteq Tables \X Nat
      BY <1>1, MergedTyped DEF Gather, Typed, TypeOK
    <2>3. seen' \subseteq Tables
      BY <1>1 DEF Gather, Typed, TypeOK, VisibleNow
    <2>4. QED
      BY <1>1, <2>1, <2>2, <2>3
         DEF Gather, Typed, TypeOK, DiscoveryOK, world, discovery, fanOut, Phases
  <1>2. ASSUME NEW x \in rows, Recheck(x) PROVE Typed'
    <2>1. phase' \in {"rechecking", "done"} /\ outcome' \in Outcomes
      BY <1>2 DEF Recheck, End, Typed, TypeOK, Outcomes
    <2>2. rows' \subseteq Tables \X Nat
      BY <1>2 DEF Recheck, Kept, Typed, TypeOK
    <2>3. DatabaseOf(x[1]) \in Databases
      <3>1. x[1] \in Tables
        BY <1>2 DEF Typed, TypeOK
      <3>2. \E d \in Databases : \E j \in 1 .. Len(TablesOf[d]) : TablesOf[d][j] = x[1]
        BY <3>1 DEF Tables
      <3>3. QED
        BY <3>2 DEF DatabaseOf
    <2>4. QED
      BY <1>2, <2>1, <2>2, <2>3
         DEF Recheck, Typed, TypeOK, DiscoveryOK, world, discovery, fanOut, Phases
  <1>3. CASE RecheckFails
    BY <1>3 DEF RecheckFails, End, Typed, TypeOK, DiscoveryOK, world, discovery, fanOut, Phases,
                Outcomes, Uncaught
  <1>4. QED
    BY <1>1, <1>2, <1>3 DEF Conclude

LEMMA AlterTyped ==
  ASSUME Typed, NEW t \in Tables, NEW kind \in Kinds, Alter(t, kind) PROVE Typed'
  <1>1. upstream' \in [Tables -> Kinds] /\ changes' \in 0 .. MaxChanges
    BY SearchParameters DEF Alter, Typed, TypeOK
  <1>2. during' \in [Tables -> SUBSET Kinds] /\ seen' \subseteq Tables
    BY DEF Alter, Typed, TypeOK, VisibleNow
  <1>3. \A i : FirstLeft(i)' <=> FirstLeft(i)
    BY DEF Alter, FirstLeft, discovery
  <1>4. TypeOK'
    BY <1>1, <1>2 DEF Alter, Typed, TypeOK, discovery, fanOut
  <1>5. DiscoveryOK'
    BY <1>3 DEF Alter, Typed, DiscoveryOK, discovery
  <1>6. QED
    BY <1>4, <1>5 DEF Typed

LEMMA UnchangedTyped ==
  ASSUME Typed, UNCHANGED vars PROVE Typed'
  <1>1. \A i : FirstLeft(i)' <=> FirstLeft(i)
    BY DEF vars, FirstLeft, discovery
  <1>2. QED
    BY <1>1 DEF vars, Typed, TypeOK, DiscoveryOK, world, discovery, fanOut

LEMMA TypedStep == Typed /\ [Next]_vars => Typed'
  <1> SUFFICES ASSUME Typed, [Next]_vars PROVE Typed'
    OBVIOUS
  <1>1. CASE Discover
    <2>1. CASE DiscoveryFails
      BY <2>1 DEF DiscoveryFails, End, Typed, TypeOK, DiscoveryOK, world, discovery, fanOut,
                  Phases, Outcomes, Uncaught
    <2>2. QED
      BY <1>1, <2>1, ValidateTyped, ReadSummaryTyped, ReadVisibleTyped, ReadColumnsTyped,
         DispatchTyped DEF Discover
  <1>2. CASE UNCHANGED vars
    BY <1>2, UnchangedTyped
  <1>3. CASE Returned
    BY <1>3, UnchangedTyped DEF Returned
  <1>4. QED
    BY <1>1, <1>2, <1>3, OneTableTyped, DeadlineTyped, ConcludeTyped, AlterTyped DEF Next

(* Type correctness.                                                       *)
THEOREM TypeCorrect == Spec => []TypeOK
  <1>1. Typed => TypeOK
    BY DEF Typed
  <1>2. QED
    BY <1>1, InitTyped, TypedStep, PTL DEF Spec

(***************************************************************************)
(* What each phase says of the rest.                                       *)
(***************************************************************************)

PhaseMeaning ==
  /\ outcome = "none" <=> phase # "done"
  /\ phase = "called" => targets = << >>
  /\ phase = "searching" => targets # << >>
  /\ phase \notin {"rechecking", "done"} => rows = {} /\ checked = {}

LEMMA DoneIsFinal ==
  ASSUME phase = "done", [Next]_vars PROVE UNCHANGED vars
  <1>1. ~Discover
    BY DEF Discover, Validate, ReadSummary, ReadVisible, ReadColumns, DiscoveryFails, Dispatch
  <1>2. ~Deadline /\ ~Conclude /\ \A i \in DOMAIN task : ~OneTable(i)
    BY DEF Deadline, Conclude, Gather, Recheck, RecheckFails, OneTable, BackOff, SendAgain,
           Garbled, GetRows, Fail, Sent
  <1>3. \A t \in Tables, kind \in Kinds : ~Alter(t, kind)
    BY DEF Alter
  <1>4. QED
    BY <1>1, <1>2, <1>3 DEF Next, Returned

LEMMA PhaseMeaningInit == Init => PhaseMeaning
  BY DEF Init, PhaseMeaning

LEMMA PhaseMeaningStep ==
  ASSUME Typed, PhaseMeaning, [Next]_vars PROVE PhaseMeaning'
  <1>1. CASE phase = "done"
    BY <1>1, DoneIsFinal DEF PhaseMeaning, vars, fanOut
  <1>2. CASE UNCHANGED vars \/ Returned
    BY <1>2 DEF Returned, PhaseMeaning, vars, fanOut
  <1>3. CASE Discover
    <2>1. CASE Validate
      BY <2>1 DEF Validate, End, PhaseMeaning, fanOut
    <2>2. ASSUME NEW i \in left, ReadSummary(i) PROVE PhaseMeaning'
      BY <2>2 DEF ReadSummary, PhaseMeaning, fanOut
    <2>3. ASSUME NEW i \in left, ReadVisible(i) PROVE PhaseMeaning'
      BY <2>3 DEF ReadVisible, NextDatabase, PhaseMeaning, fanOut
    <2>4. ASSUME NEW i \in left, NEW k \in found, ReadColumns(i, k) PROVE PhaseMeaning'
      BY <2>4 DEF ReadColumns, NextDatabase, End, PhaseMeaning
    <2>5. CASE DiscoveryFails
      BY <2>5 DEF DiscoveryFails, End, PhaseMeaning, fanOut
    <2>6. CASE Dispatch
      BY <2>6 DEF Dispatch, End, PhaseMeaning
    <2>7. QED
      BY <1>3, <2>1, <2>2, <2>3, <2>4, <2>5, <2>6 DEF Discover
  <1>4. ASSUME NEW i \in DOMAIN task, OneTable(i) PROVE PhaseMeaning'
    BY <1>4 DEF OneTable, BackOff, SendAgain, Garbled, GetRows, Fail, Sent, End, PhaseMeaning
  <1>5. CASE Deadline
    BY <1>5 DEF Deadline, PhaseMeaning
  <1>6. CASE Conclude
    <2>1. CASE Gather
      BY <2>1 DEF Gather, End, PhaseMeaning, fanOut
    <2>2. ASSUME NEW x \in rows, Recheck(x) PROVE PhaseMeaning'
      BY <2>2 DEF Recheck, End, PhaseMeaning, fanOut
    <2>3. CASE RecheckFails
      BY <2>3 DEF RecheckFails, End, PhaseMeaning, fanOut
    <2>4. QED
      BY <1>6, <2>1, <2>2, <2>3 DEF Conclude
  <1>7. ASSUME NEW t \in Tables, NEW kind \in Kinds, Alter(t, kind) PROVE PhaseMeaning'
    BY <1>7 DEF Alter, PhaseMeaning, fanOut
  <1>8. QED
    BY <1>2, <1>3, <1>4, <1>5, <1>6, <1>7 DEF Next

(***************************************************************************)
(* What the errors say.                                                    *)
(***************************************************************************)

LEMMA FourHundred ==
  ASSUME NEW reply \in Replies, FailureStatus(reply) = 400
  PROVE  reply = "bad_request"
  BY DEF FailureStatus, NoStatus, Replies

Verdict == InvalidQueryMeansBadQuery /\ PartialResults

(* Only the handler's validation and its verdict end in one of these.      *)
LEMMA OtherOutcomes ==
  ASSUME Typed, PhaseMeaning, phase # "done", [Next]_vars, ~Validate, ~Gather
  PROVE  outcome' \notin {"invalid_query", "upstream_unavailable"}
  <1>1. outcome = "none"
    BY DEF PhaseMeaning
  <1>2. CASE Discover
    BY <1>1, <1>2 DEF Discover, ReadSummary, ReadVisible, ReadColumns, DiscoveryFails, Dispatch, End
  <1>3. ASSUME NEW i \in DOMAIN task, OneTable(i)
        PROVE  outcome' \notin {"invalid_query", "upstream_unavailable"}
    BY <1>1, <1>3 DEF OneTable, BackOff, SendAgain, Garbled, GetRows, Fail, End
  <1>4. CASE Deadline
    BY <1>1, <1>4 DEF Deadline
  <1>5. CASE Conclude
    BY <1>1, <1>5 DEF Conclude, Recheck, RecheckFails, End
  <1>6. ASSUME NEW t \in Tables, NEW kind \in Kinds, Alter(t, kind)
        PROVE  outcome' \notin {"invalid_query", "upstream_unavailable"}
    BY <1>1, <1>6 DEF Alter
  <1>7. CASE UNCHANGED vars
    BY <1>1, <1>7 DEF vars
  <1>8. QED
    BY <1>2, <1>3, <1>4, <1>5, <1>6, <1>7 DEF Next, Returned

LEMMA VerdictStep ==
  ASSUME Typed, PhaseMeaning, Verdict, [Next]_vars PROVE Verdict'
  <1>1. CASE phase = "done"
    BY <1>1, DoneIsFinal
       DEF Verdict, InvalidQueryMeansBadQuery, PartialResults, vars, discovery, fanOut
  <1>2. CASE Validate
    <2>1. targets' = << >> /\ request' = request
      BY <1>2 DEF Validate, PhaseMeaning, fanOut, discovery
    <2>2. \A i \in DOMAIN targets' : FALSE
      BY <2>1
    <2>3. outcome' = "invalid_query" => request.blank \/ request.limit \notin 1 .. MaxLimit
      <3>1. request.limit \in Nat /\ outcome # "invalid_query"
        BY <1>2, RequestTyped DEF Typed, TypeOK, PhaseMeaning, Validate
      <3>2. CASE ~request.blank /\ request.limit \in 1 .. MaxLimit
        <4>1. ~(request.blank \/ request.limit < 1 \/ request.limit > MaxLimit)
          BY <3>1, <3>2, SearchParameters
        <4>2. outcome' \in {outcome, "unknown_database"}
          BY <1>2, <4>1 DEF Validate, End
        <4>3. QED
          BY <3>1, <4>2
      <3>3. QED
        BY <3>2, RequestTyped DEF Typed, TypeOK
    <2>4. QED
      BY <2>1, <2>2, <2>3 DEF Verdict, InvalidQueryMeansBadQuery, PartialResults
  <1>3. CASE Gather
    <2>1. targets' = targets /\ task' = task /\ last' = last /\ request' = request
      BY <1>3 DEF Gather, fanOut, discovery
    <2>2. DOMAIN task = DOMAIN targets /\ targets # << >>
      BY <1>3 DEF Gather, Typed, TypeOK, PhaseMeaning
    <2>3. ASSUME outcome' \in {"invalid_query", "upstream_unavailable"}
          PROVE  \A i \in DOMAIN targets : task[i] = "failed"
      <3>1. outcome = "none"
        BY <1>3 DEF Gather, PhaseMeaning
      <3>2. FailedTasks = DOMAIN targets
        BY <1>3, <2>3, <3>1 DEF Gather, End
      <3>3. QED
        BY <3>2 DEF FailedTasks
    <2>4. ASSUME outcome' = "invalid_query"
          PROVE  \A i \in DOMAIN targets : last[i] = "bad_request"
      <3>1. outcome = "none"
        BY <1>3 DEF Gather, PhaseMeaning
      <3>2. FailedTasks = DOMAIN targets /\ AllBadRequests
        BY <1>3, <2>4, <3>1 DEF Gather, End
      <3>3. QED
        BY <2>2, <3>2, FourHundred DEF AllBadRequests, Typed, TypeOK
    <2>5. QED
      BY <2>1, <2>2, <2>3, <2>4 DEF Verdict, InvalidQueryMeansBadQuery, PartialResults
  <1>4. QED
    BY <1>1, <1>2, <1>3, OtherOutcomes DEF Verdict, InvalidQueryMeansBadQuery, PartialResults

LEMMA PhasesAlways == Spec => [](Typed /\ PhaseMeaning)
  <1>1. Init => Typed /\ PhaseMeaning
    BY InitTyped, PhaseMeaningInit
  <1>2. Typed /\ PhaseMeaning /\ [Next]_vars => (Typed /\ PhaseMeaning)'
    BY TypedStep, PhaseMeaningStep
  <1>3. QED
    BY <1>1, <1>2, PTL DEF Spec

LEMMA VerdictAlways == Spec => []Verdict
  <1>1. Init => Verdict
    BY DEF Init, Verdict, InvalidQueryMeansBadQuery, PartialResults
  <1>2. Typed /\ PhaseMeaning /\ Verdict /\ [Next]_vars => Verdict'
    BY VerdictStep
  <1>3. QED
    BY <1>1, <1>2, PhasesAlways, PTL DEF Spec

(* The caller is blamed only if it is to blame.                            *)
THEOREM InvalidQueryIsTheCallersFault == Spec => []InvalidQueryMeansBadQuery
  <1>1. Verdict => InvalidQueryMeansBadQuery
    BY DEF Verdict
  <1>2. QED
    BY <1>1, VerdictAlways, PTL

(* Some tables failing or running out of time does not fail the search.    *)
THEOREM PartialResultsHold == Spec => []PartialResults
  <1>1. Verdict => PartialResults
    BY DEF Verdict
  <1>2. QED
    BY <1>1, VerdictAlways, PTL

(***************************************************************************)
(* Rows are of visible tables.                                             *)
(***************************************************************************)

(* seen covers what is visible now, and the rows of every database whose   *)
(* visibility has been re-read are of tables in seen.                      *)
RowsSeen ==
  /\ phase = "rechecking" =>
       /\ VisibleNow \subseteq seen
       /\ \A x \in rows : DatabaseOf(x[1]) \in checked => x[1] \in seen
  /\ NoRowOfHiddenTable

LEMMA RecheckSees ==
  ASSUME Typed, PhaseMeaning, RowsSeen, NEW x \in rows, Recheck(x) PROVE RowsSeen'
  <1> DEFINE d == DatabaseOf(x[1])
  <1>1. phase = "rechecking" /\ outcome # "envelope"
    BY DEF Recheck, PhaseMeaning
  <1>2. /\ rows' = {y \in rows : DatabaseOf(y[1]) = d => y[1] \in VisibleNow}
        /\ checked' = checked \cup {d} /\ seen' = seen /\ upstream' = upstream
    BY DEF Recheck, Kept, world
  <1>3. \A y \in rows' : DatabaseOf(y[1]) \in checked' => y[1] \in seen
    BY <1>1, <1>2 DEF RowsSeen
  <1>4. VisibleNow' = VisibleNow /\ VisibleNow \subseteq seen
    BY <1>1, <1>2 DEF VisibleNow, RowsSeen
  <1>5. ASSUME outcome' = "envelope" PROVE \A y \in rows' : y[1] \in seen
    <2>1. \A y \in Unchecked : DatabaseOf(y[1]) = d
      BY <1>1, <1>5 DEF Recheck
    <2>2. \A y \in rows' : DatabaseOf(y[1]) \in checked'
      BY <1>2, <2>1 DEF Unchecked
    <2>3. QED
      BY <1>3, <2>2
  <1>6. QED
    BY <1>2, <1>3, <1>4, <1>5 DEF RowsSeen, NoRowOfHiddenTable

LEMMA AlterSees ==
  ASSUME PhaseMeaning, RowsSeen, NEW t \in Tables, NEW kind \in Kinds, Alter(t, kind)
  PROVE  RowsSeen'
  <1>1. /\ phase' = phase /\ rows' = rows /\ checked' = checked /\ outcome' = outcome
        /\ outcome # "envelope"
    BY DEF Alter, PhaseMeaning
  <1>2. phase = "rechecking" => seen' = seen \cup VisibleNow'
    BY DEF Alter
  <1>3. QED
    BY <1>1, <1>2 DEF RowsSeen, NoRowOfHiddenTable

LEMMA RowsSeenStep ==
  ASSUME Typed, PhaseMeaning, RowsSeen, [Next]_vars PROVE RowsSeen'
  <1>1. CASE UNCHANGED vars \/ Returned
    BY <1>1 DEF Returned, RowsSeen, NoRowOfHiddenTable, VisibleNow, vars, world
  <1>2. CASE Discover \/ Deadline \/ \E i \in DOMAIN task : OneTable(i)
    <2>1. rows = {} /\ rows' = {} /\ phase' # "rechecking"
      <3>1. CASE Discover
        BY <3>1 DEF Discover, Validate, ReadSummary, ReadVisible, ReadColumns, DiscoveryFails,
                    Dispatch, NextDatabase, End, PhaseMeaning
      <3>2. CASE Deadline
        BY <3>2 DEF Deadline, PhaseMeaning
      <3>3. ASSUME NEW i \in DOMAIN task, OneTable(i)
            PROVE  rows = {} /\ rows' = {} /\ phase' # "rechecking"
        BY <3>3 DEF OneTable, BackOff, SendAgain, Garbled, GetRows, Fail, Sent, End, PhaseMeaning
      <3>4. QED
        BY <1>2, <3>1, <3>2, <3>3
    <2>2. QED
      BY <2>1 DEF RowsSeen, NoRowOfHiddenTable
  <1>3. CASE Gather
    <2>1. outcome # "envelope" /\ rows = {} /\ checked = {} /\ checked' = {}
      BY <1>3 DEF Gather, PhaseMeaning
    <2>2. upstream' = upstream
      BY <1>3 DEF Gather, world
    <2>3. CASE FailedTasks = DOMAIN targets
      BY <1>3, <2>1, <2>3 DEF Gather, End, RowsSeen, NoRowOfHiddenTable
    <2>4. CASE FailedTasks # DOMAIN targets
      <3>1. seen' = VisibleNow /\ VisibleNow' = VisibleNow
        BY <1>3, <2>2, <2>4 DEF Gather, VisibleNow
      <3>2. rows' = Merged /\ (outcome' = "envelope" => Merged = {})
        BY <1>3, <2>1, <2>4 DEF Gather
      <3>3. QED
        BY <2>1, <3>1, <3>2 DEF RowsSeen, NoRowOfHiddenTable
    <2>5. QED
      BY <2>3, <2>4
  <1>4. CASE RecheckFails
    BY <1>4 DEF RecheckFails, End, RowsSeen, NoRowOfHiddenTable
  <1>5. QED
    BY <1>1, <1>2, <1>3, <1>4, RecheckSees, AlterSees DEF Next, Conclude

(* A table hidden before its answer is used is not in the envelope's rows. *)
THEOREM HiddenTablesStayHidden == Spec => []NoRowOfHiddenTable
  <1>1. Init => RowsSeen
    BY DEF Init, RowsSeen, NoRowOfHiddenTable
  <1>2. Typed /\ PhaseMeaning /\ RowsSeen /\ [Next]_vars => RowsSeen'
    BY RowsSeenStep
  <1>3. RowsSeen => NoRowOfHiddenTable
    BY DEF RowsSeen
  <1>4. QED
    BY <1>1, <1>2, <1>3, PhasesAlways, PTL DEF Spec

(***************************************************************************)
(* Rows and totals are of searchable tables.                               *)
(***************************************************************************)

(* What a table is now is among what it has been.                          *)
Remembered == \A t \in Tables : upstream[t] \in during[t]

LEMMA RememberedStep ==
  ASSUME Typed, Remembered, [Next]_vars PROVE Remembered'
  <1>1. CASE UNCHANGED <<upstream, during>>
    BY <1>1 DEF Remembered
  <1>2. ASSUME NEW t \in Tables, NEW kind \in Kinds, Alter(t, kind) PROVE Remembered'
    BY <1>2 DEF Alter, Remembered, Typed, TypeOK
  <1>3. QED
    BY <1>1, <1>2 DEF Next, Discover, Validate, ReadSummary, ReadVisible, ReadColumns,
         DiscoveryFails, Dispatch, OneTable, BackOff, SendAgain, Garbled, GetRows, Fail, Deadline,
         Conclude, Gather, Recheck, RecheckFails, Returned, vars, world

LEMMA RememberedAlways == Spec => []Remembered
  <1>1. Init => Remembered
    BY DEF Init, Remembered
  <1>2. Typed /\ Remembered /\ [Next]_vars => Remembered'
    BY RememberedStep
  <1>3. QED
    BY <1>1, <1>2, PhasesAlways, PTL DEF Spec

(* What was so stays so.                                                   *)
LEMMA HistoryGrows ==
  ASSUME Typed, Remembered, NEW t \in Tables, NEW kind \in Kinds, Alter(t, kind)
  PROVE  /\ Indexed \subseteq Indexed' /\ Shown \subseteq Shown'
         /\ AlwaysSearchable' \subseteq AlwaysSearchable
         /\ AlwaysShown' \subseteq AlwaysShown
  <1>1. \A u \in Tables : during[u] \subseteq during'[u]
    BY DEF Alter, Typed, TypeOK
  <1>2. \A u \in Tables : during[u] # {}
    BY DEF Remembered
  <1>3. \A u \in Tables : during'[u] = {"searchable"} => during[u] = {"searchable"}
    BY <1>1, <1>2
  <1>4. QED
    BY <1>1, <1>3 DEF Indexed, Shown, AlwaysSearchable, AlwaysShown

LEMMA HistoryKept ==
  ASSUME UNCHANGED during
  PROVE  UNCHANGED <<Indexed, Shown, AlwaysSearchable, AlwaysShown>>
  BY DEF Indexed, Shown, AlwaysSearchable, AlwaysShown

(* From the first summary on, whatever leads to a row had an index; from   *)
(* the second on, it was visible as well.                                  *)
FromIndexed ==
  /\ phase \in {"visible", "columns"} =>
       \A i \in left : FirstLeft(i) =>
         \A k \in found : TablesOf[request.databases[i]][k] \in Indexed
  /\ phase = "columns" =>
       \A i \in left : FirstLeft(i) =>
         \A k \in found : TablesOf[request.databases[i]][k] \in Shown
  /\ \A i \in DOMAIN targets : targets[i] \in Indexed \cap Shown
  /\ \A x \in rows : x[1] \in Indexed
  /\ DOMAIN totals \subseteq Indexed \cap Shown

LEMMA SummaryIndexed ==
  ASSUME Typed, Remembered, FromIndexed, NEW i \in left, ReadSummary(i) PROVE FromIndexed'
  <1>1. request.databases[i] \in Databases
    BY DEF ReadSummary, Typed, DiscoveryOK
  <1>2. ASSUME NEW k \in found' PROVE TablesOf[request.databases[i]][k] \in Indexed
    <2>1. k \in Candidates(request.databases[i])
      BY <1>2 DEF ReadSummary
    <2>2. /\ TablesOf[request.databases[i]][k] \in Tables
          /\ upstream[TablesOf[request.databases[i]][k]] \in {"searchable", "hidden"}
      BY <1>1, <2>1, CandidateTyped DEF Candidates
    <2>3. QED
      BY <2>2 DEF Remembered, Indexed
  <1>3. \A j \in left : FirstLeft(j)' => j = i
    BY FirstLeftUnique DEF ReadSummary, Typed, FirstLeft
  <1>4. UNCHANGED <<Indexed, Shown>>
    BY HistoryKept DEF ReadSummary, world
  <1>5. QED
    BY <1>2, <1>3, <1>4 DEF ReadSummary, FromIndexed, world, fanOut

LEMMA VisibleIndexed ==
  ASSUME Typed, Remembered, FromIndexed, NEW i \in left, ReadVisible(i) PROVE FromIndexed'
  <1>1. UNCHANGED <<Indexed, Shown, targets, totals, rows, request>>
    BY HistoryKept DEF ReadVisible, world, fanOut
  <1>2. VisibleNow \subseteq Shown
    BY DEF VisibleNow, Remembered, Shown
  <1>3. /\ found' \subseteq found
        /\ \A k \in found' : TablesOf[request.databases[i]][k] \in Shown
    BY <1>2 DEF ReadVisible
  <1>4. CASE found' = {}
    BY <1>1, <1>4 DEF FromIndexed
  <1>5. CASE found' # {}
    <2>1. left' = left /\ phase = "visible"
      BY <1>5 DEF ReadVisible
    <2>2. \A j \in left : FirstLeft(j)' <=> FirstLeft(j)
      BY <1>1, <2>1 DEF FirstLeft
    <2>3. \A j \in left : FirstLeft(j) => j = i
      BY FirstLeftUnique DEF ReadVisible, Typed
    <2>4. QED
      BY <1>1, <1>3, <2>1, <2>2, <2>3 DEF FromIndexed
  <1>6. QED
    BY <1>4, <1>5

LEMMA ColumnsIndexed ==
  ASSUME Typed, FromIndexed, NEW i \in left, NEW k \in found, ReadColumns(i, k)
  PROVE  FromIndexed'
  <1> DEFINE t == TablesOf[request.databases[i]][k]
  <1>1. UNCHANGED <<Indexed, Shown, totals, rows, request>>
    BY HistoryKept DEF ReadColumns, world
  <1>2. t \in Indexed \cap Shown /\ phase = "columns"
    <2>1. phase = "columns" /\ FirstLeft(i)
      BY DEF ReadColumns
    <2>2. t \in Indexed /\ t \in Shown
      BY <2>1 DEF FromIndexed
    <2>3. QED
      BY <2>1, <2>2
  <1>3. CASE upstream[t] = "gone"
    BY <1>1, <1>3 DEF ReadColumns, End, FromIndexed
  <1>4. CASE upstream[t] # "gone"
    <2>1. \A j \in DOMAIN targets' : targets'[j] \in Indexed \cap Shown
      <3>1. targets \in Seq(Tables)
        BY DEF Typed, TypeOK
      <3>2. targets' = targets \/ targets' = Append(targets, t)
        BY <1>4 DEF ReadColumns
      <3>3. QED
        BY <1>2, <3>1, <3>2 DEF FromIndexed
    <2>2. found' \subseteq found
      BY <1>4 DEF ReadColumns
    <2>3. CASE found = {k}
      <3>1. phase' \in {"discovered", "summary"}
        BY <1>4, <2>3 DEF ReadColumns, NextDatabase
      <3>2. QED
        BY <1>1, <2>1, <3>1 DEF FromIndexed
    <2>4. CASE found # {k}
      <3>1. left' = left /\ phase' = "columns"
        BY <1>2, <1>4, <2>4 DEF ReadColumns
      <3>2. \A j \in left : FirstLeft(j)' <=> FirstLeft(j)
        BY <1>1, <3>1 DEF FirstLeft
      <3>3. QED
        BY <1>1, <1>2, <2>1, <2>2, <3>1, <3>2 DEF FromIndexed
    <2>5. QED
      BY <2>3, <2>4
  <1>5. QED
    BY <1>3, <1>4

LEMMA MergedFromTargets ==
  ASSUME NEW x \in Merged
  PROVE  \E i \in DOMAIN targets : x[1] = targets[i]
  BY DEF Merged, OutRows

(* A step of a task adds at most the total of its own table.               *)
LEMMA AnsweredTotals ==
  ASSUME Typed, NEW i \in DOMAIN task, OneTable(i)
  PROVE  /\ i \in DOMAIN targets
         /\ DOMAIN totals' \subseteq DOMAIN totals \cup {targets[i]}
  BY DEF OneTable, BackOff, SendAgain, Garbled, GetRows, Fail, Sent, Typed, TypeOK

LEMMA FromIndexedStep ==
  ASSUME Typed, PhaseMeaning, Remembered, FromIndexed, [Next]_vars PROVE FromIndexed'
  <1>1. CASE UNCHANGED vars \/ Returned
    <2>1. \A i : FirstLeft(i)' <=> FirstLeft(i)
      BY <1>1 DEF Returned, vars, discovery, FirstLeft
    <2>2. UNCHANGED <<Indexed, Shown>>
      BY <1>1, HistoryKept DEF Returned, vars, world
    <2>3. QED
      BY <1>1, <2>1, <2>2 DEF Returned, FromIndexed, vars, discovery, fanOut
  <1>2. CASE Discover
    <2>1. CASE Validate \/ DiscoveryFails \/ Dispatch
      <3>1. /\ UNCHANGED <<Indexed, Shown, targets, totals, rows>>
            /\ phase' \in {"summary", "searching", "done"}
        BY <2>1, HistoryKept DEF Validate, DiscoveryFails, Dispatch, End, world, fanOut
      <3>2. QED
        BY <3>1 DEF FromIndexed
    <2>2. QED
      BY <1>2, <2>1, SummaryIndexed, VisibleIndexed, ColumnsIndexed DEF Discover
  <1>3. CASE Deadline \/ \E i \in DOMAIN task : OneTable(i)
    <2>1. /\ UNCHANGED <<Indexed, Shown, targets, rows>>
          /\ phase' \in {"searching", "done"}
      BY <1>3, HistoryKept
         DEF Deadline, OneTable, BackOff, SendAgain, Garbled, GetRows, Fail, Sent, End, world
    <2>2. DOMAIN totals' \subseteq Indexed \cap Shown
      <3>1. CASE Deadline
        BY <3>1 DEF Deadline, FromIndexed
      <3>2. ASSUME NEW i \in DOMAIN task, OneTable(i)
            PROVE  DOMAIN totals' \subseteq Indexed \cap Shown
        BY <3>2, AnsweredTotals DEF FromIndexed
      <3>3. QED
        BY <1>3, <3>1, <3>2
    <2>3. QED
      BY <2>1, <2>2 DEF FromIndexed
  <1>4. CASE Gather
    <2>1. UNCHANGED <<Indexed, Shown, targets, totals>> /\ phase' \in {"rechecking", "done"}
      BY <1>4, HistoryKept DEF Gather, End, world, fanOut
    <2>2. rows' = rows \/ rows' = Merged
      BY <1>4 DEF Gather
    <2>3. \A x \in rows' : x[1] \in Indexed
      BY <2>2, MergedFromTargets DEF FromIndexed
    <2>4. QED
      BY <2>1, <2>3 DEF FromIndexed
  <1>5. CASE RecheckFails \/ \E x \in rows : Recheck(x)
    <2>1. /\ UNCHANGED <<Indexed, Shown, targets, totals>> /\ phase' \in {"rechecking", "done"}
          /\ rows' \subseteq rows
      BY <1>5, HistoryKept DEF RecheckFails, Recheck, Kept, End, world, fanOut
    <2>2. QED
      BY <2>1 DEF FromIndexed
  <1>6. ASSUME NEW t \in Tables, NEW kind \in Kinds, Alter(t, kind) PROVE FromIndexed'
    <2>1. Indexed \subseteq Indexed' /\ Shown \subseteq Shown'
      BY <1>6, HistoryGrows
    <2>2. \A i : FirstLeft(i)' <=> FirstLeft(i)
      BY <1>6 DEF Alter, discovery, FirstLeft
    <2>3. UNCHANGED <<phase, request, left, found, targets, totals, rows>>
      BY <1>6 DEF Alter, discovery, fanOut
    <2>4. QED
      BY <2>1, <2>2, <2>3 DEF FromIndexed
  <1>7. QED
    BY <1>1, <1>2, <1>3, <1>4, <1>5, <1>6 DEF Next, Conclude

(* The fts_table gate does its work wherever the upstream goes meanwhile.  *)
THEOREM NoFakeHitsHolds == Spec => []NoFakeHits
  <1>1. Init => FromIndexed
    BY DEF Init, FromIndexed
  <1>2. Typed /\ PhaseMeaning /\ Remembered /\ FromIndexed /\ [Next]_vars => FromIndexed'
    BY FromIndexedStep
  <1>3. FromIndexed => NoFakeHits
    BY DEF FromIndexed, NoFakeHits
  <1>4. QED
    BY <1>1, <1>2, <1>3, PhasesAlways, RememberedAlways, PTL DEF Spec

LEMMA TotalsAreOfSearchableTables == Spec => []TotalsOfSearchableTables
  <1>1. Init => FromIndexed
    BY DEF Init, FromIndexed
  <1>2. Typed /\ PhaseMeaning /\ Remembered /\ FromIndexed /\ [Next]_vars => FromIndexed'
    BY FromIndexedStep
  <1>3. FromIndexed => TotalsOfSearchableTables
    BY DEF FromIndexed, TotalsOfSearchableTables
  <1>4. QED
    BY <1>1, <1>2, <1>3, PhasesAlways, RememberedAlways, PTL DEF Spec

(***************************************************************************)
(* The slots of the fan-out.                                               *)
(***************************************************************************)

(* Tasks n, n + 1, ... are queued, the others are not.                     *)
QueuedFrom(n) == \A i \in DOMAIN task : task[i] = "queued" <=> n <= i

Slots ==
  phase = "searching" =>
    /\ Cardinality(Holders) <= Permits
    /\ \E n \in 1 .. Len(targets) + 1 :
         QueuedFrom(n) /\ (n <= Len(targets) => Cardinality(Holders) = Permits)

LEMMA HoldersFinite ==
  ASSUME Typed, phase = "searching"
  PROVE  /\ DOMAIN task = 1 .. Len(targets) /\ Len(targets) \in Nat
         /\ IsFiniteSet(Holders) /\ Cardinality(Holders) \in Nat
  <1>1. targets \in Seq(Tables) /\ DOMAIN task = DOMAIN targets
    BY DEF Typed, TypeOK
  <1>2. DOMAIN task = 1 .. Len(targets) /\ Len(targets) \in Nat
    BY <1>1
  <1>3. Holders \in SUBSET (1 .. Len(targets))
    BY <1>2 DEF Holders
  <1>4. IsFiniteSet(1 .. Len(targets))
    BY <1>2, FS_Interval
  <1>5. IsFiniteSet(Holders)
    BY <1>3, <1>4, FS_Subset
  <1>6. QED
    BY <1>2, <1>5, FS_CardinalityType

LEMMA DispatchSlots ==
  ASSUME Typed, Dispatch PROVE Slots'
  <1> SUFFICES ASSUME targets # << >> PROVE Slots'
    BY DEF Dispatch, End, Slots
  <1>1. targets \in Seq(Tables) /\ Len(targets) \in Nat /\ Permits \in Nat \ {0}
    BY SearchParameters DEF Typed, TypeOK
  <1>2. /\ task' = [i \in 1 .. Len(targets) |-> IF i <= Permits THEN "sending" ELSE "queued"]
        /\ targets' = targets
    BY <1>1 DEF Dispatch, Started
  <1>3. CASE Len(targets) <= Permits
    <2>1. Holders' = 1 .. Len(targets)
      BY <1>1, <1>2, <1>3 DEF Holders
    <2>2. Cardinality(Holders') = Len(targets)
      BY <1>1, <2>1, FS_Interval
    <2>3. QueuedFrom(Len(targets) + 1)'
      BY <1>1, <1>2, <1>3 DEF QueuedFrom
    <2>4. QED
      BY <1>1, <1>2, <1>3, <2>2, <2>3 DEF Slots
  <1>4. CASE Permits < Len(targets)
    <2>1. Holders' = 1 .. Permits
      BY <1>1, <1>2, <1>4 DEF Holders
    <2>2. Cardinality(Holders') = Permits
      BY <1>1, <2>1, FS_Interval
    <2>3. QueuedFrom(Permits + 1)'
      BY <1>1, <1>2 DEF QueuedFrom
    <2>4. QED
      BY <1>1, <1>2, <1>4, <2>2, <2>3 DEF Slots
  <1>5. QED
    BY <1>1, <1>3, <1>4

(* A task that ends hands its slot on.                                     *)
LEMMA FinishSlots ==
  ASSUME Typed, Slots, phase = "searching", NEW i \in Holders, NEW state \in Ended,
         Finish(i, state), targets' = targets
  PROVE  Slots'
  <1>1. /\ DOMAIN task = 1 .. Len(targets) /\ Len(targets) \in Nat
        /\ IsFiniteSet(Holders) /\ Cardinality(Holders) \in Nat
    BY HoldersFinite
  <1>2. /\ DOMAIN task' = DOMAIN task
        /\ task'[i] = state
        /\ \A j \in DOMAIN task : j # i /\ FirstQueued(j) => task'[j] = "sending"
        /\ \A j \in DOMAIN task : j # i /\ ~FirstQueued(j) => task'[j] = task[j]
    BY DEF Finish, Holders
  <1>3. /\ i \in DOMAIN task /\ task[i] # "queued" /\ state # "queued"
        /\ state \notin {"sending", "backoff", "resending"}
    BY DEF Holders, Ended
  <1>4. PICK n \in 1 .. Len(targets) + 1 :
          QueuedFrom(n) /\ (n <= Len(targets) => Cardinality(Holders) = Permits)
    BY DEF Slots
  <1>5. Permits \in Nat \ {0}
    BY SearchParameters
  <1>6. CASE n <= Len(targets)
    <2>1. n \in DOMAIN task /\ task[n] = "queued" /\ n # i /\ n \notin Holders
      BY <1>1, <1>3, <1>4, <1>6 DEF QueuedFrom, Holders
    <2>2. \A j \in DOMAIN task : FirstQueued(j) <=> j = n
      BY <1>1, <1>4, <2>1 DEF FirstQueued, QueuedFrom
    <2>3. Holders' = (Holders \ {i}) \cup {n}
      BY <1>2, <1>3, <2>1, <2>2 DEF Holders
    <2>4. Cardinality(Holders') = Cardinality(Holders)
      <3>1. IsFiniteSet(Holders \ {i}) /\ Cardinality(Holders \ {i}) = Cardinality(Holders) - 1
        BY <1>1, FS_RemoveElement
      <3>2. n \notin Holders \ {i}
        BY <2>1
      <3>3. Cardinality((Holders \ {i}) \cup {n}) = Cardinality(Holders \ {i}) + 1
        BY <3>1, <3>2, FS_AddElement
      <3>4. QED
        BY <1>1, <2>3, <3>1, <3>3
    <2>5. QueuedFrom(n + 1)'
      BY <1>1, <1>2, <1>3, <1>4, <2>1, <2>2 DEF QueuedFrom
    <2>6. n + 1 \in 1 .. Len(targets) + 1
      BY <1>1, <1>6
    <2>7. QED
      BY <1>4, <1>5, <1>6, <2>4, <2>5, <2>6 DEF Slots
  <1>7. CASE ~(n <= Len(targets))
    <2>1. n = Len(targets) + 1 /\ \A j \in DOMAIN task : task[j] # "queued"
      BY <1>1, <1>4, <1>7 DEF QueuedFrom
    <2>2. \A j \in DOMAIN task : ~FirstQueued(j)
      BY <2>1 DEF FirstQueued
    <2>3. Holders' = Holders \ {i}
      BY <1>2, <1>3, <2>2 DEF Holders
    <2>4. Cardinality(Holders') = Cardinality(Holders) - 1
      BY <1>1, <2>3, FS_RemoveElement
    <2>5. QueuedFrom(n)'
      BY <1>1, <1>2, <1>3, <2>1, <2>2 DEF QueuedFrom
    <2>6. Cardinality(Holders) <= Permits
      BY DEF Slots
    <2>7. QED
      BY <1>1, <1>4, <1>5, <1>7, <2>4, <2>5, <2>6 DEF Slots
  <1>8. QED
    BY <1>6, <1>7

(* A task that sleeps or sends again keeps its slot.                       *)
LEMMA HoldSlots ==
  ASSUME Typed, Slots, phase = "searching", NEW i \in Holders,
         NEW state \in {"sending", "backoff", "resending"},
         task' = [task EXCEPT ![i] = state], targets' = targets
  PROVE  Slots'
  <1>1. Holders' = Holders
    BY DEF Holders
  <1>2. \A n : QueuedFrom(n) => QueuedFrom(n)'
    BY DEF QueuedFrom, Holders
  <1>3. QED
    BY <1>1, <1>2 DEF Slots

LEMMA DeadlineSlots ==
  ASSUME Typed, Slots, Deadline PROVE Slots'
  <1>1. Holders' = {} /\ \A i \in DOMAIN task' : task'[i] # "queued"
    BY DEF Deadline, Cancelled, Holders, Running
  <1>2. phase = "searching" /\ targets' = targets /\ DOMAIN task' = DOMAIN task
    BY DEF Deadline, Cancelled
  <1>3. DOMAIN task = 1 .. Len(targets) /\ Len(targets) \in Nat
    BY <1>2, HoldersFinite
  <1>4. Cardinality(Holders') = 0 /\ Permits \in Nat
    BY <1>1, FS_EmptySet, SearchParameters
  <1>5. QueuedFrom(Len(targets) + 1)'
    BY <1>1, <1>2, <1>3 DEF QueuedFrom
  <1>6. QED
    BY <1>2, <1>3, <1>4, <1>5 DEF Slots

LEMMA SlotsStep ==
  ASSUME Typed, Slots, [Next]_vars PROVE Slots'
  <1>1. CASE UNCHANGED vars \/ Returned \/ \E t \in Tables, kind \in Kinds : Alter(t, kind)
    <2>1. UNCHANGED <<phase, targets, task>>
      BY <1>1 DEF Returned, Alter, vars, fanOut
    <2>2. Holders' = Holders /\ \A n : QueuedFrom(n)' <=> QueuedFrom(n)
      BY <2>1 DEF Holders, QueuedFrom
    <2>3. QED
      BY <2>1, <2>2 DEF Slots
  <1>2. CASE Discover
    <2>1. CASE Dispatch
      BY <2>1, DispatchSlots
    <2>2. CASE ~Dispatch
      <3>1. phase' # "searching"
        BY <1>2, <2>2 DEF Discover, Validate, ReadSummary, ReadVisible, ReadColumns, NextDatabase,
                          DiscoveryFails, End
      <3>2. QED
        BY <3>1 DEF Slots
    <2>3. QED
      BY <2>1, <2>2
  <1>3. ASSUME NEW i \in DOMAIN task, OneTable(i) PROVE Slots'
    <2>1. CASE BackOff(i)
      BY <1>3, <2>1, HoldSlots DEF BackOff, Sent, Holders
    <2>2. CASE SendAgain(i)
      BY <1>3, <2>2, HoldSlots DEF SendAgain, Holders
    <2>3. CASE Garbled(i)
      BY <2>3 DEF Garbled, End, Slots
    <2>4. ASSUME NEW hits \in 0 .. MaxHits, GetRows(i, hits) PROVE Slots'
      BY <1>3, <2>4, FinishSlots DEF GetRows, Sent, Holders, Ended
    <2>5. ASSUME NEW reply \in Failures, Fail(i, reply) PROVE Slots'
      BY <1>3, <2>5, FinishSlots DEF Fail, Sent, Holders, Ended
    <2>6. QED
      BY <1>3, <2>1, <2>2, <2>3, <2>4, <2>5 DEF OneTable
  <1>4. CASE Conclude
    BY <1>4 DEF Conclude, Gather, Recheck, RecheckFails, End, Slots
  <1>5. QED
    BY <1>1, <1>2, <1>3, <1>4, DeadlineSlots DEF Next

LEMMA SlotsMean ==
  ASSUME Typed, Slots PROVE SlotsConserved
  <1> SUFFICES ASSUME phase = "searching" PROVE SlotsConserved
    BY DEF SlotsConserved
  <1>1. DOMAIN task = 1 .. Len(targets) /\ Len(targets) \in Nat
    BY HoldersFinite
  <1>2. PICK n \in 1 .. Len(targets) + 1 :
          QueuedFrom(n) /\ (n <= Len(targets) => Cardinality(Holders) = Permits)
    BY DEF Slots
  <1>3. ASSUME NEW i \in DOMAIN task, task[i] = "queued"
        PROVE  /\ Cardinality(Holders) = Permits
               /\ \A j \in DOMAIN task : i < j => task[j] = "queued"
    BY <1>1, <1>2, <1>3 DEF QueuedFrom
  <1>4. QED
    BY <1>3 DEF Slots, SlotsConserved

(* The semaphore bounds the fan-out, and wastes and reorders nothing.      *)
THEOREM SlotsConservedHolds == Spec => []SlotsConserved
  <1>1. Init => Slots
    BY DEF Init, Slots
  <1>2. Typed /\ Slots /\ [Next]_vars => Slots'
    BY SlotsStep
  <1>3. Typed /\ Slots => SlotsConserved
    BY SlotsMean
  <1>4. QED
    BY <1>1, <1>2, <1>3, PhasesAlways, PTL DEF Spec

(***************************************************************************)
(* The totals.                                                             *)
(***************************************************************************)

TotalsAnswered ==
  /\ DOMAIN totals = {targets[i] : i \in AnsweredTasks}
  /\ phase \in {"called", "summary", "visible", "columns", "discovered"} => AnsweredTasks = {}

LEMMA TaskTotals ==
  ASSUME Typed, TotalsAnswered, NEW i \in DOMAIN task, OneTable(i) PROVE TotalsAnswered'
  <1>1. targets' = targets /\ phase' \in {"searching", "done"}
    BY DEF OneTable, BackOff, SendAgain, Garbled, GetRows, Fail, Sent, End
  <1>2. CASE BackOff(i) \/ SendAgain(i) \/ Garbled(i) \/ \E reply \in Failures : Fail(i, reply)
    <2>1. totals' = totals
      BY <1>2 DEF BackOff, SendAgain, Garbled, Fail
    <2>2. AnsweredTasks' = AnsweredTasks
      BY <1>2 DEF BackOff, SendAgain, Garbled, Fail, Sent, Finish, FirstQueued, Cancelled, Running,
                  AnsweredTasks
    <2>3. QED
      BY <1>1, <2>1, <2>2 DEF TotalsAnswered
  <1>3. ASSUME NEW hits \in 0 .. MaxHits, GetRows(i, hits) PROVE TotalsAnswered'
    <2>1. DOMAIN totals' = DOMAIN totals \cup {targets[i]}
      BY <1>3 DEF GetRows
    <2>2. AnsweredTasks' = AnsweredTasks \cup {i}
      BY <1>3 DEF GetRows, Sent, Finish, FirstQueued, AnsweredTasks
    <2>3. QED
      BY <1>1, <2>1, <2>2 DEF TotalsAnswered
  <1>4. QED
    BY <1>2, <1>3 DEF OneTable

LEMMA TotalsAnsweredStep ==
  ASSUME Typed, TotalsAnswered, [Next]_vars PROVE TotalsAnswered'
  <1>1. CASE Discover
    <2>1. AnsweredTasks = {} /\ totals' = totals
      BY <1>1 DEF Discover, Validate, ReadSummary, ReadVisible, ReadColumns, DiscoveryFails,
                  Dispatch, fanOut, TotalsAnswered
    <2>2. AnsweredTasks' = {}
      <3>1. CASE Dispatch
        BY <2>1, <3>1 DEF Dispatch, Started, AnsweredTasks
      <3>2. CASE ~Dispatch
        <4>1. task' = task
          BY <1>1, <3>2 DEF Discover, Validate, ReadSummary, ReadVisible, ReadColumns,
                            DiscoveryFails, fanOut
        <4>2. QED
          BY <2>1, <4>1 DEF AnsweredTasks
      <3>3. QED
        BY <3>1, <3>2
    <2>3. QED
      BY <2>1, <2>2 DEF TotalsAnswered
  <1>2. CASE Deadline
    <2>1. AnsweredTasks' = AnsweredTasks
      BY <1>2 DEF Deadline, Cancelled, Running, AnsweredTasks
    <2>2. QED
      BY <1>2, <2>1 DEF Deadline, TotalsAnswered
  <1>3. CASE Conclude \/ Returned \/ UNCHANGED vars \/ \E t \in Tables, kind \in Kinds : Alter(t, kind)
    <2>1. /\ UNCHANGED <<targets, task, totals>>
          /\ phase' \in {phase, "rechecking", "done"}
      BY <1>3 DEF Conclude, Gather, Recheck, RecheckFails, End, Returned, Alter, vars, fanOut
    <2>2. AnsweredTasks' = AnsweredTasks
      BY <2>1 DEF AnsweredTasks
    <2>3. QED
      BY <2>1, <2>2 DEF TotalsAnswered
  <1>4. QED
    BY <1>1, <1>2, <1>3, TaskTotals DEF Next

LEMMA TotalsAreOfAnsweredTables == Spec => []TotalsOfAnsweredTables
  <1>1. Init => TotalsAnswered
    BY DEF Init, TotalsAnswered, AnsweredTasks
  <1>2. Typed /\ TotalsAnswered /\ [Next]_vars => TotalsAnswered'
    BY TotalsAnsweredStep
  <1>3. TotalsAnswered => TotalsOfAnsweredTables
    BY DEF TotalsAnswered, TotalsOfAnsweredTables
  <1>4. QED
    BY <1>1, <1>2, <1>3, PhasesAlways, PTL DEF Spec

(* The totals name exactly the tables that were answered; one may be of a  *)
(* table hidden meanwhile, none is of one hidden, or not indexed,          *)
(* throughout the call.                                                    *)
THEOREM TotalsAreTrueHolds == Spec => []TotalsAreTrue
  <1>1. TotalsOfAnsweredTables /\ TotalsOfSearchableTables => TotalsAreTrue
    BY DEF TotalsAreTrue
  <1>2. QED
    BY <1>1, TotalsAreOfAnsweredTables, TotalsAreOfSearchableTables, PTL

(***************************************************************************)
(* The merge.                                                              *)
(***************************************************************************)

LEMMA LeastNatural ==
  ASSUME NEW T \in SUBSET Nat, T # {}
  PROVE  \E n \in T : \A m \in T : n <= m
  <1> DEFINE R == {ss \in Nat \X Nat : ss[1] < ss[2]}
  <1>1. IsWellFoundedOn(R, Nat)
    BY NatLessThanWellFounded DEF OpToRel
  <1>2. \E n \in T : \A m \in T : ~(<<m, n>> \in R)
    BY <1>1, WFMin
  <1>3. ASSUME NEW n \in T, \A m \in T : ~(<<m, n>> \in R), NEW m \in T PROVE n <= m
    <2>1. m \in Nat /\ n \in Nat /\ ~(<<m, n>> \in R)
      BY <1>3
    <2>2. m < n => <<m, n>> \in R
      BY <2>1
    <2>3. QED
      BY <2>1, <2>2
  <1> HIDE DEF R
  <1>4. QED
    BY <1>2, <1>3

Targeted == {targets[i] : i \in DOMAIN targets}

LEMMA InitialInterval ==
  ASSUME NEW n \in Nat
  PROVE  IsFiniteSet(0 .. n - 1) /\ Cardinality(0 .. n - 1) = n
  <1>1. 0 \in Int /\ n - 1 \in Int
    OBVIOUS
  <1>2. /\ IsFiniteSet(0 .. n - 1)
        /\ Cardinality(0 .. n - 1) = IF 0 > n - 1 THEN 0 ELSE n - 1 - 0 + 1
    BY <1>1, FS_Interval
  <1>3. QED
    BY <1>2

(* Two tables are ordered as their first mentions are.                     *)
LEMMA BeforeOrders ==
  ASSUME Typed, NEW t \in Targeted, NEW u \in Targeted
  PROVE  /\ ~Before(t, t)
         /\ t = u \/ Before(t, u) \/ Before(u, t)
         /\ \A v \in Targeted : Before(t, u) /\ Before(u, v) => Before(t, v)
  <1>1. targets \in Seq(Tables) /\ DOMAIN targets \subseteq Nat
    BY DEF Typed, TypeOK
  <1>2. ASSUME NEW w \in Targeted
        PROVE  \E i \in DOMAIN targets :
                 targets[i] = w /\ \A j \in DOMAIN targets : targets[j] = w => i <= j
    <2> DEFINE T == {i \in DOMAIN targets : targets[i] = w}
    <2>1. T \in SUBSET Nat /\ T # {}
      BY <1>1, <1>2 DEF Targeted
    <2>2. PICK i \in T : \A j \in T : i <= j
      BY <2>1, LeastNatural
    <2>3. QED
      BY <2>2
  <1>3. ~Before(t, t)
    BY <1>1 DEF Before
  <1>4. t = u \/ Before(t, u) \/ Before(u, t)
    <2>1. PICK i \in DOMAIN targets :
            targets[i] = t /\ \A j \in DOMAIN targets : targets[j] = t => i <= j
      BY <1>2
    <2>2. PICK k \in DOMAIN targets :
            targets[k] = u /\ \A j \in DOMAIN targets : targets[j] = u => k <= j
      BY <1>2
    <2>3. i \in Nat /\ k \in Nat /\ \A j \in DOMAIN targets : j \in Nat
      BY <1>1
    <2>4. CASE i < k
      BY <2>1, <2>2, <2>3, <2>4 DEF Before
    <2>5. CASE k < i
      BY <2>1, <2>2, <2>3, <2>5 DEF Before
    <2>6. CASE i = k
      BY <2>1, <2>2, <2>6
    <2>7. QED
      BY <2>3, <2>4, <2>5, <2>6
  <1>5. ASSUME NEW v \in Targeted, Before(t, u), Before(u, v) PROVE Before(t, v)
    BY <1>1, <1>5 DEF Before
  <1>6. QED
    BY <1>3, <1>4, <1>5

Bounded == \A t \in Tables : outRows[t] <= request.limit

(* The rows of the targets are finitely many pairs, totally ordered.       *)
LEMMA OutRowsTyped ==
  ASSUME Typed, Bounded
  PROVE  /\ OutRows \subseteq Targeted \X (1 .. request.limit)
         /\ request.limit \in Nat
         /\ IsFiniteSet(OutRows)
  <1>1. targets \in Seq(Tables) /\ request.limit \in Nat /\ outRows \in [Tables -> Nat]
    BY RequestTyped DEF Typed, TypeOK
  <1>2. Targeted \subseteq Tables
    BY <1>1 DEF Targeted
  <1>3. OutRows \subseteq Targeted \X (1 .. request.limit)
    <2> SUFFICES ASSUME NEW x \in OutRows PROVE x \in Targeted \X (1 .. request.limit)
      OBVIOUS
    <2>1. PICK t \in Targeted : x \in {<<t, r>> : r \in 1 .. outRows[t]}
      BY DEF OutRows, Targeted
    <2>2. PICK r \in 1 .. outRows[t] : x = <<t, r>>
      BY <2>1
    <2>3. outRows[t] \in Nat /\ outRows[t] <= request.limit
      BY <1>1, <1>2 DEF Bounded
    <2>4. QED
      BY <1>1, <2>2, <2>3
  <1>4. IsFiniteSet(Targeted)
    <2>1. DOMAIN targets = 1 .. Len(targets) /\ Len(targets) \in Nat
      BY <1>1
    <2>2. IsFiniteSet(DOMAIN targets)
      BY <2>1, FS_Interval
    <2>3. targets \in [DOMAIN targets -> Targeted]
      BY <1>1 DEF Targeted
    <2>4. targets \in Surjection(DOMAIN targets, Targeted)
      BY <2>3 DEF Surjection, Targeted
    <2>5. QED
      BY <2>2, <2>4, FS_Surjection
  <1>5. IsFiniteSet(1 .. request.limit)
    BY <1>1, FS_Interval
  <1>6. IsFiniteSet(Targeted \X (1 .. request.limit))
    BY <1>4, <1>5, FS_Product
  <1>7. QED
    BY <1>1, <1>3, <1>6, FS_Subset

LEMMA PrecedesOrders ==
  ASSUME Typed, Bounded, NEW x \in OutRows, NEW y \in OutRows
  PROVE  /\ ~Precedes(x, x)
         /\ x = y \/ Precedes(x, y) \/ Precedes(y, x)
         /\ \A z \in OutRows : Precedes(x, y) /\ Precedes(y, z) => Precedes(x, z)
  <1>1. \A z \in OutRows : z = <<z[1], z[2]>> /\ z[1] \in Targeted /\ z[2] \in Nat
    BY OutRowsTyped
  <1>2. ~Precedes(x, x)
    BY <1>1, BeforeOrders DEF Precedes
  <1>3. x = y \/ Precedes(x, y) \/ Precedes(y, x)
    <2>1. x[1] = y[1] \/ Before(x[1], y[1]) \/ Before(y[1], x[1])
      BY <1>1, BeforeOrders
    <2>2. x[2] < y[2] \/ x[2] = y[2] \/ y[2] < x[2]
      BY <1>1
    <2>3. QED
      BY <1>1, <2>1, <2>2 DEF Precedes
  <1>4. ASSUME NEW z \in OutRows, Precedes(x, y), Precedes(y, z) PROVE Precedes(x, z)
    <2>1. Before(x[1], y[1]) /\ Before(y[1], z[1]) => Before(x[1], z[1])
      BY <1>1, BeforeOrders
    <2>2. QED
      BY <1>1, <1>4, <2>1 DEF Precedes
  <1>5. QED
    BY <1>2, <1>3, <1>4

Rank(x) == Cardinality({y \in OutRows : Precedes(y, x)})

LEMMA RankTyped ==
  ASSUME Typed, Bounded, NEW x \in OutRows
  PROVE  Rank(x) \in Nat /\ Cardinality(OutRows) \in Nat /\ Rank(x) < Cardinality(OutRows)
  <1> DEFINE P == {y \in OutRows : Precedes(y, x)}
  <1>1. IsFiniteSet(OutRows)
    BY OutRowsTyped
  <1>2. x \notin P
    BY PrecedesOrders
  <1>3. IsFiniteSet(P) /\ Cardinality(P) <= Cardinality(OutRows)
    BY <1>1, FS_Subset
  <1>4. P # OutRows
    BY <1>2
  <1>5. Cardinality(P) # Cardinality(OutRows)
    BY <1>1, <1>4, FS_Subset
  <1>6. Cardinality(P) \in Nat /\ Cardinality(OutRows) \in Nat
    BY <1>1, <1>3, FS_CardinalityType
  <1>7. QED
    BY <1>3, <1>5, <1>6 DEF Rank

LEMMA RankGrows ==
  ASSUME Typed, Bounded, NEW x \in OutRows, NEW y \in OutRows, Precedes(x, y)
  PROVE  Rank(x) < Rank(y)
  <1> DEFINE P == {z \in OutRows : Precedes(z, x)}
             Q == {z \in OutRows : Precedes(z, y)}
  <1>1. IsFiniteSet(OutRows)
    BY OutRowsTyped
  <1>2. IsFiniteSet(P) /\ IsFiniteSet(Q)
    BY <1>1, FS_Subset
  <1>3. P \subseteq Q
    BY PrecedesOrders
  <1>4. x \in Q /\ x \notin P
    BY PrecedesOrders
  <1>5. Cardinality(P) <= Cardinality(Q) /\ Cardinality(P) # Cardinality(Q)
    BY <1>2, <1>3, <1>4, FS_Subset
  <1>6. Cardinality(P) \in Nat /\ Cardinality(Q) \in Nat
    BY <1>2, FS_CardinalityType
  <1>7. QED
    BY <1>5, <1>6 DEF Rank

LEMMA RankInjective ==
  ASSUME Typed, Bounded, NEW x \in OutRows, NEW y \in OutRows, Rank(x) = Rank(y)
  PROVE  x = y
  <1>1. Precedes(x, y) => Rank(x) < Rank(y)
    BY RankGrows
  <1>2. Precedes(y, x) => Rank(y) < Rank(x)
    BY RankGrows
  <1>3. Rank(x) \in Nat
    BY RankTyped
  <1>4. QED
    BY <1>1, <1>2, <1>3, PrecedesOrders

(* The ranks are all the numbers below the number of rows.                 *)
LEMMA RankOnto ==
  ASSUME Typed, Bounded, NEW n \in Nat, n < Cardinality(OutRows)
  PROVE  \E x \in OutRows : Rank(x) = n
  <1> DEFINE N == Cardinality(OutRows)
             f == [x \in OutRows |-> Rank(x)]
  <1>1. IsFiniteSet(OutRows) /\ N \in Nat
    BY OutRowsTyped, FS_CardinalityType
  <1>2. f \in [OutRows -> 0 .. N - 1]
    BY <1>1, RankTyped
  <1>3. f \in Injection(OutRows, 0 .. N - 1)
    BY <1>2, RankInjective DEF Injection, IsInjective
  <1>4. IsFiniteSet(0 .. N - 1) /\ Cardinality(0 .. N - 1) = N
    BY <1>1, InitialInterval
  <1>5. f \in Surjection(OutRows, 0 .. N - 1)
    BY <1>3, <1>4, FS_Injection
  <1>6. n \in 0 .. N - 1
    BY <1>1
  <1>7. PICK x \in OutRows : f[x] = n
    BY <1>5, <1>6 DEF Surjection
  <1>8. QED
    BY <1>7

LEMMA MergedByRank ==
  Merged = {x \in OutRows : Rank(x) < request.limit}
  BY DEF Merged, Rank

LEMMA MergedSize ==
  ASSUME Typed, Bounded
  PROVE  Cardinality(Merged) = IF Cardinality(OutRows) <= request.limit
                               THEN Cardinality(OutRows) ELSE request.limit
  <1> DEFINE N == Cardinality(OutRows)
             L == request.limit
  <1>1. IsFiniteSet(OutRows) /\ N \in Nat /\ L \in Nat
    BY OutRowsTyped, FS_CardinalityType
  <1>2. CASE N <= L
    <2>1. \A x \in OutRows : Rank(x) < L
      BY <1>1, <1>2, RankTyped
    <2>2. Merged = OutRows
      BY <2>1, MergedByRank
    <2>3. QED
      BY <1>2, <2>2
  <1>3. CASE ~(N <= L)
    <2> DEFINE g == [x \in Merged |-> Rank(x)]
    <2>1. g \in [Merged -> 0 .. L - 1]
      BY <1>1, RankTyped, MergedByRank
    <2>2. g \in Injection(Merged, 0 .. L - 1)
      BY <2>1, RankInjective, MergedByRank DEF Injection, IsInjective
    <2>3. ASSUME NEW n \in 0 .. L - 1 PROVE \E x \in Merged : g[x] = n
      <3>1. n \in Nat /\ n < N /\ n < L
        BY <1>1, <1>3
      <3>2. PICK x \in OutRows : Rank(x) = n
        BY <3>1, RankOnto
      <3>3. x \in Merged
        BY <3>1, <3>2, MergedByRank
      <3>4. QED
        BY <3>2, <3>3
    <2>4. g \in Surjection(Merged, 0 .. L - 1)
      BY <2>1, <2>3 DEF Surjection
    <2>5. IsFiniteSet(0 .. L - 1) /\ Cardinality(0 .. L - 1) = L
      BY <1>1, InitialInterval
    <2>6. Cardinality(Merged) = Cardinality(0 .. L - 1)
      BY <2>2, <2>4, <2>5, FS_Injection
    <2>7. QED
      BY <1>3, <2>5, <2>6
  <1>4. QED
    BY <1>2, <1>3

LEMMA MergedIsFair ==
  ASSUME Typed, Bounded, NEW x \in Merged, NEW y \in OutRows \ Merged
  PROVE  x[2] <= y[2]
  <1>1. x \in OutRows /\ y \in OutRows /\ Rank(x) < request.limit /\ ~(Rank(y) < request.limit)
    BY MergedByRank
  <1>2. Rank(x) \in Nat /\ Rank(y) \in Nat /\ request.limit \in Nat
    BY <1>1, RankTyped, OutRowsTyped
  <1>3. ~Precedes(y, x)
    BY <1>1, <1>2, RankGrows
  <1>4. x[2] \in Nat /\ y[2] \in Nat
    BY <1>1, OutRowsTyped
  <1>5. QED
    BY <1>3, <1>4 DEF Precedes

(* Until the first database is re-checked the rows are the merge.          *)
RowsMerged ==
  /\ Bounded
  /\ phase = "rechecking" /\ checked = {} => rows = Merged

LEMMA RowsMergedStep ==
  ASSUME Typed, PhaseMeaning, RowsMerged, [Next]_vars PROVE RowsMerged'
  <1>1. Bounded'
    <2>1. request' = request /\ request.limit \in Nat
      BY RequestTyped DEF Next, Discover, Validate, ReadSummary, ReadVisible, ReadColumns,
           DiscoveryFails, Dispatch, OneTable, BackOff, SendAgain, Garbled, GetRows, Fail, Deadline,
           Conclude, Gather, Recheck, RecheckFails, Alter, Returned, vars, discovery, Typed, TypeOK
    <2>2. CASE Dispatch
      BY <2>1, <2>2 DEF Dispatch, RowsMerged, Bounded
    <2>3. ASSUME NEW i \in DOMAIN task, NEW hits \in 0 .. MaxHits, GetRows(i, hits)
          PROVE  Bounded'
      <3>1. MaxHits \in Nat /\ hits \in Nat
        BY SearchParameters
      <3>2. QED
        BY <2>1, <2>3, <3>1 DEF GetRows, RowsMerged, Bounded, Typed, TypeOK
    <2>4. CASE outRows' = outRows
      BY <2>1, <2>4 DEF RowsMerged, Bounded
    <2>5. QED
      BY <2>2, <2>3, <2>4 DEF Next, Discover, Validate, ReadSummary, ReadVisible, ReadColumns,
           DiscoveryFails, OneTable, BackOff, SendAgain, Garbled, Fail, Deadline,
           Conclude, Gather, Recheck, RecheckFails, Alter, Returned, vars, fanOut
  <1>2. ASSUME phase' = "rechecking", checked' = {} PROVE rows' = Merged'
    <2>1. CASE Gather
      <3>1. UNCHANGED <<targets, outRows, request>> /\ rows' = Merged
        BY <1>2, <2>1 DEF Gather, End, fanOut, discovery
      <3>2. QED
        BY <3>1 DEF Merged, OutRows, Precedes, Before
    <2>2. CASE ~Gather
      <3>1. phase = "rechecking" /\ UNCHANGED <<targets, outRows, request, rows, checked>>
        BY <1>2, <2>2 DEF Next, Discover, Validate, ReadSummary, ReadVisible, ReadColumns,
             NextDatabase, DiscoveryFails, Dispatch, OneTable, BackOff, SendAgain, Garbled, GetRows,
             Fail, Sent, Deadline, Conclude, Recheck, RecheckFails, Alter, Returned, vars, End,
             fanOut, discovery
      <3>2. QED
        BY <1>2, <3>1 DEF RowsMerged, Merged, OutRows, Precedes, Before
    <2>3. QED
      BY <2>1, <2>2
  <1>3. QED
    BY <1>1, <1>2 DEF RowsMerged

(* However many rows each table has, and whatever the limit, the merge is  *)
(* full and no table's row is left out for a deeper one of another table.  *)
THEOREM MergeIsFairHolds == Spec => []MergeIsFair
  <1>1. Init => RowsMerged
    <2> SUFFICES ASSUME Init PROVE RowsMerged
      OBVIOUS
    <2>1. request.limit \in Nat
      BY RequestTyped DEF Init
    <2>2. QED
      BY <2>1 DEF Init, RowsMerged, Bounded
  <1>2. Typed /\ PhaseMeaning /\ RowsMerged /\ [Next]_vars => RowsMerged'
    BY RowsMergedStep
  <1>3. Typed /\ RowsMerged => MergeIsFair
    <2> SUFFICES ASSUME Typed, RowsMerged, phase = "rechecking", checked = {} PROVE MergeIsFair
      BY DEF MergeIsFair
    <2>1. rows = Merged /\ Bounded /\ Merged \subseteq OutRows
      BY DEF RowsMerged, Merged
    <2>2. QED
      BY <2>1, MergedSize, MergedIsFair DEF MergeIsFair
  <1>4. QED
    BY <1>1, <1>2, <1>3, PhasesAlways, PTL DEF Spec

(***************************************************************************)
(* Nothing is lost.                                                        *)
(***************************************************************************)

(* The k-th table of the database in the i-th position.                    *)
TableAt(i, k) == TablesOf[request.databases[i]][k]

Lasting(i) == {k \in 1 .. Len(TablesOf[request.databases[i]]) : TableAt(i, k) \in AlwaysSearchable}

(* Of the databases that have been left behind, every lasting table is a   *)
(* target; of the current one, it is a target or still among the           *)
(* candidates.                                                             *)
Discovered ==
  /\ \A i \in DOMAIN request.databases \ left : \A k \in Lasting(i) : TableAt(i, k) \in Targeted
  /\ phase \in {"visible", "columns"} =>
       \A i \in left : FirstLeft(i) =>
         \A k \in Lasting(i) : k \in found \/ TableAt(i, k) \in Targeted
  /\ phase \in {"discovered", "searching", "rechecking"} \/ outcome = "envelope" => left = {}

(* From the merge on, a merged row of a table that was visible throughout  *)
(* is among the rows.                                                      *)
RowsKept ==
  phase = "rechecking" \/ outcome = "envelope" =>
    {x \in Merged : x[1] \in AlwaysShown} \subseteq rows

(* A step that goes to the next database when nothing lasting is missing.  *)
LEMMA NextDiscovered ==
  ASSUME Typed, PhaseMeaning, Remembered, Discovered, NEW i \in left, NextDatabase(i),
         Discovering, UNCHANGED <<request, during, outcome>>,
         Targeted \subseteq Targeted',
         \A k \in Lasting(i) : TableAt(i, k) \in Targeted'
  PROVE  Discovered'
  <1>1. outcome' # "envelope" /\ phase' \in {"summary", "discovered"}
    BY DEF NextDatabase, PhaseMeaning, Discovering
  <1>2. \A j : Lasting(j)' = Lasting(j) /\ \A k : TableAt(j, k)' = TableAt(j, k)
    BY HistoryKept DEF Lasting, TableAt
  <1>3. \A j \in DOMAIN request.databases \ left' : j = i \/ j \notin left
    BY DEF NextDatabase
  <1>4. \A j \in DOMAIN request.databases \ left' :
          \A k \in Lasting(j) : TableAt(j, k) \in Targeted'
    BY <1>3 DEF Discovered
  <1>5. phase' = "discovered" => left' = {}
    BY DEF NextDatabase
  <1>6. QED
    BY <1>1, <1>2, <1>4, <1>5 DEF Discovered

LEMMA SummaryDiscovered ==
  ASSUME Typed, PhaseMeaning, Remembered, Discovered, NEW i \in left, ReadSummary(i)
  PROVE  Discovered'
  <1>1. UNCHANGED <<request, left, targets, during, outcome>> /\ phase' = "visible"
    BY DEF ReadSummary, world, fanOut
  <1>2. \A j : Lasting(j)' = Lasting(j) /\ \A k : TableAt(j, k)' = TableAt(j, k)
    BY <1>1, HistoryKept DEF Lasting, TableAt
  <1>3. Targeted' = Targeted
    BY <1>1 DEF Targeted
  <1>4. \A k \in Lasting(i) : k \in found'
    <2> SUFFICES ASSUME NEW k \in Lasting(i) PROVE k \in found'
      OBVIOUS
    <2>1. TableAt(i, k) \in Tables /\ during[TableAt(i, k)] = {"searchable"}
      BY DEF Lasting, AlwaysSearchable
    <2>2. upstream[TableAt(i, k)] = "searchable"
      BY <2>1 DEF Remembered
    <2>3. QED
      BY <2>2 DEF ReadSummary, Candidates, Lasting, TableAt
  <1>5. \A j \in left : FirstLeft(j)' => j = i
    BY FirstLeftUnique DEF ReadSummary, Typed, FirstLeft
  <1>6. outcome' # "envelope"
    BY <1>1 DEF PhaseMeaning, ReadSummary
  <1>7. QED
    BY <1>1, <1>2, <1>3, <1>4, <1>5, <1>6 DEF Discovered

LEMMA VisibleDiscovered ==
  ASSUME Typed, PhaseMeaning, Remembered, Discovered, NEW i \in left, ReadVisible(i)
  PROVE  Discovered'
  <1>1. UNCHANGED <<request, targets, during, outcome>> /\ phase = "visible" /\ FirstLeft(i)
    BY DEF ReadVisible, world, fanOut
  <1>2. \A j : Lasting(j)' = Lasting(j) /\ \A k : TableAt(j, k)' = TableAt(j, k)
    BY <1>1, HistoryKept DEF Lasting, TableAt
  <1>3. Targeted' = Targeted
    BY <1>1 DEF Targeted
  <1>4. \A k \in Lasting(i) : k \in found' \/ TableAt(i, k) \in Targeted
    <2> SUFFICES ASSUME NEW k \in Lasting(i), TableAt(i, k) \notin Targeted PROVE k \in found'
      OBVIOUS
    <2>1. TableAt(i, k) \in Tables /\ during[TableAt(i, k)] = {"searchable"}
      BY DEF Lasting, AlwaysSearchable
    <2>2. upstream[TableAt(i, k)] = "searchable"
      BY <2>1 DEF Remembered
    <2>3. k \in found
      BY <1>1 DEF Discovered
    <2>4. QED
      BY <2>1, <2>2, <2>3 DEF ReadVisible, VisibleNow, TableAt
  <1>5. CASE found' = {}
    <2>1. NextDatabase(i) /\ Discovering
      BY <1>1, <1>5 DEF ReadVisible, Discovering
    <2>2. QED
      BY <1>1, <1>3, <1>4, <1>5, <2>1, NextDiscovered
  <1>6. CASE found' # {}
    <2>1. left' = left /\ phase' = "columns"
      BY <1>6 DEF ReadVisible
    <2>2. \A j \in left : FirstLeft(j)' => j = i
      BY <1>1, <2>1, FirstLeftUnique DEF Typed, FirstLeft
    <2>3. outcome' # "envelope"
      BY <1>1 DEF PhaseMeaning
    <2>4. QED
      BY <1>1, <1>2, <1>3, <1>4, <2>1, <2>2, <2>3 DEF Discovered
  <1>7. QED
    BY <1>5, <1>6

LEMMA ColumnsDiscovered ==
  ASSUME Typed, PhaseMeaning, Remembered, Discovered,
         NEW i \in left, NEW k \in found, ReadColumns(i, k)
  PROVE  Discovered'
  <1> DEFINE t == TableAt(i, k)
  <1>1. UNCHANGED <<request, during>> /\ phase = "columns" /\ FirstLeft(i) /\ outcome = "none"
    BY DEF ReadColumns, world, PhaseMeaning
  <1>2. \A j : Lasting(j)' = Lasting(j) /\ \A h : TableAt(j, h)' = TableAt(j, h)
    BY <1>1, HistoryKept DEF Lasting, TableAt
  <1>3. CASE upstream[t] = "gone"
    <2>1. UNCHANGED <<left, targets>> /\ phase' = "done" /\ outcome' = "discovery_raised"
      BY <1>3 DEF ReadColumns, End, TableAt
    <2>2. Targeted' = Targeted
      BY <2>1 DEF Targeted
    <2>3. QED
      BY <1>1, <1>2, <2>1, <2>2 DEF Discovered
  <1>4. CASE upstream[t] # "gone"
    <2>1. /\ targets' = IF HasPreview(t) THEN Append(targets, t) ELSE targets
          /\ found' = found \ {k} /\ outcome' = outcome
      BY <1>4 DEF ReadColumns, TableAt
    <2>2. targets \in Seq(Tables)
      BY DEF Typed, TypeOK
    <2>3. Targeted \subseteq Targeted' /\ (HasPreview(t) => t \in Targeted')
      <3>1. CASE HasPreview(t)
        <4>1. targets' = Append(targets, t)
          BY <2>1, <3>1
        <4>2. /\ DOMAIN targets = 1 .. Len(targets) /\ Len(targets) \in Nat
              /\ DOMAIN targets' = 1 .. Len(targets) + 1
              /\ targets'[Len(targets) + 1] = t
              /\ \A j \in 1 .. Len(targets) : targets'[j] = targets[j]
          BY <2>2, <4>1
        <4>3. QED
          BY <4>2 DEF Targeted
      <3>2. CASE ~HasPreview(t)
        BY <2>1, <3>2 DEF Targeted
      <3>3. QED
        BY <3>1, <3>2
    <2>4. \A h \in Lasting(i) : h \in found' \/ TableAt(i, h) \in Targeted'
      <3> SUFFICES ASSUME NEW h \in Lasting(i), TableAt(i, h) \notin Targeted' PROVE h \in found'
        OBVIOUS
      <3>1. h \in found
        BY <1>1, <2>3 DEF Discovered
      <3>2. TableAt(i, h) \in Tables /\ during[TableAt(i, h)] = {"searchable"}
        BY DEF Lasting, AlwaysSearchable
      <3>3. upstream[TableAt(i, h)] = "searchable"
        BY <3>2 DEF Remembered
      <3>4. h # k
        BY <2>3, <3>3 DEF HasPreview
      <3>5. QED
        BY <2>1, <3>1, <3>4
    <2>5. CASE found = {k}
      <3>1. NextDatabase(i) /\ Discovering
        BY <1>1, <1>4, <2>5 DEF ReadColumns, TableAt, Discovering
      <3>2. found' = {}
        BY <2>1, <2>5
      <3>3. QED
        BY <1>1, <2>1, <2>3, <2>4, <3>1, <3>2, NextDiscovered
    <2>6. CASE found # {k}
      <3>1. left' = left /\ phase' = "columns" /\ outcome' # "envelope"
        BY <1>1, <1>4, <2>1, <2>6 DEF ReadColumns, TableAt
      <3>2. \A j \in left : FirstLeft(j)' => j = i
        BY <1>1, <3>1, FirstLeftUnique DEF Typed, FirstLeft
      <3>3. \A j \in DOMAIN request.databases \ left :
              \A h \in Lasting(j) : TableAt(j, h) \in Targeted'
        BY <2>3 DEF Discovered
      <3>4. QED
        BY <1>1, <1>2, <2>4, <3>1, <3>2, <3>3 DEF Discovered
    <2>7. QED
      BY <2>5, <2>6
  <1>5. QED
    BY <1>3, <1>4

LEMMA DiscoveredStep ==
  ASSUME Typed, PhaseMeaning, Remembered, Discovered, [Next]_vars PROVE Discovered'
  <1>1. CASE Validate \/ DiscoveryFails
    <2>1. /\ UNCHANGED <<request, left, targets, during>>
          /\ phase' \in {"summary", "done"} /\ outcome' # "envelope"
      BY <1>1 DEF Validate, DiscoveryFails, End, PhaseMeaning, world, discovery, fanOut
    <2>2. QED
      BY <2>1, HistoryKept DEF Discovered, Lasting, TableAt, Targeted
  <1>2. CASE \/ Dispatch \/ Deadline \/ Conclude \/ Returned \/ UNCHANGED vars
             \/ \E i \in DOMAIN task : OneTable(i)
    <2>1. UNCHANGED <<request, left, targets, during>>
      BY <1>2 DEF Dispatch, Deadline, Conclude, Gather, Recheck, RecheckFails, Returned, OneTable,
           BackOff, SendAgain, Garbled, GetRows, Fail, vars, world, discovery, fanOut
    <2>2. /\ phase' \in {"visible", "columns"} => phase' = phase /\ found' = found
          /\ phase' \in {"discovered", "searching", "rechecking"} \/ outcome' = "envelope" =>
               left = {}
      <3>1. CASE Dispatch
        BY <3>1 DEF Dispatch, End, Discovered
      <3>2. CASE Deadline
        BY <3>2 DEF Deadline, Discovered, PhaseMeaning
      <3>3. CASE Conclude
        BY <3>3 DEF Conclude, Gather, Recheck, RecheckFails, End, Discovered
      <3>4. CASE Returned \/ UNCHANGED vars
        BY <3>4 DEF Returned, vars, discovery, Discovered
      <3>5. ASSUME NEW i \in DOMAIN task, OneTable(i)
            PROVE  phase' \in {"searching", "done"} /\ left = {}
        BY <3>5 DEF OneTable, BackOff, SendAgain, Garbled, GetRows, Fail, Sent, End, Discovered
      <3>6. QED
        BY <1>2, <3>1, <3>2, <3>3, <3>4, <3>5
    <2>3. \A i : FirstLeft(i)' <=> FirstLeft(i)
      BY <2>1 DEF FirstLeft
    <2>4. \A j : Lasting(j)' = Lasting(j) /\ \A k : TableAt(j, k)' = TableAt(j, k)
      BY <2>1, HistoryKept DEF Lasting, TableAt
    <2>5. QED
      BY <2>1, <2>2, <2>3, <2>4 DEF Discovered, Targeted
  <1>3. ASSUME NEW t \in Tables, NEW kind \in Kinds, Alter(t, kind) PROVE Discovered'
    <2>1. UNCHANGED <<request, left, found, targets, phase, outcome>>
      BY <1>3 DEF Alter, discovery, fanOut
    <2>2. \A j : Lasting(j)' \subseteq Lasting(j) /\ \A k : TableAt(j, k)' = TableAt(j, k)
      BY <1>3, <2>1, HistoryGrows DEF Lasting, TableAt
    <2>3. \A i : FirstLeft(i)' <=> FirstLeft(i)
      BY <2>1 DEF FirstLeft
    <2>4. QED
      BY <2>1, <2>2, <2>3 DEF Discovered, Targeted
  <1>4. QED
    BY <1>1, <1>2, <1>3, SummaryDiscovered, VisibleDiscovered, ColumnsDiscovered
       DEF Next, Discover

LEMMA RowsKeptStep ==
  ASSUME Typed, PhaseMeaning, Remembered, RowsKept, [Next]_vars PROVE RowsKept'
  <1> DEFINE Lasts == {x \in Merged : x[1] \in AlwaysShown}
  <1>1. CASE UNCHANGED <<targets, outRows, request, during, rows, phase, outcome>>
    BY <1>1, HistoryKept DEF RowsKept, Merged, OutRows, Precedes, Before
  <1>2. CASE Discover \/ Deadline \/ \E i \in DOMAIN task : OneTable(i)
    <2>1. phase' # "rechecking" /\ (outcome' = "envelope" => targets' = << >>)
      <3>1. CASE Discover
        BY <3>1 DEF Discover, Validate, ReadSummary, ReadVisible, ReadColumns, DiscoveryFails,
                    Dispatch, NextDatabase, End, PhaseMeaning
      <3>2. CASE Deadline
        BY <3>2 DEF Deadline, PhaseMeaning
      <3>3. ASSUME NEW i \in DOMAIN task, OneTable(i)
            PROVE  phase' # "rechecking" /\ outcome' # "envelope"
        BY <3>3 DEF OneTable, BackOff, SendAgain, Garbled, GetRows, Fail, Sent, End, PhaseMeaning
      <3>4. QED
        BY <1>2, <3>1, <3>2, <3>3
    <2>2. targets' = << >> => Merged' = {}
      BY DEF Merged, OutRows
    <2>3. QED
      BY <2>1, <2>2 DEF RowsKept
  <1>3. CASE Gather
    <2>1. UNCHANGED <<targets, outRows, request, during>> /\ outcome # "envelope"
      BY <1>3 DEF Gather, PhaseMeaning, world, discovery, fanOut
    <2>2. Merged' = Merged
      BY <2>1 DEF Merged, OutRows, Precedes, Before
    <2>3. phase' = "rechecking" \/ outcome' = "envelope" => rows' = Merged
      BY <1>3, <2>1 DEF Gather, End
    <2>4. QED
      BY <2>2, <2>3 DEF RowsKept
  <1>4. ASSUME NEW x \in rows, Recheck(x) PROVE RowsKept'
    <2>1. UNCHANGED <<targets, outRows, request, during>> /\ phase = "rechecking"
      BY <1>4 DEF Recheck, world, discovery, fanOut
    <2>2. Merged' = Merged /\ AlwaysShown' = AlwaysShown
      BY <2>1, HistoryKept DEF Merged, OutRows, Precedes, Before
    <2>3. AlwaysShown \subseteq VisibleNow
      BY DEF AlwaysShown, VisibleNow, Remembered
    <2>4. Lasts \subseteq rows
      BY <2>1 DEF RowsKept
    <2>5. Lasts \subseteq rows'
      BY <1>4, <2>3, <2>4 DEF Recheck, Kept
    <2>6. QED
      BY <2>2, <2>5 DEF RowsKept
  <1>5. CASE RecheckFails
    BY <1>5 DEF RecheckFails, End, RowsKept
  <1>6. ASSUME NEW t \in Tables, NEW kind \in Kinds, Alter(t, kind) PROVE RowsKept'
    <2>1. UNCHANGED <<targets, outRows, request, rows, phase, outcome>>
      BY <1>6 DEF Alter, discovery, fanOut
    <2>2. Merged' = Merged
      BY <2>1 DEF Merged, OutRows, Precedes, Before
    <2>3. AlwaysShown' \subseteq AlwaysShown
      BY <1>6, HistoryGrows
    <2>4. QED
      BY <2>1, <2>2, <2>3 DEF RowsKept
  <1>7. CASE UNCHANGED vars \/ Returned
    BY <1>1, <1>7 DEF Returned, vars, world, discovery, fanOut
  <1>8. QED
    BY <1>2, <1>3, <1>4, <1>5, <1>6, <1>7 DEF Next, Conclude

(* However the upstream changes during the call, every table that could be *)
(* searched throughout is searched, and every merged row of a table that   *)
(* was visible throughout is returned.                                     *)
THEOREM NothingLostHolds == Spec => []NothingLost
  <1>1. Init => Discovered /\ RowsKept
    BY DEF Init, Discovered, RowsKept
  <1>2. Typed /\ PhaseMeaning /\ Remembered /\ Discovered /\ RowsKept /\ [Next]_vars =>
          (Discovered /\ RowsKept)'
    BY DiscoveredStep, RowsKeptStep
  <1>3. Discovered /\ RowsKept => NothingLost
    <2> SUFFICES ASSUME Discovered, RowsKept, outcome = "envelope" PROVE NothingLost
      BY DEF NothingLost
    <2>1. TablesAsked \cap AlwaysSearchable \subseteq Targeted
      BY DEF Discovered, TablesAsked, Lasting, TableAt
    <2>2. QED
      BY <2>1 DEF NothingLost, RowsKept, Targeted
  <1>4. QED
    BY <1>1, <1>2, <1>3, PhasesAlways, RememberedAlways, PTL DEF Spec

=============================================================================
