---------------------------- MODULE ServerProofs ----------------------------
(***************************************************************************)
(* Theorems about the process, for any number of requests, starts and      *)
(* ticks.  The inductive invariant says per request what is known of its   *)
(* call, its log and its answer (Good), and of the lifespan in which       *)
(* phases there are calls and requests at all (Stages).                    *)
(***************************************************************************)
EXTENDS ServerProperties, TLAPS

Live == {"serving", "draining", "cancelling"}

Stages ==
  /\ phase \in Live \cup {"opened", "bound"} => client = "open"
  /\ phase \in Live \cup {"bound"} => bound = TRUE
  /\ phase \in Live => transport = TRUE
  /\ phase \notin Live => ToolsOver
  /\ phase \notin {"serving", "draining"} => Drained

(* What holds of a reply on its way to the client of r, and of its answer. *)
Fits(r, reply) ==
  /\ reply.named = IF reply.status = 429 \/ reply.outcome = "ToolError" THEN r ELSE NoId
  /\ reply.outcome # "none" =>
       /\ tool[r] = "over" /\ reply.status = 200
       /\ lines[r][1].status = "ok" <=> reply.outcome = "ok"
  /\ reply.outcome = "ok" =>
       arrivedAt[r] <= reply.stamp /\ (readAt[r] # 0 => reply.stamp <= readAt[r])

(* The log of r: one line of its own, or none.                             *)
LogFits(r) ==
  IF tool[r] = "over" \/ answer[r].status = 429
  THEN \E l \in LineSet : lines[r] = <<l>> /\ l.id = r
  ELSE lines[r] = << >>

Good(r) ==
  /\ arrivedAt[r] <= clock
  /\ pc[r] \in {"idle", "arrived"} => tool[r] = "none" /\ charged[r] = FALSE /\ answer[r] = NoReply
  /\ pc[r] = "waiting" => tool[r] \in {"called", "running"} /\ answer[r] = NoReply
  /\ pc[r] = "answering" =>
       /\ tool[r] = "over" /\ answer[r] = NoReply
       /\ result[r].status = 200 /\ Fits(r, result[r])
  /\ tool[r] # "none" => toolCtx[r] = r /\ (charged[r] \/ kind[r].soak)
  /\ tool[r] \in {"none", "called"} => readAt[r] = 0
  /\ tool[r] = "running" =>
       /\ arrivedAt[r] <= startedAt[r] /\ startedAt[r] # 0 /\ startedAt[r] <= clock
       /\ readAt[r] # 0 => startedAt[r] <= readAt[r]
  /\ answer[r].status \in {204, 403, 429} => tool[r] = "none" /\ charged[r] = FALSE
  /\ Fits(r, answer[r])
  /\ LogFits(r)

IInv == TypeOK /\ Stages /\ \A r \in Requests : Good(r)

(* What Good(q) reads, but for the clock, is left alone.                   *)
Untouched(q) ==
  /\ kind'[q] = kind[q] /\ pc'[q] = pc[q] /\ answer'[q] = answer[q]
  /\ charged'[q] = charged[q] /\ arrivedAt'[q] = arrivedAt[q]
  /\ tool'[q] = tool[q] /\ toolCtx'[q] = toolCtx[q] /\ startedAt'[q] = startedAt[q]
  /\ result'[q] = result[q] /\ readAt'[q] = readAt[q] /\ lines'[q] = lines[q]

(* The steps of one request.                                               *)
Step(r) ==
  \/ \E k \in Kinds, i \in {NoId} \cup {q \in Requests : Answered(q)} : Arrive(r, k, i)
  \/ Progress(r) \/ Disconnect(r) \/ ReadUpstream(r) \/ Cancel(r)

(* The steps of the process in which no request's variables change.        *)
Quiet == Lifespan \/ Terminate \/ Tick

-----------------------------------------------------------------------------
(* Types.                                                                  *)

LEMMA RepliesTyped ==
  /\ \A n \in {0, 200, 204, 403, 404, 429} : Plain(n) \in Replies
  /\ NoReply \in Replies
  /\ \A r \in Requests : [Plain(429) EXCEPT !.named = Bind(r)] \in Replies
BY DEF Plain, NoReply, Replies, Bind

LEMMA InitType == Init => TypeOK
<1> SUFFICES ASSUME Init PROVE TypeOK
  OBVIOUS
<1>1. (CHOOSE k \in Kinds : TRUE) \in Kinds
  BY ServerParameters
<1>2. kind \in [Requests -> Kinds]
  BY <1>1 DEF Init
<1>3. lines \in [Requests -> Seq(LineSet)]
  <2>1. << >> \in Seq(LineSet)
    OBVIOUS
  <2> QED
    BY <2>1 DEF Init
<1>4. answer \in [Requests -> Replies] /\ result \in [Requests -> Replies]
  BY RepliesTyped DEF Init
<1>5. phase \in Phases /\ client \in {"none", "open", "closed"} /\ boots \in Nat /\ clock \in Nat \ {0}
  BY DEF Init, Phases
<1>8. bound \in BOOLEAN /\ transport \in BOOLEAN
  BY Zenon DEF Init
<1>6. /\ pc \in [Requests -> {"idle", "arrived", "waiting", "answering", "over"}]
      /\ tool \in [Requests -> {"none", "called", "running", "over", "dropped", "killed"}]
      /\ ctx \in [Requests -> Requests \cup {NoId}]
      /\ toolCtx \in [Requests -> Requests \cup {NoId}]
      /\ charged \in [Requests -> BOOLEAN]
  BY DEF Init
<1>7. startedAt \in [Requests -> Nat] /\ arrivedAt \in [Requests -> Nat] /\ readAt \in [Requests -> Nat]
  BY DEF Init
<1> QED
  BY <1>2, <1>3, <1>4, <1>5, <1>6, <1>7, <1>8 DEF TypeOK

LEMMA QuietType == TypeOK /\ Quiet => TypeOK'
<1> SUFFICES ASSUME TypeOK, Quiet PROVE TypeOK'
  OBVIOUS
<1>1. UNCHANGED <<request, call, lines>>
  BY DEF Quiet, Lifespan, Boot, ContractHolds, ContractDrifted, Ready, LeaveTransport, Unbind,
     Close, Terminate, Tick, process
<1>2. /\ phase' \in Phases /\ client' \in {"none", "open", "closed"}
      /\ bound' \in BOOLEAN /\ transport' \in BOOLEAN
  BY DEF TypeOK, Phases, Quiet, Lifespan, Boot, ContractHolds, ContractDrifted, Ready,
     LeaveTransport, Unbind, Close, Terminate, Tick, process
<1>3. boots' \in Nat /\ clock' \in Nat \ {0}
  BY DEF TypeOK, Quiet, Lifespan, Boot, ContractHolds, ContractDrifted, Ready,
     LeaveTransport, Unbind, Close, Terminate, Tick, process
<1> QED
  BY <1>1, <1>2, <1>3 DEF TypeOK, request, call

LEMMA CrashType == TypeOK /\ Crash => TypeOK'
BY DEF TypeOK, Phases, Crash

LEMMA ArriveType ==
  ASSUME TypeOK, NEW r \in Requests, NEW k \in Kinds,
         NEW i \in {NoId} \cup {q \in Requests : Answered(q)}, Arrive(r, k, i)
  PROVE  TypeOK'
BY DEF TypeOK, Phases, Arrive, process, call

LEMMA RespondType ==
  ASSUME TypeOK, NEW r \in Requests, NEW reply \in Replies, Respond(r, reply)
  PROVE  /\ (pc \in [Requests -> {"idle", "arrived", "waiting", "answering", "over"}])'
         /\ (answer \in [Requests -> Replies])' /\ (ctx \in [Requests -> Requests \cup {NoId}])'
         /\ kind' = kind /\ arrivedAt' = arrivedAt
BY DEF TypeOK, Respond

LEMMA LineTyped ==
  ASSUME TypeOK, NEW r \in Requests, NEW l \in LineSet,
         lines' = [lines EXCEPT ![r] = Append(@, l)]
  PROVE  (lines \in [Requests -> Seq(LineSet)])'
<1>1. lines \in [Requests -> Seq(LineSet)]
  BY DEF TypeOK
<1>2. Append(lines[r], l) \in Seq(LineSet)
  BY <1>1
<1> QED
  BY <1>1, <1>2

LEMMA AdmittedType ==
  ASSUME TypeOK, NEW r \in Requests, Admitted(r)
  PROVE  charged' \in [Requests -> BOOLEAN] /\ charged'[r] = ~kind[r].soak
BY ServerParameters DEF Admitted, TypeOK

(* Answers given before a tool is called.                                  *)
LEMMA RefusalType ==
  ASSUME TypeOK, NEW r \in Requests,
         Preflight(r) \/ RefuseOrigin(r) \/ RefuseRate(r) \/ AnswerPlain(r)
  PROVE  TypeOK'
<1>1. CASE Preflight(r) \/ RefuseOrigin(r) \/ AnswerPlain(r)
  <2>1. PICK n \in {0, 200, 204, 403, 404, 429} : Respond(r, Plain(n))
    BY <1>1 DEF Preflight, RefuseOrigin, AnswerPlain
  <2>2. Plain(n) \in Replies
    BY RepliesTyped
  <2>3. charged' \in [Requests -> BOOLEAN]
    BY <1>1, AdmittedType DEF Preflight, RefuseOrigin, AnswerPlain, TypeOK
  <2>4. UNCHANGED <<process, clock, call, lines>>
    BY <1>1 DEF Preflight, RefuseOrigin, AnswerPlain
  <2>5. /\ (pc \in [Requests -> {"idle", "arrived", "waiting", "answering", "over"}])'
        /\ (answer \in [Requests -> Replies])' /\ (ctx \in [Requests -> Requests \cup {NoId}])'
        /\ kind' = kind /\ arrivedAt' = arrivedAt
    BY <2>1, <2>2, RespondType
  <2> QED
    BY <2>3, <2>4, <2>5 DEF TypeOK, process, call
<1>2. CASE RefuseRate(r)
  <2>1. Line(Bind(r), "rejected", "rate_limited") \in LineSet
    BY DEF Line, Bind, LineSet
  <2>2. (lines \in [Requests -> Seq(LineSet)])'
    BY <1>2, <2>1, LineTyped DEF RefuseRate
  <2>3. Respond(r, [Plain(429) EXCEPT !.named = Bind(r)])
        /\ UNCHANGED <<process, clock, charged, call>>
    BY <1>2 DEF RefuseRate
  <2>4. [Plain(429) EXCEPT !.named = Bind(r)] \in Replies
    BY RepliesTyped
  <2>5. /\ (pc \in [Requests -> {"idle", "arrived", "waiting", "answering", "over"}])'
        /\ (answer \in [Requests -> Replies])' /\ (ctx \in [Requests -> Requests \cup {NoId}])'
        /\ kind' = kind /\ arrivedAt' = arrivedAt
    BY <2>3, <2>4, RespondType
  <2> QED
    BY <2>2, <2>3, <2>5 DEF TypeOK, process, call
<1> QED
  BY <1>1, <1>2

LEMMA LeaveType ==
  ASSUME TypeOK, NEW r \in Requests, NEW how \in {"ok", "ToolError", "other", "cancelled"},
         Leave(r, how)
  PROVE  /\ (lines \in [Requests -> Seq(LineSet)])'
         /\ (tool \in [Requests -> {"none", "called", "running", "over", "dropped", "killed"}])'
         /\ (startedAt \in [Requests -> Nat])'
<1> DEFINE l == IF how \in {"ok", "cancelled"} THEN Line(toolCtx[r], "ok", "none")
                                              ELSE Line(toolCtx[r], "error", how)
<1>1. l \in LineSet
  BY DEF Line, LineSet, TypeOK
<1>2. lines' = [lines EXCEPT ![r] = Append(@, l)]
  BY DEF Leave, Logged
<1> HIDE DEF l
<1>3. (lines \in [Requests -> Seq(LineSet)])'
  BY <1>1, <1>2, LineTyped
<1> QED
  BY <1>3 DEF Leave, TypeOK

LEMMA CallType ==
  ASSUME TypeOK, NEW r \in Requests,
         \/ Dispatch(r) \/ StartTool(r) \/ Reply(r) \/ Disconnect(r) \/ ReadUpstream(r) \/ Cancel(r)
         \/ \E how \in {"ok", "ToolError", "other"} : Return(r, how)
  PROVE  TypeOK'
<1>1. CASE Dispatch(r)
  BY <1>1, AdmittedType DEF Dispatch, Bind, TypeOK, process
<1>2. CASE StartTool(r)
  BY <1>2 DEF StartTool, TypeOK, process, request
<1>3. CASE Reply(r)
  BY <1>3, RespondType DEF Reply, TypeOK, process, call
<1>4. CASE Disconnect(r)
  <2>1. NoReply \in Replies /\ Respond(r, NoReply)
    BY <1>4, RepliesTyped DEF Disconnect
  <2>2. /\ (pc \in [Requests -> {"idle", "arrived", "waiting", "answering", "over"}])'
        /\ (answer \in [Requests -> Replies])' /\ (ctx \in [Requests -> Requests \cup {NoId}])'
        /\ kind' = kind /\ arrivedAt' = arrivedAt
    BY <2>1, RespondType
  <2> QED
    BY <1>4, <2>2 DEF Disconnect, TypeOK, process, call
<1>5. CASE ReadUpstream(r)
  BY <1>5 DEF ReadUpstream, TypeOK, process, request
<1>6. CASE Cancel(r)
  <2>1. CASE tool[r] = "running" /\ Leave(r, "cancelled")
    BY <1>6, <2>1, LeaveType DEF Cancel, TypeOK, process, request
  <2>2. CASE tool[r] = "called"
    BY <1>6, <2>2 DEF Cancel, TypeOK, process, request
  <2> QED
    BY <1>6, <2>1, <2>2 DEF Cancel
<1>7. ASSUME NEW how \in {"ok", "ToolError", "other"}, Return(r, how)
      PROVE  TypeOK'
  <2>1. Leave(r, how)
    BY <1>7 DEF Return
  <2>2. Enriched(r, how) \in Replies
    BY <1>7 DEF Enriched, Replies, ToolStartedAt, TypeOK
  <2>3. (pc \in [Requests -> {"idle", "arrived", "waiting", "answering", "over"}])'
        /\ (result \in [Requests -> Replies])'
    BY <1>7, <2>2 DEF Return, TypeOK
  <2> QED
    BY <1>7, <2>1, <2>3, LeaveType DEF Return, TypeOK, process
<1> QED
  BY <1>1, <1>2, <1>3, <1>4, <1>5, <1>6, <1>7

LEMMA NextType == TypeOK /\ [Next]_vars => TypeOK'
<1> SUFFICES ASSUME TypeOK, [Next]_vars PROVE TypeOK'
  OBVIOUS
<1>1. CASE UNCHANGED vars \/ StayDown
  BY <1>1 DEF TypeOK, vars, StayDown, process, request, call
<1>2. CASE Quiet
  BY <1>2, QuietType
<1>3. CASE Crash
  BY <1>3, CrashType
<1>4. ASSUME NEW r \in Requests, Step(r) PROVE TypeOK'
  BY <1>4, ArriveType, RefusalType, CallType DEF Step, Progress
<1> QED
  BY <1>1, <1>2, <1>3, <1>4 DEF Next, Quiet, Step

(* Every variable keeps its type.                                          *)
THEOREM TypeCorrect == Spec => []TypeOK
<1>1. Init => TypeOK
  BY InitType
<1>2. TypeOK /\ [Next]_vars => TypeOK'
  BY NextType
<1> QED
  BY <1>1, <1>2, PTL DEF Spec

-----------------------------------------------------------------------------
(* What is known of each request.                                          *)

LEMMA InitGood == Init => \A r \in Requests : Good(r)
<1> SUFFICES ASSUME Init, NEW r \in Requests PROVE Good(r)
  OBVIOUS
<1>1. /\ pc[r] = "idle" /\ tool[r] = "none" /\ lines[r] = << >> /\ answer[r] = NoReply
      /\ arrivedAt[r] = 0 /\ readAt[r] = 0 /\ clock = 1
  BY DEF Init
<1>2. charged[r] = FALSE
  BY DEF Init
<1>3. Fits(r, answer[r]) /\ LogFits(r)
  BY <1>1 DEF Fits, LogFits, NoReply, Plain
<1> QED
  BY <1>1, <1>2, <1>3 DEF Good, NoReply, Plain

LEMMA Kept ==
  ASSUME TypeOK, TypeOK', NEW q \in Requests, Good(q), Untouched(q), clock <= clock'
  PROVE  Good(q)'
<1>1. Fits(q, answer[q])'
  BY DEF Good, Untouched, Fits
<1>2. LogFits(q)'
  BY DEF Good, Untouched, LogFits
<1>3. pc'[q] = "answering" => Fits(q, result[q])'
  BY DEF Good, Untouched, Fits
<1>4. arrivedAt'[q] <= clock' /\ (startedAt[q] <= clock => startedAt'[q] <= clock')
  BY DEF Good, Untouched, TypeOK
<1> QED
  BY <1>1, <1>2, <1>3, <1>4 DEF Good, Untouched

LEMMA QuietKeeps ==
  ASSUME TypeOK, Quiet, NEW q \in Requests
  PROVE  Untouched(q) /\ clock <= clock'
<1>1. UNCHANGED <<request, call, lines>>
  BY DEF Quiet, Lifespan, Boot, ContractHolds, ContractDrifted, Ready, LeaveTransport, Unbind,
     Close, Terminate, Tick, process
<1>2. clock <= clock'
  BY DEF TypeOK, Quiet, Lifespan, Boot, ContractHolds, ContractDrifted, Ready, LeaveTransport, Unbind,
     Close, Terminate, Tick
<1> QED
  BY <1>1, <1>2 DEF Untouched, request, call

LEMMA CrashGood ==
  ASSUME TypeOK, TypeOK', Crash, NEW q \in Requests, Good(q)
  PROVE  Good(q)'
<1> USE DEF Crash
<1>1. /\ kind'[q] = kind[q] /\ answer'[q] = answer[q] /\ charged'[q] = charged[q]
      /\ arrivedAt'[q] = arrivedAt[q] /\ toolCtx'[q] = toolCtx[q] /\ readAt'[q] = readAt[q]
      /\ startedAt'[q] = startedAt[q] /\ lines'[q] = lines[q] /\ clock' = clock
  OBVIOUS
<1>2. /\ pc'[q] \in {"idle", "over"} /\ (pc'[q] = "idle" => pc[q] = "idle")
      /\ tool'[q] = IF tool[q] \in {"called", "running"} THEN "killed" ELSE tool[q]
  OBVIOUS
<1> HIDE DEF Crash
<1>3. Fits(q, answer[q])'
  BY <1>1, <1>2 DEF Good, Fits
<1>4. LogFits(q)'
  BY <1>1, <1>2 DEF Good, LogFits
<1> QED
  BY <1>1, <1>2, <1>3, <1>4 DEF Good

LEMMA StepUntouched ==
  ASSUME TypeOK, NEW r \in Requests, NEW q \in Requests, q # r, Step(r)
  PROVE  Untouched(q) /\ clock' = clock
<1>1. ASSUME NEW k \in Kinds, NEW i \in {NoId} \cup {p \in Requests : Answered(p)}, Arrive(r, k, i)
      PROVE  Untouched(q) /\ clock' = clock
  BY <1>1 DEF Arrive, Untouched, TypeOK, call
<1>2. CASE Preflight(r) \/ RefuseOrigin(r) \/ RefuseRate(r) \/ AnswerPlain(r) \/ Reply(r) \/ Disconnect(r)
  BY <1>2 DEF Preflight, RefuseOrigin, RefuseRate, AnswerPlain, Reply, Disconnect, Respond, Admitted,
     Untouched, TypeOK, call
<1>3. CASE Dispatch(r) \/ StartTool(r) \/ ReadUpstream(r)
  BY <1>3 DEF Dispatch, Admitted, StartTool, ReadUpstream, Untouched, TypeOK, request
<1>4. ASSUME NEW how \in {"ok", "ToolError", "other"}, Return(r, how)
      PROVE  Untouched(q) /\ clock' = clock
  BY <1>4 DEF Return, Leave, Logged, Untouched, TypeOK
<1>5. CASE Cancel(r)
  BY <1>5 DEF Cancel, Leave, Logged, Untouched, TypeOK, request
<1> QED
  BY <1>1, <1>2, <1>3, <1>4, <1>5 DEF Step, Progress

LEMMA ArriveGood ==
  ASSUME TypeOK, TypeOK', NEW r \in Requests, Good(r), NEW k \in Kinds,
         NEW i \in {NoId} \cup {q \in Requests : Answered(q)}, Arrive(r, k, i)
  PROVE  Good(r)'
<1>1. /\ pc[r] = "idle" /\ pc'[r] = "arrived" /\ arrivedAt'[r] = clock
      /\ UNCHANGED <<clock, answer, charged, call, lines>>
  BY DEF Arrive, TypeOK
<1>2. tool[r] = "none" /\ charged[r] = FALSE /\ answer[r] = NoReply /\ lines[r] = << >>
  BY <1>1 DEF Good, LogFits, NoReply, Plain
<1>3. Fits(r, answer[r])' /\ LogFits(r)'
  BY <1>1, <1>2 DEF Fits, LogFits, NoReply, Plain, call
<1> QED
  BY <1>1, <1>2, <1>3 DEF Good, NoReply, Plain, call, TypeOK

(* A request that has been answered without a tool.                        *)
LEMMA RefusalGood ==
  ASSUME TypeOK, TypeOK', NEW r \in Requests, Good(r),
         Preflight(r) \/ RefuseOrigin(r) \/ RefuseRate(r) \/ AnswerPlain(r)
  PROVE  Good(r)'
<1>1. /\ pc[r] = "arrived" /\ pc'[r] = "over" /\ UNCHANGED <<clock, call, kind, arrivedAt>>
  BY DEF Preflight, RefuseOrigin, RefuseRate, AnswerPlain, Admitted, Respond, TypeOK
<1>2. tool[r] = "none" /\ charged[r] = FALSE /\ answer[r] = NoReply /\ lines[r] = << >>
  BY <1>1 DEF Good, LogFits, NoReply, Plain
<1>3. CASE Preflight(r) \/ RefuseOrigin(r) \/ AnswerPlain(r)
  <2>1. PICK n \in {200, 204, 403, 404} : answer'[r] = Plain(n) /\ (n \in {204, 403} => charged'[r] = FALSE)
    <3>1. CASE Preflight(r)
      BY <1>2, <3>1 DEF Preflight, Respond, TypeOK
    <3>2. CASE RefuseOrigin(r)
      BY <1>2, <3>2 DEF RefuseOrigin, Respond, TypeOK
    <3>3. CASE AnswerPlain(r)
      <4>1. \E n \in {200, 404} : answer'[r] = Plain(n)
        BY <3>3 DEF AnswerPlain, Respond, TypeOK
      <4> QED
        BY <4>1
    <3> QED
      BY <1>3, <3>1, <3>2, <3>3
  <2>2. lines'[r] = << >> /\ tool'[r] = "none" /\ readAt'[r] = 0
    BY <1>1, <1>2, <1>3 DEF Preflight, RefuseOrigin, AnswerPlain, call, Good
  <2>3. Fits(r, answer[r])' /\ LogFits(r)'
    BY <2>1, <2>2 DEF Fits, LogFits, Plain
  <2> QED
    BY <1>1, <2>1, <2>2, <2>3 DEF Good, Plain
<1>4. CASE RefuseRate(r)
  <2>1. answer'[r] = [Plain(429) EXCEPT !.named = r] /\ charged'[r] = FALSE
    BY <1>2, <1>4 DEF RefuseRate, Respond, Bind, TypeOK
  <2>2. lines'[r] = Append(lines[r], Line(r, "rejected", "rate_limited"))
    BY <1>4 DEF RefuseRate, Bind, TypeOK
  <2>3. lines'[r] = <<Line(r, "rejected", "rate_limited")>>
    BY <1>2, <2>2
  <2>4. Line(r, "rejected", "rate_limited") \in LineSet /\ Line(r, "rejected", "rate_limited").id = r
    BY DEF Line, LineSet
  <2>5. Fits(r, answer[r])' /\ LogFits(r)'
    BY <2>1, <2>3, <2>4 DEF Fits, LogFits, Plain
  <2>6. tool'[r] = "none" /\ readAt'[r] = 0
    BY <1>1, <1>2 DEF call, Good
  <2> QED
    BY <1>1, <2>1, <2>5, <2>6 DEF Good, Plain
<1> QED
  BY <1>3, <1>4

LEMMA DispatchGood ==
  ASSUME TypeOK, TypeOK', NEW r \in Requests, Good(r), Dispatch(r)
  PROVE  Good(r)'
<1>1. /\ pc[r] = "arrived" /\ pc'[r] = "waiting" /\ tool'[r] = "called" /\ toolCtx'[r] = r
      /\ UNCHANGED <<clock, kind, answer, arrivedAt, startedAt, result, readAt, lines>>
  BY DEF Dispatch, Admitted, Bind, TypeOK
<1>2. charged'[r] = ~kind[r].soak
  BY AdmittedType DEF Dispatch
<1>3. tool[r] = "none" /\ answer[r] = NoReply /\ lines[r] = << >> /\ readAt[r] = 0
  BY <1>1 DEF Good, LogFits, NoReply, Plain
<1>4. Fits(r, answer[r])' /\ LogFits(r)'
  BY <1>1, <1>3 DEF Fits, LogFits, NoReply, Plain
<1>5. charged'[r] \/ kind'[r].soak
  BY <1>1, <1>2
<1> QED
  BY <1>1, <1>3, <1>4, <1>5 DEF Good, NoReply, Plain

LEMMA WaitGood ==
  ASSUME TypeOK, TypeOK', NEW r \in Requests, Good(r), StartTool(r) \/ ReadUpstream(r)
  PROVE  Good(r)'
<1>1. UNCHANGED <<clock, kind, pc, answer, charged, arrivedAt, toolCtx, result, lines>>
  BY DEF StartTool, ReadUpstream, request
<1>2. /\ tool[r] \in {"called", "running"} /\ tool'[r] = "running"
      /\ answer[r].status # 429 /\ answer[r].outcome = "none"
  BY DEF StartTool, ReadUpstream, TypeOK, Good, Fits
<1>3. Fits(r, answer[r])' /\ LogFits(r)'
  BY <1>1, <1>2 DEF Good, Fits, LogFits
<1>4. /\ arrivedAt[r] <= startedAt'[r] /\ startedAt'[r] # 0 /\ startedAt'[r] <= clock
      /\ readAt'[r] # 0 => startedAt'[r] <= readAt'[r]
  BY DEF StartTool, ReadUpstream, TypeOK, Good
<1> QED
  BY <1>1, <1>2, <1>3, <1>4 DEF Good

LEMMA ReplyGood ==
  ASSUME TypeOK, TypeOK', NEW r \in Requests, Good(r), Reply(r)
  PROVE  Good(r)'
<1>1. /\ pc[r] = "answering" /\ pc'[r] = "over" /\ answer'[r] = result[r]
      /\ UNCHANGED <<clock, kind, charged, arrivedAt, call, lines>>
  BY DEF Reply, Respond, TypeOK
<1>2. tool[r] = "over" /\ Fits(r, result[r]) /\ result[r].status = 200 /\ answer[r] = NoReply
  BY <1>1 DEF Good
<1>3. Fits(r, answer[r])' /\ LogFits(r)'
  BY <1>1, <1>2 DEF Good, Fits, LogFits, call
<1> QED
  BY <1>1, <1>2, <1>3 DEF Good, call

LEMMA DisconnectGood ==
  ASSUME TypeOK, TypeOK', NEW r \in Requests, Good(r), Disconnect(r)
  PROVE  Good(r)'
<1>1. /\ pc[r] \in {"waiting", "answering"} /\ pc'[r] = "over" /\ answer'[r] = NoReply
      /\ UNCHANGED <<clock, kind, charged, arrivedAt, call, lines>>
  BY DEF Disconnect, Respond, TypeOK
<1>2. answer[r] = NoReply
  BY <1>1 DEF Good
<1>3. Fits(r, answer[r])' /\ LogFits(r)'
  BY <1>1, <1>2 DEF Good, Fits, LogFits, NoReply, Plain, call
<1> QED
  BY <1>1, <1>2, <1>3 DEF Good, NoReply, Plain, call

(* What a call leaves behind, however it is left.                          *)
LEMMA LeaveLog ==
  ASSUME TypeOK, NEW r \in Requests, Good(r), tool[r] = "running",
         NEW how \in {"ok", "ToolError", "other", "cancelled"}, Leave(r, how)
  PROVE  /\ tool'[r] = "over"
         /\ \E l \in LineSet : /\ lines'[r] = <<l>> /\ l.id = r
                               /\ l.status = "ok" <=> how \in {"ok", "cancelled"}
<1> DEFINE l == IF how \in {"ok", "cancelled"} THEN Line(toolCtx[r], "ok", "none")
                                              ELSE Line(toolCtx[r], "error", how)
<1>1. l \in LineSet /\ l.id = r /\ (l.status = "ok" <=> how \in {"ok", "cancelled"})
  BY DEF Line, LineSet, TypeOK, Good
<1>2. lines'[r] = Append(lines[r], l)
  BY DEF Leave, Logged, TypeOK
<1>3. lines[r] = << >>
  BY DEF Good, LogFits
<1> HIDE DEF l
<1>4. lines'[r] = <<l>>
  BY <1>2, <1>3
<1> QED
  BY <1>1, <1>4 DEF Leave, TypeOK

LEMMA ReturnGood ==
  ASSUME TypeOK, TypeOK', NEW r \in Requests, Good(r),
         NEW how \in {"ok", "ToolError", "other"}, Return(r, how)
  PROVE  Good(r)'
<1>1. /\ tool[r] = "running" /\ Leave(r, how)
      /\ UNCHANGED <<clock, kind, answer, charged, arrivedAt, toolCtx, readAt>>
  BY DEF Return
<1>2. PICK l \in LineSet : lines'[r] = <<l>> /\ l.id = r /\ (l.status = "ok" <=> how = "ok")
  BY <1>1, LeaveLog
<1>3. tool'[r] = "over"
  BY <1>1, LeaveLog
<1>4. answer[r].outcome = "none" /\ toolCtx[r] = r /\ startedAt[r] # 0
  BY <1>1 DEF Good, Fits
<1>5. Fits(r, answer[r])' /\ LogFits(r)'
  BY <1>1, <1>2, <1>3, <1>4 DEF Good, Fits, LogFits
<1>6. CASE pc[r] = "waiting"
  <2>1. pc'[r] = "answering" /\ result'[r] = Enriched(r, how)
    BY <1>6 DEF Return, TypeOK
  <2>2. result'[r].status = 200 /\ Fits(r, result[r])'
    BY <1>1, <1>2, <1>3, <1>4, <2>1 DEF Enriched, ToolStartedAt, Fits, Good
  <2> QED
    BY <1>1, <1>3, <1>4, <1>5, <1>6, <2>1, <2>2 DEF Good
<1>7. CASE pc[r] # "waiting"
  BY <1>1, <1>3, <1>4, <1>5, <1>7 DEF Return, Good
<1> QED
  BY <1>6, <1>7

LEMMA CancelGood ==
  ASSUME TypeOK, TypeOK', NEW r \in Requests, Good(r), Cancel(r), pc[r] # "waiting"
  PROVE  Good(r)'
<1>1. UNCHANGED <<clock, kind, pc, answer, charged, arrivedAt, toolCtx, result, readAt>>
  BY DEF Cancel, request
<1>2. answer[r].outcome = "none"
  BY DEF Good, Fits, Cancel
<1>3. CASE tool[r] = "running" /\ Leave(r, "cancelled")
  <2>1. tool'[r] = "over" /\ LogFits(r)'
    BY <1>1, <1>3, LeaveLog DEF LogFits
  <2>2. Fits(r, answer[r])'
    BY <1>1, <1>2 DEF Good, Fits
  <2> QED
    BY <1>1, <1>3, <2>1, <2>2 DEF Good
<1>4. CASE tool[r] = "called" /\ tool'[r] = "dropped" /\ lines' = lines
  <2>1. Fits(r, answer[r])' /\ LogFits(r)'
    BY <1>1, <1>2, <1>4 DEF Good, Fits, LogFits
  <2> QED
    BY <1>1, <1>4, <2>1 DEF Good
<1> QED
  BY <1>3, <1>4 DEF Cancel, TypeOK

-----------------------------------------------------------------------------
(* Which phases have calls and requests.                                   *)

LEMMA InitStages == Init => Stages
BY DEF Init, Stages, Live, ToolsOver, Drained

LEMMA QuietStages == ASSUME TypeOK, Stages, Quiet PROVE Stages'
<1> USE DEF Stages, Live
<1>1. UNCHANGED <<pc, tool>>
  BY DEF Quiet, Lifespan, Boot, ContractHolds, ContractDrifted, Ready, LeaveTransport, Unbind,
     Close, Terminate, Tick, request, call
<1>2. (ToolsOver => ToolsOver') /\ (Drained => Drained')
  BY <1>1 DEF ToolsOver, Drained
<1>3. CASE Boot \/ ContractDrifted \/ ContractHolds
  BY <1>2, <1>3 DEF Boot, ContractDrifted, ContractHolds
<1>4. CASE Ready \/ Terminate \/ Tick
  BY <1>2, <1>4 DEF Ready, Terminate, Tick, process
<1>5. CASE LeaveTransport \/ Unbind \/ Close
  BY <1>2, <1>5 DEF LeaveTransport, Unbind, Close
<1> QED
  BY <1>3, <1>4, <1>5 DEF Quiet, Lifespan

LEMMA CrashStages == ASSUME TypeOK, Crash PROVE Stages'
BY DEF TypeOK, Crash, Stages, Live, ToolsOver, Drained

(* A request's steps are taken while the process serves or drains, those   *)
(* of its call while the session manager runs.                             *)
LEMMA StepStages ==
  ASSUME TypeOK, Stages, NEW r \in Requests, Good(r), Step(r)
  PROVE  Stages'
<1>1. UNCHANGED process
  BY DEF Step, Progress, Arrive, Preflight, RefuseOrigin, RefuseRate, AnswerPlain, Dispatch, StartTool,
     Reply, Return, Disconnect, ReadUpstream, Cancel
<1>2. \A q \in Requests : q # r => pc'[q] = pc[q] /\ tool'[q] = tool[q]
  BY StepUntouched DEF Untouched
<1>3. pc'[r] \in {"idle", "over"} \/ phase \in {"serving", "draining"}
  <2>1. CASE phase = "serving"
    BY <2>1
  <2>2. CASE phase # "serving" /\ pc[r] \in {"idle", "over"}
    <3>1. UNCHANGED pc \/ pc'[r] \in {"idle", "over"}
      BY <2>2 DEF Step, Progress, Arrive, Preflight, RefuseOrigin, RefuseRate, AnswerPlain, Dispatch,
         Admitted, StartTool, Reply, Return, Disconnect, ReadUpstream, Cancel, request
    <3> QED
      BY <2>2, <3>1
  <2> QED
    BY <2>1, <2>2 DEF Stages, Drained
<1>4. tool'[r] \notin {"called", "running"} \/ phase \in Live
  <2>1. CASE phase \in {"serving", "draining"}
    BY <2>1 DEF Live
  <2>2. CASE phase \notin {"serving", "draining"} /\ phase \notin Live
    <3>1. pc[r] \in {"idle", "over"} /\ tool[r] \notin {"called", "running"}
      BY <2>2 DEF Stages, Drained, ToolsOver
    <3>2. UNCHANGED tool \/ tool'[r] \notin {"called", "running"}
      BY <3>1 DEF Step, Progress, Arrive, Preflight, RefuseOrigin, RefuseRate, AnswerPlain, Dispatch,
         Admitted, StartTool, Reply, Return, Disconnect, ReadUpstream, Cancel, call
    <3> QED
      BY <3>1, <3>2
  <2> QED
    BY <2>1, <2>2
<1>5. (phase \notin Live => ToolsOver') /\ (phase \notin {"serving", "draining"} => Drained')
  BY <1>2, <1>3, <1>4 DEF Stages, ToolsOver, Drained
<1> QED
  BY <1>1, <1>5 DEF Stages, process

-----------------------------------------------------------------------------
LEMMA StepGood ==
  ASSUME TypeOK, TypeOK', Stages, NEW r \in Requests, Good(r), Step(r)
  PROVE  Good(r)'
<1>1. CASE Cancel(r)
  <2>1. pc[r] # "waiting"
    BY <1>1 DEF Cancel, Stages, Drained
  <2> QED
    BY <1>1, <2>1, CancelGood
<1> QED
  BY <1>1, ArriveGood, RefusalGood, DispatchGood, WaitGood, ReplyGood, ReturnGood, DisconnectGood
     DEF Step, Progress

LEMMA Inductive == IInv /\ [Next]_vars => IInv'
<1> SUFFICES ASSUME IInv, [Next]_vars PROVE IInv'
  OBVIOUS
<1>1. TypeOK /\ TypeOK' /\ Stages /\ \A q \in Requests : Good(q)
  BY NextType DEF IInv
<1>2. CASE UNCHANGED vars \/ StayDown
  BY <1>1, <1>2 DEF IInv, vars, StayDown, process, request, call, Stages, Drained, ToolsOver, Good, Fits, LogFits
<1>3. CASE Quiet
  BY <1>1, <1>3, QuietKeeps, QuietStages, Kept DEF IInv
<1>4. CASE Crash
  BY <1>1, <1>4, CrashGood, CrashStages DEF IInv
<1>5. ASSUME NEW r \in Requests, Step(r) PROVE IInv'
  <2>1. Stages'
    BY <1>1, <1>5, StepStages
  <2>2. Good(r)'
    BY <1>1, <1>5, StepGood
  <2>3. ASSUME NEW q \in Requests, q # r PROVE Good(q)'
    <3>1. Untouched(q) /\ clock' = clock
      BY <1>1, <1>5, <2>3, StepUntouched
    <3>2. clock <= clock'
      BY <1>1, <3>1 DEF TypeOK
    <3> QED
      BY <1>1, <3>1, <3>2, Kept
  <2> QED
    BY <1>1, <2>1, <2>2, <2>3 DEF IInv
<1> QED
  BY <1>2, <1>3, <1>4, <1>5 DEF Next, Quiet, Step

LEMMA Invariance == Spec => []IInv
<1>1. Init => IInv
  BY InitType, InitStages, InitGood DEF IInv
<1> QED
  BY <1>1, Inductive, PTL DEF Spec

(* Log lines, refusals and errors carry the id of their own request.       *)
THEOREM OwnRequestIdHolds == Spec => []OwnRequestId
<1>1. IInv => OwnRequestId
  <2> SUFFICES ASSUME IInv, NEW r \in Requests
               PROVE  /\ \A n \in DOMAIN lines[r] : lines[r][n].id = r
                      /\ answer[r].named = IF answer[r].status = 429 \/ answer[r].outcome = "ToolError"
                                           THEN r ELSE NoId
    BY DEF OwnRequestId
  <2>1. Good(r)
    BY DEF IInv
  <2> QED
    BY <2>1 DEF Good, Fits, LogFits
<1> QED
  BY <1>1, Invariance, PTL

(* A call or a refusal has one line in the log, which tells how it ended.  *)
THEOREM LinesTellTheCallsHolds == Spec => []LinesTellTheCalls
<1>1. IInv => LinesTellTheCalls
  <2> SUFFICES ASSUME IInv, NEW r \in Requests
               PROVE  /\ Len(lines[r]) = IF tool[r] = "over" \/ answer[r].status = 429 THEN 1 ELSE 0
                      /\ answer[r].outcome # "none" =>
                           (lines[r][1].status = "ok" <=> answer[r].outcome = "ok")
    BY DEF LinesTellTheCalls
  <2>1. Good(r)
    BY DEF IInv
  <2>2. Len(lines[r]) = IF tool[r] = "over" \/ answer[r].status = 429 THEN 1 ELSE 0
    BY <2>1 DEF Good, LogFits
  <2> QED
    BY <2>1, <2>2 DEF Good, Fits
<1> QED
  BY <1>1, Invariance, PTL

(* What is refused never runs, and what runs was admitted.                 *)
THEOREM RefusedNeverRunHolds == Spec => []RefusedNeverRun
<1>1. IInv => RefusedNeverRun
  BY DEF IInv, Good, RefusedNeverRun
<1> QED
  BY <1>1, Invariance, PTL

(* retrieved_at lies between the arrival and the first upstream read.      *)
THEOREM RetrievedAtIsCallStartHolds == Spec => []RetrievedAtIsCallStart
<1>1. IInv => RetrievedAtIsCallStart
  BY DEF IInv, Good, Fits, RetrievedAtIsCallStart
<1> QED
  BY <1>1, Invariance, PTL

(* A call that runs has an open client and bound singletons.               *)
THEOREM CallsHaveTheirClientHolds == Spec => []CallsHaveTheirClient
<1>1. IInv => CallsHaveTheirClient
  BY DEF IInv, Stages, ToolsOver, CallsHaveTheirClient
<1> QED
  BY <1>1, Invariance, PTL

(* A request that waits has a call that will answer it.                    *)
THEOREM WaitersHaveTheirCallHolds == Spec => []WaitersHaveTheirCall
<1>1. IInv => WaitersHaveTheirCall
  BY DEF IInv, Good, WaitersHaveTheirCall
<1> QED
  BY <1>1, Invariance, PTL
=============================================================================
