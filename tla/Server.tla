------------------------------- MODULE Server -------------------------------
(***************************************************************************)
(* One process of zeeker-mcp (app.py, server.py): the lifespan that owns   *)
(* the HTTP client, the ASGI middleware around every request, and the      *)
(* FastMCP middleware around every tool call.                              *)
(*                                                                         *)
(* A request runs in a task that uvicorn makes for it, a tool call in one  *)
(* that the session manager makes, which outlives a client that leaves.    *)
(* What each knows of the request is in context variables, copied when a   *)
(* task is made.  A request is its own id; rate_limit.py's verdict and     *)
(* what the tools do are left open (RateLimiter and the tools' modules).   *)
(***************************************************************************)
EXTENDS Naturals, Sequences

CONSTANTS
  Requests,   \* requests the process may get, each also its x-request-id
  NoId,       \* no request id is bound
  Kinds,      \* what requests may ask
  MaxTime,    \* bound: the last tick of the clock
  MaxBoots    \* bound: how often the process is started

Origins == {"none", "allowed", "foreign"}
Paths == {"healthz", "metrics", "mcp"}

ASSUME ServerParameters ==
  /\ NoId \notin Requests
  /\ {MaxTime, MaxBoots} \subseteq Nat
  /\ Kinds # {}
  /\ Kinds \subseteq [origin: Origins, preflight: BOOLEAN, path: Paths, soak: BOOLEAN]

VARIABLES
  phase,      \* how far the lifespan is
  client,     \* the httpx.AsyncClient
  bound,      \* the caches and the Datasette client have their singletons
  transport,  \* the session manager's task group is running
  boots, clock,
  kind,       \* what a request asks: its Origin header, whether it is an OPTIONS
              \* request that has one, its path, and whether it has the soak token
  pc,         \* where a request's task is
  ctx,        \* request_id in its context
  answer,     \* what its client received
  tool,       \* where its tool call is
  toolCtx,    \* request_id in the tool task's context
  startedAt,  \* tool_started_at there, 0 for None
  result,     \* the call's result, on its way to the request's task
  lines,      \* the "tool_call" log lines written on its behalf
  \* History, read by no guard.
  charged,    \* the limiter took a token for it
  arrivedAt, readAt   \* the ticks of its arrival and of its first upstream read

process == <<phase, client, bound, transport, boots>>
request == <<kind, pc, ctx, answer, charged, arrivedAt>>
call == <<tool, toolCtx, startedAt, result, readAt>>
vars == <<process, clock, request, call, lines>>

Replies == [status: {0, 200, 204, 403, 404, 429}, named: Requests \cup {NoId},
            outcome: {"none", "ok", "ToolError", "other"}, stamp: Nat]

Plain(status) == [status |-> status, named |-> NoId, outcome |-> "none", stamp |-> 0]
NoReply == Plain(0)

Line(id, status, code) == [id |-> id, status |-> status, error_code |-> code]

-----------------------------------------------------------------------------
(* The lifespan.  uvicorn accepts requests between Ready and Terminate.    *)

Boot ==
  /\ phase = "down" /\ boots < MaxBoots
  /\ phase' = "opened" /\ client' = "open" /\ boots' = boots + 1
  /\ UNCHANGED <<bound, transport, clock, request, call, lines>>

(* The contract guard lets every tool through, or ends the start.          *)
ContractHolds ==
  /\ phase = "opened"
  /\ phase' = "bound" /\ bound' = TRUE
  /\ UNCHANGED <<client, transport, boots, clock, request, call, lines>>

ContractDrifted ==
  /\ phase = "opened"
  /\ phase' = "down" /\ client' = "closed"
  /\ UNCHANGED <<bound, transport, boots, clock, request, call, lines>>

(* Variant: the nested lifespan is not entered.                            *)
ReadyAlone ==
  /\ phase = "bound"
  /\ phase' = "serving"
  /\ UNCHANGED <<client, bound, transport, boots, clock, request, call, lines>>

Ready ==
  /\ phase = "bound"
  /\ phase' = "serving" /\ transport' = TRUE
  /\ UNCHANGED <<client, bound, boots, clock, request, call, lines>>

(* SIGTERM: uvicorn stops accepting and waits for the requests' tasks.     *)
Terminate ==
  /\ phase = "serving"
  /\ phase' = "draining"
  /\ UNCHANGED <<client, bound, transport, boots, clock, request, call, lines>>

(* Variant: only requests that have not been routed are waited for.        *)
DrainedOfArrivals == \A r \in Requests : pc[r] # "arrived"

Drained == \A r \in Requests : pc[r] \in {"idle", "over"}

(* The nested lifespan ends, and cancels the tool calls still running.     *)
LeaveTransport ==
  /\ phase = "draining" /\ Drained
  /\ phase' = "cancelling"
  /\ UNCHANGED <<client, bound, transport, boots, clock, request, call, lines>>

ToolsOver == \A r \in Requests : tool[r] \notin {"called", "running"}

(* Variant: the client is closed while cancelled calls unwind.             *)
UnbindAtOnce ==
  /\ phase = "cancelling"
  /\ phase' = "unbound" /\ transport' = FALSE
  /\ UNCHANGED <<client, bound, boots, clock, request, call, lines>>

(* The resets restore context variables only: the singletons stay.         *)
Unbind ==
  /\ phase = "cancelling" /\ ToolsOver
  /\ phase' = "unbound" /\ transport' = FALSE
  /\ UNCHANGED <<client, bound, boots, clock, request, call, lines>>

(* The client is closed and the process ends, with its singletons.         *)
Close ==
  /\ phase = "unbound"
  /\ phase' = "down" /\ client' = "closed" /\ bound' = FALSE
  /\ UNCHANGED <<transport, boots, clock, request, call, lines>>

(* The process is killed: docker stop after its grace period, or a crash.  *)
Crash ==
  /\ phase # "down"
  /\ phase' = "down" /\ client' = "none" /\ bound' = FALSE /\ transport' = FALSE
  /\ pc' = [r \in Requests |-> IF pc[r] = "idle" THEN "idle" ELSE "over"]
  /\ ctx' = [r \in Requests |-> NoId]
  /\ tool' = [r \in Requests |-> IF tool[r] \in {"called", "running"} THEN "killed" ELSE tool[r]]
  /\ UNCHANGED <<boots, clock, kind, answer, charged, arrivedAt, toolCtx, startedAt, result,
                 readAt, lines>>

StayDown == phase = "down" /\ UNCHANGED vars

-----------------------------------------------------------------------------
(* The ASGI middleware, outermost first: request id, origin, limiter.      *)

(* uvicorn makes the task.  For a pipelined request it does so inside the  *)
(* task of the request before, and so with that one's context.             *)
Arrive(r, k, inherited) ==
  /\ phase = "serving" /\ pc[r] = "idle"
  /\ pc' = [pc EXCEPT ![r] = "arrived"]
  /\ kind' = [kind EXCEPT ![r] = k]
  /\ ctx' = [ctx EXCEPT ![r] = inherited]
  /\ arrivedAt' = [arrivedAt EXCEPT ![r] = clock]
  /\ UNCHANGED <<process, clock, answer, charged, call, lines>>

(* Variant: an id that is there already is kept.                           *)
BindIfUnbound(r) == IF ctx[r] = NoId THEN r ELSE ctx[r]

(* bind_request: the id in the task's context from here on.                *)
Bind(r) == r

(* The answer is sent and the context cleared, whichever layer answers.    *)
Respond(r, reply) ==
  /\ pc' = [pc EXCEPT ![r] = "over"]
  /\ answer' = [answer EXCEPT ![r] = reply]
  /\ ctx' = [ctx EXCEPT ![r] = NoId]
  /\ UNCHANGED <<kind, arrivedAt>>

Preflight(r) ==
  /\ pc[r] = "arrived" /\ kind[r].preflight
  /\ Respond(r, Plain(IF kind[r].origin = "allowed" THEN 204 ELSE 403))
  /\ UNCHANGED <<process, clock, charged, call, lines>>

PassesOrigin(r) == kind[r].origin # "foreign" /\ ~kind[r].preflight

RefuseOrigin(r) ==
  /\ pc[r] = "arrived" /\ ~kind[r].preflight /\ kind[r].origin = "foreign"
  /\ Respond(r, Plain(403))
  /\ UNCHANGED <<process, clock, charged, call, lines>>

RefuseRate(r) ==
  /\ pc[r] = "arrived" /\ PassesOrigin(r) /\ ~kind[r].soak
  /\ lines' = [lines EXCEPT ![r] = Append(@, Line(Bind(r), "rejected", "rate_limited"))]
  /\ Respond(r, [Plain(429) EXCEPT !.named = Bind(r)])
  /\ UNCHANGED <<process, clock, charged, call>>

(* What has passed the origin check and the limiter.                       *)
Admitted(r) ==
  /\ pc[r] = "arrived" /\ PassesOrigin(r)
  /\ charged' = [charged EXCEPT ![r] = ~kind[r].soak]

AnswerPlain(r) ==
  /\ Admitted(r) /\ kind[r].path # "mcp"
  /\ Respond(r, Plain(IF kind[r].path = "metrics" /\ ~kind[r].soak THEN 404 ELSE 200))
  /\ UNCHANGED <<process, clock, call, lines>>

(* The session manager makes a task for the call: with stateless_http it   *)
(* copies the context of this request, not that of a session's first one.  *)
Dispatch(r) ==
  /\ Admitted(r) /\ kind[r].path = "mcp"
  /\ pc' = [pc EXCEPT ![r] = "waiting"]
  /\ ctx' = [ctx EXCEPT ![r] = Bind(r)]
  /\ tool' = [tool EXCEPT ![r] = "called"]
  /\ toolCtx' = [toolCtx EXCEPT ![r] = Bind(r)]
  /\ UNCHANGED <<process, clock, kind, answer, arrivedAt, startedAt, result, readAt, lines>>

Reply(r) ==
  /\ pc[r] = "answering"
  /\ Respond(r, result[r])
  /\ UNCHANGED <<process, clock, charged, call, lines>>

(* The client leaves: the request's task ends, the call may go on.         *)
Disconnect(r) ==
  /\ pc[r] \in {"waiting", "answering"}
  /\ Respond(r, NoReply)
  /\ UNCHANGED <<process, clock, charged, call, lines>>

-----------------------------------------------------------------------------
(* The FastMCP middleware: timestamp, error enrichment, log line, tool.    *)

StartTool(r) ==
  /\ tool[r] = "called" /\ transport
  /\ tool' = [tool EXCEPT ![r] = "running"]
  /\ startedAt' = [startedAt EXCEPT ![r] = clock]
  /\ UNCHANGED <<process, clock, request, toolCtx, result, readAt, lines>>

ReadUpstream(r) ==
  /\ tool[r] = "running" /\ readAt[r] = 0
  /\ readAt' = [readAt EXCEPT ![r] = clock]
  /\ UNCHANGED <<process, clock, request, tool, toolCtx, startedAt, result, lines>>

(* Variant: the middleware is not registered, so the fallback answers.     *)
WallclockNow(r) == clock

(* What the envelope, built last, writes as retrieved_at.                  *)
ToolStartedAt(r) == IF startedAt[r] # 0 THEN startedAt[r] ELSE clock

(* Variant: the line is written when the tool returns, not in a finally.   *)
LogReturned(r, how) ==
  IF how = "ok" THEN [lines EXCEPT ![r] = Append(@, Line(toolCtx[r], "ok", "none"))] ELSE lines

(* One line, whichever way the tool is left.  A cancelled call is an "ok". *)
Logged(r, how) ==
  [lines EXCEPT ![r] =
     Append(@, IF how \in {"ok", "cancelled"} THEN Line(toolCtx[r], "ok", "none")
                                              ELSE Line(toolCtx[r], "error", how))]

Leave(r, how) ==
  /\ tool' = [tool EXCEPT ![r] = "over"]
  /\ lines' = Logged(r, how)
  /\ startedAt' = [startedAt EXCEPT ![r] = 0]

(* Only a ToolError has the id appended, only an envelope has a timestamp. *)
Enriched(r, how) ==
  [status |-> 200, outcome |-> how,
   named |-> IF how = "ToolError" THEN toolCtx[r] ELSE NoId,
   stamp |-> IF how = "ok" THEN ToolStartedAt(r) ELSE 0]

Return(r, how) ==
  /\ tool[r] = "running"
  /\ Leave(r, how)
  /\ IF pc[r] = "waiting"
     THEN /\ pc' = [pc EXCEPT ![r] = "answering"]
          /\ result' = [result EXCEPT ![r] = Enriched(r, how)]
     ELSE UNCHANGED <<pc, result>>
  /\ UNCHANGED <<process, clock, kind, ctx, answer, charged, arrivedAt, toolCtx, readAt>>

(* A call whose client left, or one the nested lifespan finds at its end.  *)
Cancel(r) ==
  /\ pc[r] = "over" \/ phase = "cancelling"
  /\ \/ tool[r] = "running" /\ Leave(r, "cancelled")
     \/ /\ tool[r] = "called"
        /\ tool' = [tool EXCEPT ![r] = "dropped"]
        /\ UNCHANGED <<lines, startedAt>>
  /\ UNCHANGED <<process, clock, request, toolCtx, result, readAt>>

Tick ==
  /\ clock < MaxTime
  /\ clock' = clock + 1
  /\ UNCHANGED <<process, request, call, lines>>

-----------------------------------------------------------------------------
Init ==
  /\ phase = "down" /\ client = "none" /\ bound = FALSE /\ transport = FALSE
  /\ boots = 0 /\ clock = 1
  /\ kind = [r \in Requests |-> CHOOSE k \in Kinds : TRUE]
  /\ pc = [r \in Requests |-> "idle"]
  /\ ctx = [r \in Requests |-> NoId]
  /\ answer = [r \in Requests |-> NoReply]
  /\ charged = [r \in Requests |-> FALSE]
  /\ arrivedAt = [r \in Requests |-> 0]
  /\ tool = [r \in Requests |-> "none"]
  /\ toolCtx = [r \in Requests |-> NoId]
  /\ startedAt = [r \in Requests |-> 0]
  /\ result = [r \in Requests |-> NoReply]
  /\ readAt = [r \in Requests |-> 0]
  /\ lines = [r \in Requests |-> << >>]

Answered(r) == answer[r] # NoReply

Lifespan ==
  Boot \/ ContractHolds \/ ContractDrifted \/ Ready \/ LeaveTransport \/ Unbind \/ Close

Progress(r) ==
  \/ Preflight(r) \/ RefuseOrigin(r) \/ RefuseRate(r) \/ AnswerPlain(r) \/ Dispatch(r)
  \/ StartTool(r) \/ Reply(r)
  \/ \E how \in {"ok", "ToolError", "other"} : Return(r, how)

Next ==
  \/ Lifespan \/ Terminate \/ Crash \/ StayDown \/ Tick
  \/ \E r \in Requests :
       \/ \E k \in Kinds, i \in {NoId} \cup {q \in Requests : Answered(q)} : Arrive(r, k, i)
       \/ Progress(r) \/ Disconnect(r) \/ ReadUpstream(r) \/ Cancel(r)

(* Weak fairness of what the event loop and uvicorn run; a tool call ends  *)
(* because every upstream request has a timeout.  None of arrivals,        *)
(* departures, signals, crashes and time.                                  *)
Fairness ==
  /\ WF_vars(LeaveTransport \/ Unbind \/ Close)
  /\ \A r \in Requests : WF_vars(Progress(r)) /\ WF_vars(phase = "cancelling" /\ Cancel(r))

Spec == Init /\ [][Next]_vars /\ Fairness
=============================================================================
