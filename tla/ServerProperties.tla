-------------------------- MODULE ServerProperties --------------------------
(***************************************************************************)
(* What the process guarantees of its requests, calls, log and shutdown.   *)
(***************************************************************************)
EXTENDS Server

Phases == {"down", "opened", "bound", "serving", "draining", "cancelling", "unbound"}

LineSet == [id: Requests \cup {NoId}, status: {"ok", "error", "rejected"},
            error_code: {"none", "ToolError", "other", "rate_limited"}]

(* Every variable has its type; a log line's code is an exception's class. *)
TypeOK ==
  /\ phase \in Phases /\ client \in {"none", "open", "closed"}
  /\ bound \in BOOLEAN /\ transport \in BOOLEAN
  /\ boots \in Nat /\ clock \in Nat \ {0}
  /\ kind \in [Requests -> Kinds]
  /\ pc \in [Requests -> {"idle", "arrived", "waiting", "answering", "over"}]
  /\ ctx \in [Requests -> Requests \cup {NoId}]
  /\ answer \in [Requests -> Replies] /\ result \in [Requests -> Replies]
  /\ tool \in [Requests -> {"none", "called", "running", "over", "dropped", "killed"}]
  /\ toolCtx \in [Requests -> Requests \cup {NoId}]
  /\ startedAt \in [Requests -> Nat] /\ arrivedAt \in [Requests -> Nat]
  /\ readAt \in [Requests -> Nat]
  /\ charged \in [Requests -> BOOLEAN]
  /\ lines \in [Requests -> Seq(LineSet)]

(* Every log line, 429 body and tool error carries the id of the request   *)
(* it belongs to, although contexts are inherited by pipelined requests    *)
(* and calls outlive their requests (error_enrichment.py: client and log   *)
(* "can be correlated by a single hex token").                             *)
OwnRequestId ==
  \A r \in Requests :
    /\ \A n \in DOMAIN lines[r] : lines[r][n].id = r
    /\ answer[r].named = IF answer[r].status = 429 \/ answer[r].outcome = "ToolError"
                         THEN r ELSE NoId

(* A call that began leaves one line, however it ends and whether or not   *)
(* its client is still there, and so does a 429; nothing else leaves any.  *)
(* The line of a call that was answered says whether it failed.  Lines are *)
(* lost with the process only.                                             *)
LinesTellTheCalls ==
  \A r \in Requests :
    /\ Len(lines[r]) = IF tool[r] = "over" \/ answer[r].status = 429 THEN 1 ELSE 0
    /\ answer[r].outcome # "none" =>
         (lines[r][1].status = "ok" <=> answer[r].outcome = "ok")

(* docs/rate-limits.md: a rate_limited response means that no tool was     *)
(* called; and what the origin check refuses costs nobody a token, so that *)
(* a foreign page cannot spend its visitor's budget.                       *)
RefusedNeverRun ==
  \A r \in Requests :
    /\ answer[r].status \in {204, 403, 429} => tool[r] = "none" /\ ~charged[r]
    /\ tool[r] # "none" => charged[r] \/ kind[r].soak

(* retrieved_at is when the tool call started (docs/envelope.md): after    *)
(* the request arrived and before anything was read for it, whatever else  *)
(* runs meanwhile and however late the envelope is built.                  *)
RetrievedAtIsCallStart ==
  \A r \in Requests :
    answer[r].outcome = "ok" =>
      /\ arrivedAt[r] <= answer[r].stamp
      /\ readAt[r] # 0 => answer[r].stamp <= readAt[r]

(* No call runs, not even one whose client left or one that is being       *)
(* cancelled, unless the HTTP client is open and the singletons are bound. *)
CallsHaveTheirClient ==
  \A r \in Requests : tool[r] = "running" => client = "open" /\ bound /\ transport

(* A request that waits is never left without the call it waits for: the   *)
(* shutdown cancels only the calls of clients that left.                   *)
WaitersHaveTheirCall ==
  \A r \in Requests : pc[r] = "waiting" => tool[r] \in {"called", "running"}

(* Every request that is accepted ends (app.py: with one of the two        *)
(* lifespans not entered, "/mcp hangs on first POST").                     *)
RequestsEnd ==
  \A r \in Requests : pc[r] = "arrived" ~> pc[r] = "over"

(* After SIGTERM the process gets to its end by itself.                    *)
ShutdownEnds == phase = "draining" ~> phase = "down"

(* Nothing hangs: neither a request nor the shutdown that waits for all.   *)
EverythingEnds == RequestsEnd /\ ShutdownEnds
=============================================================================
