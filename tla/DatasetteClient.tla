-------------------------- MODULE DatasetteClient --------------------------
(***************************************************************************)
(* What DatasetteClient._request_with_retry (core/datasette_client.py)     *)
(* makes of an upstream reply: another attempt, a body, or an              *)
(* UpstreamCallFailed with or without an HTTP status.                      *)
(***************************************************************************)
EXTENDS Integers

(* "body": 2xx.  "garbage": 2xx with a body that is not what the caller    *)
(* parses.  "busy": 502 or 503.  "interrupted": 400, SQL Interrupted.      *)
(* "bad_request": any other 400.  "refused": 504 and every other status.   *)
(* "timeout" and "transport" raise in httpx.                               *)
Replies == {"body", "garbage", "busy", "interrupted", "bad_request", "refused", "timeout",
            "transport"}

Failures == Replies \ {"body", "garbage"}

Retried(reply, attempt) == reply = "busy" /\ attempt = 0

(* The replies to the given attempt that end the call in an exception.     *)
FinalFailures(attempt) == {r \in Failures : ~Retried(r, attempt)}

NoStatus == 0

(* UpstreamCallFailed.status; 500 stands for every status but 400.         *)
FailureStatus(reply) ==
  CASE reply = "bad_request"         -> 400
    [] reply \in {"busy", "refused"} -> 500
    [] OTHER                         -> NoStatus
=============================================================================
