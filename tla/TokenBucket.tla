---------------------------- MODULE TokenBucket ----------------------------
(***************************************************************************)
(* What the burst window of docs/rate-limits.md promises, with no bucket   *)
(* store, no lazy refill and no eviction: every client has a level that    *)
(* time refills up to Full and that an admitted request lowers by Cost.    *)
(*                                                                         *)
(* MayForget says whether the limiter is allowed to lose the level of a    *)
(* client (it then starts again from Full).  RateLimiter implements this   *)
(* specification with MayForget = FALSE as long as its store never fills.  *)
(* A restart forgets everybody's.                                          *)
(***************************************************************************)
EXTENDS Integers

CONSTANTS Keys, Full, Cost, RefillPerTick, MayForget

VARIABLES level, restarts

TypeOK == level \in [Keys -> 0 .. Full] /\ restarts \in Nat

Refilled(l) == IF l + RefillPerTick >= Full THEN Full ELSE l + RefillPerTick

Init ==
  /\ level = [k \in Keys |-> Full]
  /\ restarts = 0

Elapse ==
  /\ level' = [k \in Keys |-> Refilled(level[k])]
  /\ UNCHANGED restarts

(* A request of k is admitted; the clients of F are forgotten meanwhile.   *)
Take(k, F) ==
  /\ level[k] >= Cost
  /\ F # {} => MayForget
  /\ level' = [x \in Keys |-> IF x \in F THEN Full
                              ELSE IF x = k THEN level[x] - Cost
                              ELSE level[x]]
  /\ UNCHANGED restarts

Restart ==
  /\ level' = [k \in Keys |-> Full]
  /\ restarts' = restarts + 1

Next ==
  \/ Elapse
  \/ \E k \in Keys, F \in SUBSET Keys : Take(k, F)
  \/ Restart

Spec == Init /\ [][Next]_<<level, restarts>>
=============================================================================
