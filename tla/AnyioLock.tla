----------------------------- MODULE AnyioLock -----------------------------
(***************************************************************************)
(* anyio.Lock under asyncio.  A free lock is taken at once, a held one is  *)
(* queued for, and on release it is handed to the first task in the queue, *)
(* so that it is never seen free meanwhile.                                *)
(***************************************************************************)
EXTENDS Integers, Sequences

CONSTANTS
  Callers,    \* the tasks that may use the lock
  NoOne       \* the owner of a free lock

ASSUME LockParameters == NoOne \notin Callers

VARIABLES
  owner,      \* the task that holds the lock
  waiters,    \* the tasks queued on it, oldest first
  pc          \* where each task is: "waiting" on the lock, or elsewhere

lockVars == <<owner, waiters>>

(* For variants: the lock does not exclude.                                *)
Seize(c) == owner' = c /\ UNCHANGED waiters

Acquire(c) == owner = NoOne /\ owner' = c /\ UNCHANGED waiters

(* Variant: the newest task is served first.                               *)
EnqueueFirst(c) == owner # NoOne /\ waiters' = <<c>> \o waiters /\ UNCHANGED owner

Enqueue(c) == owner # NoOne /\ waiters' = Append(waiters, c) /\ UNCHANGED owner

Release ==
  IF waiters = << >>
  THEN owner' = NoOne /\ UNCHANGED waiters
  ELSE owner' = Head(waiters) /\ waiters' = Tail(waiters)

(* The owner c releases the lock and is left at one place, the task that   *)
(* is given the lock wakes up at another.                                  *)
PassOn(c, left, given) ==
  /\ Release
  /\ pc' = [d \in Callers |-> IF d = c THEN left
                              ELSE IF waiters # << >> /\ d = Head(waiters) THEN given
                              ELSE pc[d]]

Without(s, i) == [j \in 1 .. Len(s) - 1 |-> IF j < i THEN s[j] ELSE s[j + 1]]

(* A queued task is cancelled.                                             *)
Abandon(c) ==
  /\ \E i \in 1 .. Len(waiters) : waiters[i] = c /\ waiters' = Without(waiters, i)
  /\ UNCHANGED owner

LockTypeOK(Places) ==
  /\ owner \in Callers \cup {NoOne}
  /\ waiters \in Seq(Callers)
  /\ pc \in [Callers -> Places]

(* Just the owner is at a place where the lock is held, and the queued     *)
(* tasks are distinct and all waiting for a lock that is held.             *)
Exclusive(Holding) ==
  /\ \A c \in Callers : pc[c] \in Holding <=> c = owner
  /\ \A i \in 1 .. Len(waiters) : pc[waiters[i]] = "waiting"
  /\ \A i, j \in 1 .. Len(waiters) : waiters[i] = waiters[j] => i = j
  /\ owner = NoOne => waiters = << >>

(* No wakeup is lost: a task at "waiting" is still in the queue.           *)
Queued == \A c \in Callers : pc[c] = "waiting" => \E i \in 1 .. Len(waiters) : waiters[i] = c

(* The owner, the queue and the places as the state of a FairLock.         *)
LineOf(o, w) == IF o = NoOne THEN << >> ELSE <<o>> \o w

Line == LineOf(owner, waiters)

Standing(Holding, place) ==
  IF place \in Holding THEN "in" ELSE IF place = "waiting" THEN "waiting" ELSE "out"

At(Holding) == [c \in Callers |-> Standing(Holding, pc[c])]
=============================================================================
